----------------------------- MODULE MobileSdk ------------------------------
(***************************************************************************)
(* The mobile clients: PyTagManager and EventStore of the iOS SDK,         *)
(* PyTagManager and EventQueue of the Android SDK.                         *)
(*                                                                         *)
(* Both follow one protocol.  The configuration and the consent sit behind *)
(* one lock, the queue (a file, rewritten as a whole) behind another, and  *)
(* nothing is held between the two: a thread that has read the consent     *)
(* stores its event later, and a thread that has changed the consent       *)
(* purges the queue later.  A flush reads one batch and sends that same    *)
(* batch again and again.  The platforms differ in five switches:          *)
(* ExclusiveFlush (claimFlush), ChecksContainer (validateContainer),       *)
(* AtomicCache and SwallowsSaves (try?) are iOS only, and                  *)
(* AllowWithoutConfig has other defaults.  A file may fail to be written.  *)
(*                                                                         *)
(* A published document is given by what the clients look at: its kind,    *)
(* whether its digest is right, whether it is this container's, and which  *)
(* purposes each event needs.  The consent is not persisted.               *)
(***************************************************************************)
EXTENDS SeqFilter, Naturals, Sequences, FiniteSets

CONSTANTS
  Threads,            \* application threads that call track and setConsent
  Flushers,           \* threads that call flush: the timer, the lifecycle, the application
  Names,              \* event names
  Purposes,           \* consent purposes
  Documents,          \* what the configuration URL may serve
  ExclusiveFlush,     \* claimFlush refuses a second flush
  ChecksContainer,    \* a configuration of another container is refused
  AtomicCache,        \* the cached configuration is written atomically
  SwallowsSaves,      \* a file that cannot be written is not noticed, but for enqueue
  AllowWithoutConfig, \* allowTrackingWithoutConfig
  MaxQueue,           \* maxEvents
  Batch,              \* events per flush
  MaxRetries,         \* attempts of one flush
  None,               \* nil
  Unlisted,           \* the configuration does not list the event
  MaxEvents,          \* bound: events tracked
  MaxConsents,        \* bound: calls of setConsent
  MaxFetches,         \* bound: calls of configure
  MaxFailures,        \* bound: requests not answered 2xx, 2xx answers that do not settle the
                      \* whole batch, and files that cannot be written, together
  MaxKills            \* bound: ends of the process

MobileAssumption ==
  /\ Documents \subseteq [kind : {"container", "environment"}, intact : BOOLEAN,
                          own : BOOLEAN,
                          needs : [Names -> (SUBSET Purposes) \cup {Unlisted}]]
  /\ {ExclusiveFlush, ChecksContainer, AtomicCache, SwallowsSaves, AllowWithoutConfig} \subseteq BOOLEAN
  /\ {MaxQueue, Batch, MaxRetries} \subseteq Nat \ {0}
  /\ {MaxEvents, MaxConsents, MaxFetches, MaxFailures, MaxKills} \subseteq Nat

VARIABLES
  config,    \* the configuration in use, or None
  cache,     \* public-config.json, or None
  fetch,     \* configure: where it is, and the document about to be used
  consent,   \* granted purposes, or None
  thread,    \* [Threads -> what the call has still to do]
  queue,     \* events.json
  flush,     \* [Flushers -> the batch in hand and the attempt]
  unanswered, \* events of requests that got no answer: the collector may still have them
  tracked, consents, fetches, failures, kills,
  \* Read by properties only.
  denied,    \* purposes the last setConsent refused
  late,      \* events made, but not stored, when it replaced the consent
  unpurged,  \* events that a purge since then could not take out of the file
  excused    \* events that were settled, purged, pushed out by newer ones or not stored
             \* (gone), and events dropped as in progress

app == <<config, cache, fetch, consent, thread>>
counts == <<tracked, consents, fetches, failures, kills>>
refusal == <<denied, late, unpurged>>
vars == <<app, queue, flush, unanswered, counts, refusal, excused>>

Ids == 1 .. MaxEvents

Event == [id : Ids, granted : (SUBSET Purposes) \cup {None}]

IdleThread == [step |-> "idle"]
NoFetch == [step |-> "idle", doc |-> None]
NoBatch == [batch |-> <<>>, attempt |-> 0]

IdsOf(s) == {e.id : e \in Elements(s)}

Init ==
  /\ config = None /\ cache = None /\ fetch = NoFetch /\ consent = None
  /\ thread = [t \in Threads |-> IdleThread]
  /\ queue = <<>>
  /\ flush = [f \in Flushers |-> NoBatch]
  /\ unanswered = {}
  /\ tracked = 0 /\ consents = 0 /\ fetches = 0
  /\ failures = 0 /\ kills = 0
  /\ denied = {} /\ late = {} /\ unpurged = {}
  /\ excused = [gone |-> {}, dropped |-> {}]

Fails == failures < MaxFailures /\ failures' = failures + 1

-----------------------------------------------------------------------------
(* Consent.                                                                *)

\* Events that a call of track has made and not yet stored.
StoringIn(th) == {th[t].event.id : t \in {u \in Threads : th[u].step = "store"}}

\* setConsent replaces the consent; a call that refuses nothing ends here.
SetConsent(t, granted, refused) ==
  /\ thread[t] = IdleThread
  /\ consents < MaxConsents
  /\ granted \cup refused # {}
  /\ granted \cap refused = {}
  /\ consent' = granted
  /\ denied' = refused /\ late' = StoringIn(thread) /\ unpurged' = {}
  /\ thread' = [thread EXCEPT ![t] =
                  IF refused = {} THEN IdleThread ELSE [step |-> "purge", refused |-> refused]]
  /\ consents' = consents + 1
  /\ UNCHANGED <<config, cache, fetch, queue, flush, unanswered, tracked, fetches, failures, kills,
                 excused>>

\* Mutant of Withdrawn: only events all of whose purposes are refused.
WithdrawnEntirely(e, refused) == e.granted = None \/ e.granted \subseteq refused

\* What a withdrawal purges: events that carry no consent, or a refused purpose
\* among those granted when they were tracked.
Withdrawn(e, refused) == e.granted = None \/ e.granted \cap refused # {}

\* The second half of setConsent.  With a file that cannot be written the events stay:
\* iOS does not notice, on Android setConsent raises.
Purge(t) ==
  /\ thread[t].step = "purge"
  /\ LET out == {e \in Elements(queue) : Withdrawn(e, thread[t].refused)}
         ids == {e.id : e \in out}
     IN \/ /\ queue' = Filtered(queue, Elements(queue) \ out)
           /\ excused' = [excused EXCEPT !.gone = @ \cup ids]
           /\ UNCHANGED <<failures, unpurged>>
        \/ /\ Fails
           /\ unpurged' = unpurged \cup ids
           /\ UNCHANGED <<queue, excused>>
  /\ thread' = [thread EXCEPT ![t] = IdleThread]
  /\ UNCHANGED <<config, cache, fetch, consent, flush, unanswered, tracked, consents, fetches,
                 kills, denied, late>>

-----------------------------------------------------------------------------
(* Tracking.                                                               *)

\* One of the purposes the event needs suffices.  Without a configuration
\* everything may be tracked.
Trackable(n) ==
  config # None =>
    IF config.needs[n] = Unlisted THEN AllowWithoutConfig
    ELSE \/ config.needs[n] = {}
         \/ consent # None /\ config.needs[n] \cap consent # {}

\* track reads configuration and consent under the lock and makes the event;
\* a suppressed event changes nothing.
Track(t, n) ==
  /\ thread[t] = IdleThread
  /\ tracked < MaxEvents
  /\ Trackable(n)
  /\ thread' = [thread EXCEPT ![t] =
                  [step |-> "store", event |-> [id |-> tracked + 1, granted |-> consent]]]
  /\ tracked' = tracked + 1
  /\ UNCHANGED <<config, cache, fetch, consent, queue, flush, unanswered, consents, fetches,
                 failures, kills, refusal, excused>>

\* EventStore.enqueue: the oldest events make room.
Enqueue(t) ==
  /\ thread[t].step = "store"
  /\ LET all == Append(queue, thread[t].event)
         over == IF Len(all) > MaxQueue THEN Len(all) - MaxQueue ELSE 0
     IN /\ queue' = SubSeq(all, over + 1, Len(all))
        /\ excused' = [excused EXCEPT !.gone = @ \cup IdsOf(SubSeq(all, 1, over))]
  /\ thread' = [thread EXCEPT ![t] = IdleThread]
  /\ UNCHANGED <<config, cache, fetch, consent, flush, unanswered, counts, refusal>>

\* enqueue raises, and track reports the event as invalid.
EnqueueFails(t) ==
  /\ thread[t].step = "store"
  /\ Fails
  /\ excused' = [excused EXCEPT !.gone = @ \cup {thread[t].event.id}]
  /\ thread' = [thread EXCEPT ![t] = IdleThread]
  /\ UNCHANGED <<config, cache, fetch, consent, queue, flush, unanswered, tracked, consents,
                 fetches, kills, refusal>>

-----------------------------------------------------------------------------
(* Configuration.                                                          *)

\* verifyIntegrity, decode and, on iOS, validateContainer.
Acceptable(d) ==
  /\ d # None
  /\ d.intact
  /\ d.kind = "container"
  /\ ChecksContainer => d.own

\* The request is made.
Configure ==
  /\ fetch.step = "idle"
  /\ fetches < MaxFetches
  /\ fetch' = [step |-> "waiting", doc |-> None]
  /\ fetches' = fetches + 1
  /\ UNCHANGED <<config, cache, consent, thread, queue, flush, unanswered, tracked, consents,
                 failures, kills, refusal, excused>>

\* An accepted answer goes to the cache file first.
Fetched(d) ==
  /\ fetch.step = "waiting"
  /\ Acceptable(d)
  /\ cache' = d
  /\ fetch' = [step |-> "store", doc |-> d]
  /\ UNCHANGED <<config, consent, thread, queue, flush, unanswered, counts, refusal, excused>>

\* The cached copy is verified and used, or configure raises and the configuration in
\* use stays.
FallBack(copy) ==
  /\ config' = IF Acceptable(copy) THEN copy ELSE config
  /\ fetch' = NoFetch

Damaged(d) == [d EXCEPT !.intact = FALSE]

\* The cache file cannot be written.  iOS goes on without it; Android, which has opened
\* the file and may have written part of it, falls back on what is left there.
CacheUnsaved(d) ==
  /\ fetch.step = "waiting"
  /\ Acceptable(d)
  /\ Fails
  /\ IF SwallowsSaves
     THEN /\ fetch' = [step |-> "store", doc |-> d]
          /\ UNCHANGED <<cache, config>>
     ELSE /\ cache' \in {cache, Damaged(d)}
          /\ FallBack(cache')
  /\ UNCHANGED <<consent, thread, queue, flush, unanswered, tracked, consents, fetches, kills, refusal,
                 excused>>

\* storeConfig.
StoreConfig ==
  /\ fetch.step = "store"
  /\ config' = fetch.doc
  /\ fetch' = NoFetch
  /\ UNCHANGED <<cache, consent, thread, queue, flush, unanswered, counts, refusal, excused>>

\* No answer (d = None) or one that is refused.
FetchFailed(d) ==
  /\ fetch.step = "waiting"
  /\ ~ Acceptable(d)
  /\ FallBack(cache)
  /\ UNCHANGED <<cache, consent, thread, queue, flush, unanswered, counts, refusal, excused>>

-----------------------------------------------------------------------------
(* Delivery.                                                               *)

Flushing(f) == flush[f].batch # <<>>

\* flush claims, where there is a claim, and reads its batch; an empty queue ends it.
Flush(f) ==
  /\ ~ Flushing(f)
  /\ ExclusiveFlush => \A g \in Flushers : ~ Flushing(g)
  /\ queue # <<>>
  /\ flush' = [flush EXCEPT ![f] =
                 [batch |-> SubSeq(queue, 1, IF Len(queue) < Batch THEN Len(queue) ELSE Batch),
                  attempt |-> 1]]
  /\ UNCHANGED <<app, queue, unanswered, counts, refusal, excused>>

\* Mutant of Retained: the answer's results are not read.
RetainedNothing(again) == {}

\* removeDelivered, transientIds: events the answer calls transient_error or
\* rate_limited stay.
Retained(again) == again

\* Events another request may hold at the collector: one that got no answer, or that of
\* another flush.
HeldElsewhere(f) == unanswered \cup UNION {IdsOf(flush[g].batch) : g \in Flushers \ {f}}

\* A 2xx answer: the collector asks for the events of again again, another request is
\* still handling those of pending (in_progress), and the rest is settled.
Answer(f, again, pending) ==
  /\ Flushing(f)
  /\ again \subseteq IdsOf(flush[f].batch)
  /\ pending \subseteq (IdsOf(flush[f].batch) \ again) \cap HeldElsewhere(f)
  /\ IF again \cup pending = {} THEN UNCHANGED failures ELSE Fails
  /\ excused' = [excused EXCEPT !.gone = @ \cup (IdsOf(flush[f].batch) \ (again \cup pending)),
                                !.dropped = @ \cup pending]

\* Mutant of Delivered: the claim is not given back.
DeliveredHolding(f, again, pending) ==
  /\ Answer(f, again, pending)
  /\ LET gone == IdsOf(flush[f].batch) \ Retained(again) IN
       queue' = Filtered(queue, {e \in Elements(queue) : e.id \notin gone})
  /\ UNCHANGED <<app, flush, unanswered, tracked, consents, fetches, kills, refusal>>

\* 2xx: what is not asked for again leaves the queue, events in progress among it.
Delivered(f, again, pending) ==
  /\ Answer(f, again, pending)
  /\ LET gone == IdsOf(flush[f].batch) \ Retained(again) IN
       queue' = Filtered(queue, {e \in Elements(queue) : e.id \notin gone})
  /\ flush' = [flush EXCEPT ![f] = NoBatch]
  /\ UNCHANGED <<app, unanswered, tracked, consents, fetches, kills, refusal>>

\* The same batch again, up to MaxRetries attempts.
NextAttempt(b) ==
  IF b.attempt < MaxRetries THEN [batch |-> b.batch, attempt |-> b.attempt + 1] ELSE NoBatch

\* 2xx, but the queue file cannot be written: on iOS nobody notices, on Android it counts
\* as a failed attempt.  The events stay either way.
DeliveredUnsaved(f) ==
  /\ Flushing(f)
  /\ Fails
  /\ flush' = [flush EXCEPT ![f] = IF SwallowsSaves THEN NoBatch ELSE NextAttempt(@)]
  /\ UNCHANGED <<app, queue, unanswered, tracked, consents, fetches, kills, refusal,
                 excused>>

\* 429, 5xx, or no answer, after which the collector may still handle the batch.
Retry(f) ==
  /\ Flushing(f)
  /\ Fails
  /\ flush' = [flush EXCEPT ![f] = NextAttempt(@)]
  /\ unanswered' \in {unanswered, unanswered \cup IdsOf(flush[f].batch)}
  /\ UNCHANGED <<app, queue, tracked, consents, fetches, kills, refusal, excused>>

\* Any other 4xx ends the flush; the events stay.
Refused(f) ==
  /\ Flushing(f)
  /\ Fails
  /\ flush' = [flush EXCEPT ![f] = NoBatch]
  /\ UNCHANGED <<app, queue, unanswered, tracked, consents, fetches, kills, refusal,
                 excused>>

\* The process ends; the files stay.  A cache that was being written in place
\* (Android's writeBytes) may be left damaged.
Kill ==
  /\ kills < MaxKills
  /\ kills' = kills + 1
  /\ config' = None /\ fetch' = NoFetch /\ consent' = None
  /\ \/ UNCHANGED cache
     \/ /\ ~ AtomicCache
        /\ fetch.step = "store"
        /\ cache' = Damaged(fetch.doc)
  /\ thread' = [t \in Threads |-> IdleThread]
  /\ flush' = [f \in Flushers |-> NoBatch]
  /\ unanswered' = unanswered \cup UNION {IdsOf(flush[f].batch) : f \in Flushers}
  /\ denied' = IF \E t \in Threads : thread[t].step = "purge" THEN {} ELSE denied
  /\ excused' = [excused EXCEPT !.gone = @ \cup StoringIn(thread)]
  /\ UNCHANGED <<queue, tracked, consents, fetches, failures, late, unpurged>>

Deliver(f) ==
  \/ Flush(f)
  \/ \E again, pending \in SUBSET Ids : Delivered(f, again, pending)

Next ==
  \/ \E t \in Threads :
       \/ \E g, r \in SUBSET Purposes : SetConsent(t, g, r)
       \/ Purge(t)
       \/ \E n \in Names : Track(t, n)
       \/ Enqueue(t)
       \/ EnqueueFails(t)
  \/ Configure
  \/ \E d \in Documents : Fetched(d) \/ CacheUnsaved(d)
  \/ StoreConfig
  \/ \E d \in Documents \cup {None} : FetchFailed(d)
  \/ \E f \in Flushers : Deliver(f) \/ DeliveredUnsaved(f) \/ Retry(f) \/ Refused(f)
  \/ Kill

Spec == Init /\ [][Next]_vars

\* The timer of startAutoFlush fires for ever, and a request ends: the URL
\* loading system and the socket time-outs see to it.
FairSpec == Spec /\ \A f \in Flushers : WF_vars(Deliver(f))

-----------------------------------------------------------------------------
(* Properties.                                                             *)

TypeOK ==
  /\ config \in Documents \cup {None}
  /\ fetch \in [step : {"idle", "waiting", "store"}, doc : Documents \cup {None}]
  /\ consent \in (SUBSET Purposes) \cup {None}
  /\ \A t \in Threads :
       \/ thread[t] = IdleThread
       \/ thread[t] \in [step : {"purge"}, refused : SUBSET Purposes]
       \/ thread[t] \in [step : {"store"}, event : Event]
  /\ queue \in Seq(Event) /\ Len(queue) <= MaxQueue
  /\ \A f \in Flushers : flush[f].batch \in Seq(Event) /\ Len(flush[f].batch) <= Batch
  /\ \A f \in Flushers : flush[f].attempt \in 0 .. MaxRetries
  /\ unanswered \subseteq Ids

\* An event whose tracking was reported as queued leaves the queue only because
\* the collector settled it, a withdrawal purged it, newer events pushed it out, or the
\* collector said that another request was still handling it, which both clients take
\* for an end (one not stored yet is lost with the process): never because a batch that
\* held it was answered, given up or asked for again.
NothingLost ==
  \A i \in 1 .. tracked :
    \/ i \in IdsOf(queue)
    \/ i \in excused.gone \cup excused.dropped
    \/ \E t \in Threads : thread[t].step = "store" /\ thread[t].event.id = i

\* A configuration in use was verified, also when it came from a cache file that
\* an earlier run of the process left half written; on iOS it is the container's.
OnlyVerifiedConfigs ==
  config # None => config.intact /\ (ChecksContainer => config.own)

\* Two flushes never have one event under way at once: "Overlapping flushes are
\* rejected instead of sending the same queued batch twice" (sdk/ios/README.md).
BatchesDisjoint ==
  \A f, g \in Flushers :
    f # g => IdsOf(flush[f].batch) \cap IdsOf(flush[g].batch) = {}

\* An event that was queued leaves the queue only for a reason; and where flushes are
\* exclusive no two of them have one event under way at once, and an event is dropped as
\* in progress only if an earlier request with it got no answer.
QueueKept ==
  /\ TypeOK
  /\ NothingLost
  /\ ExclusiveFlush => BatchesDisjoint /\ excused.dropped \subseteq unanswered

\* Once every call of setConsent has returned, also after the process has ended since, an
\* event in the queue that was tracked under a purpose the last one refused is one that
\* another thread had made but not stored when the consent changed, or one that a purge
\* could not take out of the file: "Consent withdrawal removes queued mobile events whose
\* purposes intersect the withdrawal" (docs/architecture/multiplatform-extension.md).
WithdrawalPurges ==
  (\A t \in Threads : thread[t].step # "purge") =>
    \A i \in DOMAIN queue :
      queue[i].granted # None /\ queue[i].granted \cap denied # {} =>
        queue[i].id \in late \cup unpurged

\* A configuration in use was verified, wherever it came from; and a withdrawal leaves
\* nothing behind but what another thread was about to store and what a file that could
\* not be written still holds.
ConfigAndConsentHonoured == OnlyVerifiedConfigs /\ WithdrawalPurges

\* With auto-flush running every event leaves the queue, whatever failures, partial
\* answers and files that cannot be written come first.
QueueDrains == \A i \in Ids : i \in IdsOf(queue) ~> i \notin IdsOf(queue)
=============================================================================
