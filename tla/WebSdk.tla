------------------------------- MODULE WebSdk -------------------------------
(***************************************************************************)
(* The browser SDK (sdk/web/src/pytagmanager.js): one Client of one page,  *)
(* the configuration it fetches, the consent it applies, its queue and its *)
(* batches, against the collection endpoint as ingest/http.py and          *)
(* ingest/service.py answer it.                                            *)
(*                                                                         *)
(* JavaScript runs each handler to completion, so a step is the code       *)
(* between two awaits; page calls (track, setConsent, flush), timers, the  *)
(* steps of _fetchConfig and the answer to a batch interleave freely.      *)
(*                                                                         *)
(* A configuration is reduced to what decides the fate of an event: the    *)
(* purposes each allowed event needs, the purposes its consent_defaults    *)
(* grant (or that it has none), whether its self-checksum matches and      *)
(* whether the SDK version is at least its minimum.                        *)
(***************************************************************************)
EXTENDS SeqFilter, Naturals, Sequences, FiniteSets

CONSTANTS
  Events,        \* event ids
  Name,          \* [Events -> event name]
  Purposes,      \* consent purposes
  NetConfigs,    \* configurations the CDN may serve
  CachedConfigs, \* configurations earlier page loads may have left in storage
  HostConsents,  \* values of the consent option: sets of granted purposes, or None
  PersistQueue,  \* the persistQueue option
  MaxQueue, BatchSize, MaxRetries,
  None,          \* null
  MaxReloads     \* bound: page reloads

ASSUME WebSdkAssumption ==
  /\ MaxQueue \in Nat \ {0} /\ BatchSize \in Nat \ {0} /\ MaxRetries \in Nat
  /\ MaxReloads \in Nat
  /\ PersistQueue \in BOOLEAN
  /\ \A h \in HostConsents : h = None \/ h \subseteq Purposes
  /\ \A cfg \in NetConfigs \cup CachedConfigs :
       cfg # None /\ (cfg.defaults = None \/ cfg.defaults \subseteq Purposes)

VARIABLES
  host,        \* this.options.consent
  config,      \* this.config, or None
  configError, \* this.configError is set
  fetching,    \* where _fetchConfig stands
  cached,      \* the cached configuration _fetchConfig read when it started
  stored,      \* storage: [config, queue]
  consent,     \* purposes granted in this._consent
  queue,       \* this.queue
  batch,       \* the batch of the request under way, << >> if none
  attempt,     \* this._retryAttempt
  backoff,     \* this._retryAt is in the future
  seen,        \* this.seenIds
  reloads,
  \* Observations: read by properties only.
  stale,       \* stored events that the last restore left out as too old
  chosen,      \* the last explicit choice of the page: [Purposes -> "yes", "no", None]
  overridden,  \* refused purposes that consent_defaults have granted since
  sentBlocked, \* events sent that the allowlist or the consent in use blocks
  sentRefused, \* events sent that need a refused purpose, not one of overridden
  gaveUp       \* events removed from the queue by an answer that called them retryable

fetchVars == <<config, configError, fetching, cached>>
sendVars  == <<batch, attempt, backoff>>
sentVars  == <<sentBlocked, sentRefused>>
obsVars   == <<stale, chosen, overridden, sentVars, gaveUp>>
vars == <<host, fetchVars, stored, consent, queue, sendVars, seen, reloads, obsVars>>

-----------------------------------------------------------------------------
(* Consent and the allowlist *)

\* _allowed: the event is on the list and every purpose of its rule is granted.
Allowed(cfg, granted, e) ==
  /\ Name[e] \in DOMAIN cfg.needs
  /\ cfg.needs[Name[e]] \subseteq granted

\* Mutant of Rechecked: the allowlist is consulted, the consent is not.
RecheckedByName(cfg, granted, q) ==
  IF cfg = None THEN q
  ELSE Filtered(q, {e \in Elements(q) : Name[e] \in DOMAIN cfg.needs})

\* _recheckQueue.
Rechecked(cfg, granted, q) ==
  IF cfg = None THEN q
  ELSE Filtered(q, {e \in Elements(q) : Allowed(cfg, granted, e)})

\* _persistQueue.
Persisted(q) ==
  IF PersistQueue
  THEN [stored EXCEPT !.queue = IF Len(q) > MaxQueue
                                THEN SubSeq(q, Len(q) - MaxQueue + 1, Len(q)) ELSE q]
  ELSE stored

\* Mutant of ConsentUnder: consent_defaults win over the consent option too.
ConsentUnderDefaults(cfg) == IF cfg.defaults # None THEN cfg.defaults ELSE consent

\* The consent after _applyConfig: consent_defaults replace whatever is there,
\* unless the page passed the consent option.
ConsentUnder(cfg) ==
  IF cfg.defaults # None /\ host = None THEN cfg.defaults ELSE consent

\* _applyConfig of cfg, which does not throw: compatible with this SDK version.
ApplyConfig(cfg) ==
  LET q == Rechecked(cfg, ConsentUnder(cfg), queue) IN
  /\ config' = cfg
  /\ configError' = FALSE
  /\ consent' = ConsentUnder(cfg)
  /\ queue' = q
  /\ overridden' = IF cfg.defaults # None /\ host = None
                   THEN {p \in cfg.defaults : chosen[p] = "no"} ELSE overridden

-----------------------------------------------------------------------------
(* _fetchConfig *)

\* A cached copy that passes verification is applied before the request is made;
\* one that fails, or does not fit the SDK version, is set aside.
FetchReadsCache ==
  /\ fetching = "start"
  /\ fetching' = "requested"
  /\ IF cached # None /\ cached.intact /\ cached.compatible
     THEN ApplyConfig(cached) /\ stored' = Persisted(queue')
     ELSE UNCHANGED <<config, configError, consent, queue, overridden, stored>>
  /\ UNCHANGED <<host, cached, sendVars, seen, reloads, stale, chosen, sentVars, gaveUp>>

\* The answer is an environment pointer: the configuration it names is requested, this
\* time without a signal that could abort the request.
FetchPointer ==
  /\ fetching = "requested"
  /\ fetching' = "pointer"
  /\ UNCHANGED <<host, config, configError, cached, stored, consent, queue, sendVars, seen,
                 reloads, obsVars>>

\* A 304 answer re-applies the cached copy, without verifying it again.
FetchNotModified ==
  /\ fetching = "requested"
  /\ cached # None /\ cached.compatible
  /\ ApplyConfig(cached)
  /\ stored' = Persisted(queue')
  /\ fetching' = "done"
  /\ UNCHANGED <<host, cached, sendVars, seen, reloads, stale, chosen, sentVars, gaveUp>>

\* A fresh configuration that passes verification is applied and cached.
FetchOk(cfg) ==
  /\ fetching \in {"requested", "pointer"}
  /\ cfg.intact /\ cfg.compatible
  /\ ApplyConfig(cfg)
  /\ stored' = [Persisted(queue') EXCEPT !.config = cfg]
  /\ fetching' = "done"
  /\ UNCHANGED <<host, cached, sendVars, seen, reloads, stale, chosen, sentVars, gaveUp>>

\* Anything else (network, HTTP status, failed verification, SDK too old): the
\* error is kept, and with no configuration in use the cached copy is applied.
FetchFails ==
  /\ fetching \in {"requested", "pointer"}
  /\ fetching' = "done"
  /\ IF cached # None /\ cached.compatible /\ config = None
     THEN ApplyConfig(cached) /\ stored' = Persisted(queue')
     ELSE /\ configError' = TRUE
          /\ UNCHANGED <<config, consent, queue, overridden, stored>>
  /\ UNCHANGED <<host, cached, sendVars, seen, reloads, stale, chosen, sentVars, gaveUp>>

-----------------------------------------------------------------------------
(* track, setConsent, flush *)

\* The last explicit choice of the page refuses a purpose that e needs.
Refused(e) == \E p \in config.needs[Name[e]] \ overridden : chosen[p] = "no"

\* The batch flush takes from q, after its recheck, and hands to the network.
TakeBatch(q) ==
  LET b == IF Len(q) > BatchSize THEN SubSeq(q, 1, BatchSize) ELSE q IN
  /\ batch' = b
  /\ sentBlocked' = sentBlocked \cup {e \in Elements(b) : ~Allowed(config, consent, e)}
  /\ sentRefused' = sentRefused \cup {e \in Elements(b) : Allowed(config, consent, e) /\ Refused(e)}

CanFlush == batch = << >> /\ config # None /\ ~backoff

Enqueued(q, e) ==
  LET all == Append(q, e) IN
  IF Len(all) > MaxQueue THEN SubSeq(all, Len(all) - MaxQueue + 1, Len(all)) ELSE all

\* track of a new event: refused when there is no configuration to come, checked
\* against the configuration when there is one, queued unchecked before that.
\* A full batch is flushed at once.
Track(e) ==
  LET q == Enqueued(queue, e) IN
  /\ e \notin seen
  /\ ~(config = None /\ configError)
  /\ seen' = seen \cup {e}
  /\ IF config # None /\ ~Allowed(config, consent, e)
     THEN UNCHANGED <<queue, stored, batch, stale, sentVars>>
     ELSE IF Len(q) >= BatchSize /\ CanFlush
     THEN /\ queue' = Rechecked(config, consent, q)
          /\ stored' = Persisted(queue')
          /\ TakeBatch(queue')
          /\ stale' = stale \ {e}
     ELSE /\ queue' = q
          /\ stored' = Persisted(q)
          /\ stale' = stale \ {e}
          /\ UNCHANGED <<batch, sentVars>>
  /\ UNCHANGED <<host, fetchVars, consent, attempt, backoff, reloads, chosen, overridden, gaveUp>>

\* setConsent: the choices are merged into the consent and the queue is rechecked.
SetConsent(p, answer) ==
  /\ consent' = IF answer = "yes" THEN consent \cup {p} ELSE consent \ {p}
  /\ chosen' = [chosen EXCEPT ![p] = answer]
  /\ queue' = Rechecked(config, consent', queue)
  /\ stored' = Persisted(queue')
  /\ overridden' = overridden \ {p}
  /\ UNCHANGED <<host, fetchVars, sendVars, seen, reloads, stale, sentVars, gaveUp>>

\* flush, from the timer, pagehide or the page.
Flush ==
  /\ CanFlush
  /\ queue # << >>
  /\ queue' = Rechecked(config, consent, queue)
  /\ stored' = Persisted(queue')
  /\ TakeBatch(queue')
  /\ UNCHANGED <<host, fetchVars, consent, attempt, backoff, seen, reloads, stale, chosen,
                 overridden, gaveUp>>

\* Mutant of RetryTimer: the timer of the last permitted retry is not armed.
RetryTimerNotLast ==
  /\ backoff /\ attempt < MaxRetries
  /\ backoff' = FALSE
  /\ queue' = Rechecked(config, consent, queue)
  /\ stored' = Persisted(queue')
  /\ TakeBatch(queue')
  /\ UNCHANGED <<host, fetchVars, consent, attempt, seen, reloads, stale, chosen, overridden,
                 gaveUp>>

\* The retry timer: _retryAt is cleared and flush called.  A flush from the
\* interval timer that comes once _retryAt has passed does the same.
RetryTimer ==
  /\ backoff
  /\ backoff' = FALSE
  /\ queue' = Rechecked(config, consent, queue)
  /\ stored' = Persisted(queue')
  /\ TakeBatch(queue')
  /\ UNCHANGED <<host, fetchVars, consent, attempt, seen, reloads, stale, chosen, overridden,
                 gaveUp>>

-----------------------------------------------------------------------------
(* The answer to a batch *)

Without(q, S) == Filtered(q, Elements(q) \ S)

\* The outcome of one event in IngestService._process_validated.
Outcome == {"forwarded", "duplicate", "in_progress", "transient_error", "rejected"}

Retryable == {"in_progress", "transient_error"}

\* ingest_batch and do_POST: a batch with a retryable or a rejected event is
\* answered 207, any other 202.  Both are 2xx.
HttpStatus(results) ==
  IF \E e \in DOMAIN results : results[e] \in Retryable \cup {"rejected"} THEN 207 ELSE 202

Delivered(results) ==
  /\ queue' = Without(queue, Elements(batch))
  /\ attempt' = 0
  /\ backoff' = FALSE
  /\ gaveUp' = gaveUp \cup {e \in DOMAIN results : results[e] \in Retryable}

\* Mutant of Answer2xx: the queue is not saved after a delivery.
Answer2xxUnsaved(results) ==
  /\ batch # << >>
  /\ Delivered(results)
  /\ batch' = << >>
  /\ UNCHANGED <<host, stored, fetchVars, consent, seen, reloads, stale, chosen, overridden, sentVars>>

\* A 2xx answer settles the whole batch; the body is not read.
Answer2xx(results) ==
  /\ batch # << >>
  /\ HttpStatus(results) \in 200 .. 299
  /\ Delivered(results)
  /\ stored' = Persisted(queue')
  /\ batch' = << >>
  /\ UNCHANGED <<host, fetchVars, consent, seen, reloads, stale, chosen, overridden, sentVars>>

\* The next attempt is scheduled; the batch stays in the queue.
Retry ==
  /\ attempt < MaxRetries
  /\ attempt' = attempt + 1
  /\ backoff' = TRUE
  /\ batch' = << >>
  /\ UNCHANGED <<queue, stored>>

\* 400, 413, 422..., and a transient status after the last retry: the batch is dropped.
DropBatch ==
  /\ queue' = Without(queue, Elements(batch))
  /\ stored' = Persisted(queue')
  /\ attempt' = 0
  /\ backoff' = FALSE
  /\ batch' = << >>

\* 408, 425, 429 and 5xx.
AnswerTransient ==
  /\ batch # << >>
  /\ IF attempt < MaxRetries THEN Retry ELSE DropBatch
  /\ UNCHANGED <<host, fetchVars, consent, seen, reloads, obsVars>>

AnswerRejected ==
  /\ batch # << >>
  /\ DropBatch
  /\ UNCHANGED <<host, fetchVars, consent, seen, reloads, obsVars>>

\* fetch throws or is aborted by the request timeout: after the last retry the
\* batch stays in the queue and the next flush starts a new series.
NetworkError ==
  /\ batch # << >>
  /\ IF attempt < MaxRetries THEN Retry
     ELSE /\ attempt' = 0 /\ backoff' = FALSE /\ batch' = << >>
          /\ UNCHANGED <<queue, stored>>
  /\ UNCHANGED <<host, fetchVars, consent, seen, reloads, obsVars>>

-----------------------------------------------------------------------------

InitialConsent(h) == IF h = None THEN {} ELSE h

\* The consent option is an explicit choice of the page too.
InitialChoice(h) ==
  [p \in Purposes |-> IF h = None THEN None ELSE IF p \in h THEN "yes" ELSE "no"]

\* The page is closed or reloaded: only storage survives, and a request under way
\* is on its own.  The new client restores the queue if it is persisted, without
\* the events (old) whose timestamp is more than a day back, and starts with whatever
\* the page passes as the consent option now (h).
Reload(old, h) ==
  /\ reloads < MaxReloads
  /\ reloads' = reloads + 1
  /\ config' = None /\ configError' = FALSE /\ fetching' = "start"
  /\ cached' = stored.config
  /\ host' = h
  /\ consent' = InitialConsent(h)
  /\ stale \cap Elements(stored.queue) \subseteq old
  /\ stale' = old
  /\ queue' = IF PersistQueue THEN Without(stored.queue, old) ELSE << >>
  /\ batch' = << >> /\ attempt' = 0 /\ backoff' = FALSE
  /\ seen' = {}
  /\ chosen' = InitialChoice(h) /\ overridden' = {}
  /\ UNCHANGED <<stored, sentVars, gaveUp>>

Init ==
  /\ config = None /\ configError = FALSE /\ fetching = "start"
  /\ \E c \in CachedConfigs \cup {None} :
       cached = c /\ stored = [config |-> c, queue |-> << >>]
  /\ host \in HostConsents
  /\ consent = InitialConsent(host) /\ chosen = InitialChoice(host) /\ overridden = {}
  /\ queue = << >> /\ batch = << >> /\ attempt = 0 /\ backoff = FALSE
  /\ seen = {} /\ reloads = 0
  /\ stale = {} /\ sentBlocked = {} /\ sentRefused = {} /\ gaveUp = {}

Fetch ==
  \/ FetchReadsCache
  \/ FetchPointer
  \/ FetchNotModified
  \/ \E cfg \in NetConfigs : FetchOk(cfg)
  \/ FetchFails

Settled ==
  \/ \E results \in [Elements(batch) -> Outcome] : Answer2xx(results)
  \/ AnswerRejected

Unsettled == AnswerTransient \/ NetworkError

Next ==
  \/ Fetch
  \/ \E e \in Events : Track(e)
  \/ \E p \in Purposes, answer \in {"yes", "no"} : SetConsent(p, answer)
  \/ Flush
  \/ RetryTimer
  \/ Settled
  \/ Unsettled
  \/ \E old \in SUBSET Elements(stored.queue), h \in HostConsents : Reload(old, h)

Spec == Init /\ [][Next]_vars

\* The interval timer, started once _fetchConfig is over, and the retry timer go on
\* firing while the page is open; the first request for a configuration and every
\* batch end (requestTimeoutMs aborts them), which is not said of the request that
\* follows an environment pointer; and the collector, asked again and again, is not out
\* of order for ever.
FairSpec ==
  /\ Spec
  /\ WF_vars(fetching # "pointer" /\ Fetch)
  /\ WF_vars(fetching = "done" /\ Flush) /\ WF_vars(RetryTimer)
  /\ WF_vars(Settled \/ Unsettled) /\ SF_vars(Settled)

-----------------------------------------------------------------------------
(* Properties *)

\* The queue never outgrows maxQueue nor a batch batchSize, on any path that
\* fills them, and the retry counter stays within maxRetries.
TypeOK ==
  /\ host \in HostConsents
  /\ config \in NetConfigs \cup CachedConfigs \cup {None}
  /\ cached \in NetConfigs \cup CachedConfigs \cup {None}
  /\ configError \in BOOLEAN
  /\ fetching \in {"start", "requested", "pointer", "done"}
  /\ stored.config \in NetConfigs \cup CachedConfigs \cup {None}
  /\ stored.queue \in Seq(Events)
  /\ consent \subseteq Purposes
  /\ queue \in Seq(Events) /\ Len(queue) <= MaxQueue
  /\ batch \in Seq(Events) /\ Len(batch) <= BatchSize
  /\ attempt \in 0 .. MaxRetries
  /\ backoff \in BOOLEAN
  /\ seen \subseteq Events
  /\ reloads \in Nat
  /\ chosen \in [Purposes -> {"yes", "no", None}]
  /\ stale \subseteq Events /\ overridden \subseteq Purposes
  /\ sentBlocked \subseteq Events /\ sentRefused \subseteq Events /\ gaveUp \subseteq Events

\* Nothing leaves the page that the allowlist or the consent in use blocks, on any
\* path to the network: events queued before the configuration came, restored after
\* a reload, or queued before a withdrawal are rechecked before every request.
NothingBlockedIsSent == sentBlocked = {}

\* With a persisted queue, storage holds at every moment exactly what is queued, but
\* for events the last restore found too old: no answered, dropped or withdrawn
\* event comes back after a reload, and no queued event is missing.
StorageMirrorsQueue == PersistQueue => Without(stored.queue, stale) = queue

\* The queue and its timers are well formed and bounded, and the stored copy of the
\* queue is the queue whenever the page could be closed.
QueueSound == TypeOK /\ StorageMirrorsQueue

\* A purpose the page has explicitly refused, by the consent option or by setConsent, is
\* honoured by every request until the page grants it, whatever is cached, arrives, is
\* restored or is answered in between, with one exception: for a page that does not pass
\* the option, consent_defaults that grant the purpose and arrive after setConsent
\* replace the refusal.
ExplicitRefusalHonoured == sentRefused = {}

\* Once the fetch of the configuration is over and one is in use, the queue keeps
\* draining: retries, back-off and overlapping flushes never leave an event queued for
\* ever.  Until the fetch is over no interval timer runs.
QueueDrains == (config # None /\ fetching = "done") ~> (queue = << >> \/ config = None)

\* sdk/web/README.md: verification fails closed.
OnlyVerifiedConfigs == config # None => config.intact

\* sdk/web/README.md: batches retry transient failures.
RetryableIsKept == gaveUp = {}
=============================================================================
