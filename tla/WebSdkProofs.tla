---------------------------- MODULE WebSdkProofs ----------------------------
(***************************************************************************)
(* What holds of the browser SDK for every set of events, configurations   *)
(* and purposes and every limit: nothing blocked is sent, the stored queue *)
(* is the queue, and an explicit refusal is honoured.                      *)
(***************************************************************************)
EXTENDS WebSdk, TLAPS

Configs == NetConfigs \cup CachedConfigs \cup {None}

Queues == {q \in Seq(Events) : Len(q) <= MaxQueue}

StoredCopy == [config : Configs, queue : Queues]

\* The stored copy s and the queue q agree, but for the events st of s that the last
\* restore left out as too old.  None of those is queued, which is what makes a save of
\* the queue agree again.
StoreSound(s, q, st) ==
  /\ s \in StoredCopy
  /\ q \in Seq(Events) /\ Len(q) <= MaxQueue
  /\ st \cap Elements(q) = {}
  /\ PersistQueue => Without(s.queue, st) = q

\* A request under way, or waiting to be repeated, was made under a configuration, and
\* one in use is not put aside before the page is closed.
SendsUnderConfig == (backoff \/ batch # << >>) => config # None

Inv ==
  /\ TypeOK
  /\ StoreSound(stored, queue, stale)
  /\ SendsUnderConfig
  /\ NothingBlockedIsSent

-----------------------------------------------------------------------------
(* Queues *)

\* What _recheckQueue leaves is allowed.
LEMMA RecheckedFacts ==
  ASSUME NEW cfg, NEW granted, NEW q \in Seq(Events), NEW r, r = Rechecked(cfg, granted, q)
  PROVE  /\ r \in Seq(Events) /\ Len(r) <= Len(q) /\ Elements(r) \subseteq Elements(q)
         /\ cfg # None => \A e \in Elements(r) : Allowed(cfg, granted, e)
<1>1. CASE cfg = None
  BY <1>1 DEF Rechecked
<1>2. CASE cfg # None
  <2> DEFINE K == {e \in Elements(q) : Allowed(cfg, granted, e)}
  <2>1. r = Filtered(q, K)
    BY <1>2 DEF Rechecked
  <2>2. K \subseteq Elements(q) /\ \A e \in K : Allowed(cfg, granted, e)
    OBVIOUS
  <2> HIDE DEF K
  <2>3. r \in Seq(Events) /\ Len(r) <= Len(q) /\ Elements(r) = Elements(q) \cap K
    BY <2>1, FilteredFacts
  <2> QED BY <2>2, <2>3
<1> QED BY <1>1, <1>2

\* What is left of a queue once some events are taken out of it.
LEMMA WithoutFacts ==
  ASSUME NEW q \in Seq(Events), NEW S
  PROVE  /\ Without(q, S) \in Seq(Events) /\ Len(Without(q, S)) <= Len(q)
         /\ Elements(Without(q, S)) = Elements(q) \ S
         /\ S \cap Elements(q) = {} => Without(q, S) = q
<1> DEFINE K == Elements(q) \ S
<1>1. Without(q, S) = Filtered(q, K)
  BY DEF Without
<1>2. K = Elements(q) \cap K /\ (S \cap Elements(q) = {} => Elements(q) \subseteq K)
  OBVIOUS
<1> HIDE DEF K
<1>3. /\ Filtered(q, K) \in Seq(Events) /\ Len(Filtered(q, K)) <= Len(q)
      /\ Elements(Filtered(q, K)) = Elements(q) \cap K
      /\ Elements(q) \subseteq K => Filtered(q, K) = q
  BY FilteredFacts
<1> QED BY <1>1, <1>2, <1>3 DEF K

\* track: the queue with one event more, within maxQueue.
LEMMA EnqueuedFacts ==
  ASSUME NEW q \in Seq(Events), NEW e \in Events, WebSdkAssumption
  PROVE  /\ Enqueued(q, e) \in Seq(Events) /\ Len(Enqueued(q, e)) <= MaxQueue
         /\ Elements(Enqueued(q, e)) \subseteq Elements(q) \cup {e}
<1> DEFINE a == Append(q, e)
<1>1. a \in Seq(Events) /\ Len(a) = Len(q) + 1 /\ Len(q) \in Nat
  OBVIOUS
<1>2. Elements(a) \subseteq Elements(q) \cup {e}
  BY AppendFacts
<1>3. Enqueued(q, e) = IF Len(a) > MaxQueue THEN SubSeq(a, Len(a) - MaxQueue + 1, Len(a)) ELSE a
  BY DEF Enqueued
<1>4. MaxQueue \in Nat \ {0}
  BY DEF WebSdkAssumption
<1> HIDE DEF a
<1>5. CASE Len(a) > MaxQueue
  <2> DEFINE m == Len(a) - MaxQueue + 1
             n == Len(a)
  <2>1. m \in Nat /\ n \in Nat /\ 1 <= m /\ m <= n + 1 /\ n <= Len(a) /\ n + 1 - m = MaxQueue
    BY <1>1, <1>4, <1>5
  <2>2. Enqueued(q, e) = SubSeq(a, m, n)
    BY <1>3, <1>5
  <2> HIDE DEF m, n
  <2>3. /\ SubSeq(a, m, n) \in Seq(Events) /\ Len(SubSeq(a, m, n)) = n + 1 - m
        /\ Elements(SubSeq(a, m, n)) \subseteq Elements(a)
    BY <1>1, <2>1, PartFacts
  <2>4. Len(SubSeq(a, m, n)) <= MaxQueue
    BY <1>4, <2>1, <2>3
  <2> QED BY <1>2, <2>2, <2>3, <2>4
<1>6. CASE ~ (Len(a) > MaxQueue)
  <2>1. Enqueued(q, e) = a
    BY <1>3, <1>6
  <2>2. Len(a) <= MaxQueue
    BY <1>1, <1>4, <1>6
  <2> QED BY <1>1, <1>2, <2>1, <2>2
<1> QED BY <1>5, <1>6

\* _persistQueue of a queue with none of the events left out as too old.
LEMMA SavedSound ==
  ASSUME WebSdkAssumption, stored \in StoredCopy,
         NEW q \in Seq(Events), Len(q) <= MaxQueue, NEW st, st \cap Elements(q) = {}
  PROVE  StoreSound(Persisted(q), q, st)
<1>1. Len(q) \in Nat /\ MaxQueue \in Nat /\ ~ (Len(q) > MaxQueue)
  BY DEF WebSdkAssumption
<1>2. Persisted(q) = IF PersistQueue THEN [stored EXCEPT !.queue = q] ELSE stored
  BY <1>1 DEF Persisted
<1>3. Persisted(q) \in StoredCopy /\ (PersistQueue => Persisted(q).queue = q)
  BY <1>2 DEF StoredCopy, Queues
<1>4. Without(q, st) = q
  BY WithoutFacts
<1> QED BY <1>3, <1>4 DEF StoreSound

\* The batch that flush sends of a queue it has just rechecked.
LEMMA TakeBatchSends ==
  ASSUME WebSdkAssumption, TypeOK, config # None, NothingBlockedIsSent,
         NEW q \in Seq(Events), NEW r, r = Rechecked(config, consent, q), TakeBatch(r)
  PROVE  /\ batch' \in Seq(Events) /\ Len(batch') <= BatchSize
         /\ Elements(batch') \subseteq Elements(r)
         /\ sentBlocked' = {} /\ sentRefused' \subseteq Events
<1>1. r \in Seq(Events) /\ \A e \in Elements(r) : Allowed(config, consent, e)
  BY RecheckedFacts
<1> DEFINE b == IF Len(r) > BatchSize THEN SubSeq(r, 1, BatchSize) ELSE r
<1>2. /\ batch' = b
      /\ sentBlocked' = sentBlocked \cup {e \in Elements(b) : ~Allowed(config, consent, e)}
      /\ sentRefused' = sentRefused \cup {e \in Elements(b) : Allowed(config, consent, e) /\ Refused(e)}
  BY DEF TakeBatch
<1>3. b \in Seq(Events) /\ Len(b) <= BatchSize /\ Elements(b) \subseteq Elements(r)
  <2>1. BatchSize \in Nat \ {0} /\ Len(r) \in Nat
    BY <1>1 DEF WebSdkAssumption
  <2>2. CASE Len(r) > BatchSize
    <3>1. /\ 1 \in Nat /\ BatchSize \in Nat /\ 1 <= 1 /\ 1 <= BatchSize + 1 /\ BatchSize <= Len(r)
          /\ BatchSize + 1 - 1 = BatchSize
      BY <2>1, <2>2
    <3>2. /\ SubSeq(r, 1, BatchSize) \in Seq(Events)
          /\ Len(SubSeq(r, 1, BatchSize)) = BatchSize + 1 - 1
          /\ Elements(SubSeq(r, 1, BatchSize)) \subseteq Elements(r)
      BY <1>1, <3>1, PartFacts
    <3> QED BY <2>2, <3>1, <3>2
  <2>3. CASE ~ (Len(r) > BatchSize)
    BY <1>1, <2>1, <2>3
  <2> QED BY <2>2, <2>3
<1> HIDE DEF b
<1>4. Elements(b) \subseteq Events
  BY <1>3 DEF Elements
<1>5. {e \in Elements(b) : ~Allowed(config, consent, e)} = {}
  BY <1>1, <1>3
<1>6. sentBlocked = {} /\ sentRefused \subseteq Events
  BY DEF NothingBlockedIsSent, TypeOK
<1> QED BY <1>2, <1>3, <1>4, <1>5, <1>6

-----------------------------------------------------------------------------
(* The actions *)

\* _applyConfig: the queue is rechecked under the configuration that arrives and the
\* consent it brings, and a save of it agrees.
LEMMA AppliedSound ==
  ASSUME WebSdkAssumption, Inv, NEW cfg \in Configs, cfg # None, ApplyConfig(cfg)
  PROVE  /\ config' = cfg /\ configError' = FALSE /\ consent' \subseteq Purposes
         /\ overridden' \subseteq Purposes
         /\ StoreSound(Persisted(queue'), queue', stale)
<1>1. /\ config' = cfg /\ configError' = FALSE /\ consent' = ConsentUnder(cfg)
      /\ queue' = Rechecked(cfg, ConsentUnder(cfg), queue)
  BY DEF ApplyConfig
<1>2. ConsentUnder(cfg) \subseteq Purposes
  BY DEF ConsentUnder, Configs, WebSdkAssumption, Inv, TypeOK
<1>3. /\ stored \in StoredCopy /\ queue \in Seq(Events) /\ Len(queue) <= MaxQueue
      /\ stale \cap Elements(queue) = {}
  BY DEF Inv, StoreSound
<1>4. /\ queue' \in Seq(Events) /\ Len(queue') <= Len(queue)
      /\ Elements(queue') \subseteq Elements(queue)
  BY <1>1, <1>3, RecheckedFacts
<1>5. Len(queue') <= MaxQueue /\ stale \cap Elements(queue') = {}
  BY <1>3, <1>4 DEF WebSdkAssumption
<1>6. overridden' \subseteq Purposes
  <2>1. /\ overridden \subseteq Purposes
        /\ \/ overridden' = {p \in cfg.defaults : chosen[p] = "no"} /\ cfg.defaults # None
           \/ overridden' = overridden
    BY DEF ApplyConfig, Inv, TypeOK
  <2>2. cfg.defaults = None \/ cfg.defaults \subseteq Purposes
    BY DEF Configs, WebSdkAssumption
  <2> QED BY <2>1, <2>2
<1> QED BY <1>1, <1>2, <1>3, <1>4, <1>5, <1>6, SavedSound

\* A step of _fetchConfig that leaves the request side alone.
LEMMA FetchedSound ==
  ASSUME WebSdkAssumption, Inv,
         UNCHANGED <<host, cached, sendVars, seen, reloads, stale, chosen, sentVars, gaveUp>>,
         fetching' \in {"start", "requested", "pointer", "done"}, configError' \in BOOLEAN,
         config' \in Configs, config # None => config' # None, consent' \subseteq Purposes,
         overridden' \subseteq Purposes, StoreSound(stored', queue', stale)
  PROVE  Inv'
<1>1. StoreSound(stored', queue', stale')
  OBVIOUS
<1>2. /\ stored' \in StoredCopy /\ queue' \in Seq(Events) /\ Len(queue') <= MaxQueue
  BY DEF StoreSound
<1>3. stored'.config \in Configs /\ stored'.queue \in Seq(Events)
  BY <1>2 DEF StoredCopy, Queues
<1>4. TypeOK'
  BY <1>2, <1>3 DEF Inv, TypeOK, Configs, sendVars, sentVars
<1>5. SendsUnderConfig' /\ NothingBlockedIsSent'
  BY DEF Inv, SendsUnderConfig, NothingBlockedIsSent, sendVars, sentVars
<1> QED BY <1>1, <1>4, <1>5 DEF Inv

\* Every step of _fetchConfig, with and without a configuration applied.
LEMMA FetchPreserves ==
  ASSUME WebSdkAssumption, Inv, Fetch
  PROVE  Inv'
<1>1. config \in Configs /\ cached \in Configs /\ StoreSound(stored, queue, stale)
  BY DEF Inv, TypeOK, Configs
<1>2. CASE FetchReadsCache
  <2>1. CASE cached # None /\ ApplyConfig(cached) /\ stored' = Persisted(queue')
    <3>1. /\ config' = cached /\ configError' = FALSE /\ consent' \subseteq Purposes
          /\ overridden' \subseteq Purposes
          /\ StoreSound(stored', queue', stale)
      BY <1>1, <2>1, AppliedSound
    <3> QED BY <1>1, <1>2, <2>1, <3>1, FetchedSound DEF FetchReadsCache
  <2>2. CASE UNCHANGED <<config, configError, consent, queue, overridden, stored>>
    <3>1. configError' \in BOOLEAN /\ consent' \subseteq Purposes /\ overridden' \subseteq Purposes
      BY <2>2 DEF Inv, TypeOK
    <3> QED BY <1>1, <1>2, <2>2, <3>1, FetchedSound DEF FetchReadsCache
  <2> QED BY <1>2, <2>1, <2>2 DEF FetchReadsCache
<1>3. CASE FetchNotModified
  <2>1. cached # None /\ ApplyConfig(cached) /\ stored' = Persisted(queue')
    BY <1>3 DEF FetchNotModified
  <2>2. /\ config' = cached /\ configError' = FALSE /\ consent' \subseteq Purposes
        /\ overridden' \subseteq Purposes
        /\ StoreSound(stored', queue', stale)
    BY <1>1, <2>1, AppliedSound
  <2> QED BY <1>1, <1>3, <2>1, <2>2, FetchedSound DEF FetchNotModified
<1>4. ASSUME NEW cfg \in NetConfigs, FetchOk(cfg) PROVE Inv'
  <2>1. cfg \in Configs /\ cfg # None
    BY DEF Configs, WebSdkAssumption
  <2>2. ApplyConfig(cfg) /\ stored' = [Persisted(queue') EXCEPT !.config = cfg]
    BY <1>4 DEF FetchOk
  <2>3. /\ config' = cfg /\ configError' = FALSE /\ consent' \subseteq Purposes
        /\ overridden' \subseteq Purposes
        /\ StoreSound(Persisted(queue'), queue', stale)
    BY <2>1, <2>2, AppliedSound
  <2>4. StoreSound(stored', queue', stale)
    BY <2>1, <2>2, <2>3 DEF StoreSound, StoredCopy, Queues
  <2> QED BY <1>4, <2>1, <2>3, <2>4, FetchedSound DEF FetchOk
<1>5. CASE FetchFails
  <2>1. CASE cached # None /\ ApplyConfig(cached) /\ stored' = Persisted(queue')
    <3>1. /\ config' = cached /\ configError' = FALSE /\ consent' \subseteq Purposes
          /\ overridden' \subseteq Purposes
          /\ StoreSound(stored', queue', stale)
      BY <1>1, <2>1, AppliedSound
    <3> QED BY <1>1, <1>5, <2>1, <3>1, FetchedSound DEF FetchFails
  <2>2. CASE configError' = TRUE /\ UNCHANGED <<config, consent, queue, overridden, stored>>
    <3>1. consent' \subseteq Purposes /\ overridden' \subseteq Purposes
      BY <2>2 DEF Inv, TypeOK
    <3> QED BY <1>1, <1>5, <2>2, <3>1, FetchedSound DEF FetchFails
  <2> QED BY <1>5, <2>1, <2>2 DEF FetchFails
<1>6. CASE FetchPointer
  <2>1. /\ fetching' = "pointer" /\ configError' \in BOOLEAN /\ consent' \subseteq Purposes
        /\ overridden' \subseteq Purposes
        /\ UNCHANGED <<host, config, cached, stored, queue, sendVars, seen, reloads, obsVars>>
    BY <1>6 DEF FetchPointer, obsVars, Inv, TypeOK
  <2>2. UNCHANGED <<stale, chosen, sentVars, gaveUp>>
    BY <2>1 DEF obsVars
  <2> QED BY <1>1, <2>1, <2>2, FetchedSound
<1> QED BY <1>2, <1>3, <1>4, <1>5, <1>6 DEF Fetch

\* A step of the page or of the network under one configuration: what it must keep.
LEMMA StepSound ==
  ASSUME Inv, UNCHANGED <<host, fetchVars, reloads>>,
         StoreSound(stored', queue', stale'), consent' \subseteq Purposes,
         overridden' \subseteq Purposes,
         batch' \in Seq(Events), Len(batch') <= BatchSize,
         attempt' \in 0 .. MaxRetries, backoff' \in BOOLEAN,
         (backoff' \/ batch' # << >>) => config # None,
         seen' \subseteq Events, chosen' \in [Purposes -> {"yes", "no", None}],
         stale' \subseteq Events, sentBlocked' = {}, sentRefused' \subseteq Events,
         gaveUp' \subseteq Events
  PROVE  Inv'
<1>1. /\ stored' \in StoredCopy /\ queue' \in Seq(Events) /\ Len(queue') <= MaxQueue
  BY DEF StoreSound
<1>2. stored'.config \in Configs /\ stored'.queue \in Seq(Events)
  BY <1>1 DEF StoredCopy, Queues
<1>3. TypeOK'
  BY <1>1, <1>2 DEF Inv, TypeOK, Configs, fetchVars
<1>4. SendsUnderConfig' /\ NothingBlockedIsSent'
  BY DEF SendsUnderConfig, NothingBlockedIsSent, fetchVars
<1> QED BY <1>3, <1>4 DEF Inv

\* A recheck and a save of q, and the batch taken of what is left.
LEMMA FlushedSound ==
  ASSUME WebSdkAssumption, Inv, config # None, NEW q \in Seq(Events), Len(q) <= MaxQueue,
         NEW st, st \cap Elements(q) = {},
         queue' = Rechecked(config, consent, q), stored' = Persisted(queue'), TakeBatch(queue')
  PROVE  /\ StoreSound(stored', queue', st)
         /\ batch' \in Seq(Events) /\ Len(batch') <= BatchSize
         /\ sentBlocked' = {} /\ sentRefused' \subseteq Events
<1>1. /\ queue' \in Seq(Events) /\ Len(queue') <= Len(q)
      /\ Elements(queue') \subseteq Elements(q)
  BY RecheckedFacts
<1>2. Len(queue') <= MaxQueue /\ st \cap Elements(queue') = {}
  BY <1>1 DEF WebSdkAssumption
<1>3. stored \in StoredCopy
  BY DEF Inv, StoreSound
<1>4. StoreSound(stored', queue', st)
  BY <1>1, <1>2, <1>3, SavedSound
<1>5. TypeOK /\ NothingBlockedIsSent
  BY DEF Inv
<1> QED BY <1>4, <1>5, TakeBatchSends

\* track: refused, queued, or queued and flushed at once.
LEMMA TrackPreserves ==
  ASSUME WebSdkAssumption, Inv, NEW e \in Events, Track(e)
  PROVE  Inv'
<1> DEFINE q == Enqueued(queue, e)
<1>1. /\ TypeOK /\ stored \in StoredCopy /\ queue \in Seq(Events) /\ Len(queue) <= MaxQueue
      /\ stale \cap Elements(queue) = {} /\ StoreSound(stored, queue, stale)
      /\ stale \subseteq Events /\ sentBlocked = {}
  BY DEF Inv, StoreSound, TypeOK, NothingBlockedIsSent
<1>2. /\ q \in Seq(Events) /\ Len(q) <= MaxQueue /\ Elements(q) \subseteq Elements(queue) \cup {e}
  BY <1>1, EnqueuedFacts
<1>3. (stale \ {e}) \cap Elements(q) = {}
  BY <1>1, <1>2
<1> HIDE DEF q
<1>4. /\ UNCHANGED <<host, fetchVars, reloads>> /\ consent' \subseteq Purposes
      /\ overridden' \subseteq Purposes
      /\ attempt' \in 0 .. MaxRetries /\ backoff' \in BOOLEAN /\ backoff' = backoff
      /\ seen' \subseteq Events /\ chosen' \in [Purposes -> {"yes", "no", None}]
      /\ gaveUp' \subseteq Events
  BY <1>1 DEF Track, TypeOK
<1>5. CASE UNCHANGED <<queue, stored, batch, stale, sentVars>>
  <2>1. /\ batch' \in Seq(Events) /\ Len(batch') <= BatchSize
        /\ (backoff' \/ batch' # << >>) => config # None
        /\ sentBlocked' = {} /\ sentRefused' \subseteq Events
    BY <1>1, <1>4, <1>5 DEF TypeOK, Inv, SendsUnderConfig, sentVars
  <2>2. StoreSound(stored', queue', stale') /\ stale' \subseteq Events
    BY <1>1, <1>5
  <2> QED BY <1>4, <2>1, <2>2, StepSound
<1>6. CASE /\ CanFlush /\ queue' = Rechecked(config, consent, q) /\ stored' = Persisted(queue')
           /\ TakeBatch(queue') /\ stale' = stale \ {e}
  <2>1. config # None
    BY <1>6 DEF CanFlush
  <2>2. /\ StoreSound(stored', queue', stale')
        /\ batch' \in Seq(Events) /\ Len(batch') <= BatchSize
        /\ sentBlocked' = {} /\ sentRefused' \subseteq Events
    BY <1>2, <1>3, <1>6, <2>1, FlushedSound
  <2>3. stale' \subseteq Events
    BY <1>1, <1>6
  <2> QED BY <1>4, <2>1, <2>2, <2>3, StepSound
<1>7. CASE /\ queue' = q /\ stored' = Persisted(q) /\ stale' = stale \ {e}
           /\ UNCHANGED <<batch, sentVars>>
  <2>1. /\ batch' \in Seq(Events) /\ Len(batch') <= BatchSize
        /\ (backoff' \/ batch' # << >>) => config # None
        /\ sentBlocked' = {} /\ sentRefused' \subseteq Events
    BY <1>1, <1>4, <1>7 DEF TypeOK, Inv, SendsUnderConfig, sentVars
  <2>2. StoreSound(stored', queue', stale')
    BY <1>1, <1>2, <1>3, <1>7, SavedSound
  <2>3. stale' \subseteq Events
    BY <1>1, <1>7
  <2> QED BY <1>4, <2>1, <2>2, <2>3, StepSound
<1> QED BY <1>5, <1>6, <1>7 DEF Track, q

\* setConsent rechecks the queue under the new consent.
LEMMA SetConsentPreserves ==
  ASSUME WebSdkAssumption, Inv, NEW p \in Purposes, NEW answer \in {"yes", "no"},
         SetConsent(p, answer)
  PROVE  Inv'
<1>1. /\ TypeOK /\ stored \in StoredCopy /\ queue \in Seq(Events) /\ Len(queue) <= MaxQueue
      /\ stale \cap Elements(queue) = {} /\ sentBlocked = {} /\ SendsUnderConfig
  BY DEF Inv, StoreSound, TypeOK, NothingBlockedIsSent
<1>2. /\ consent' \subseteq Purposes /\ chosen' \in [Purposes -> {"yes", "no", None}]
  BY <1>1 DEF SetConsent, TypeOK
<1>3. /\ queue' = Rechecked(config, consent', queue) /\ stored' = Persisted(queue')
  BY DEF SetConsent
<1>4. /\ queue' \in Seq(Events) /\ Len(queue') <= Len(queue)
      /\ Elements(queue') \subseteq Elements(queue)
  BY <1>1, <1>3, RecheckedFacts
<1>5. Len(queue') <= MaxQueue /\ stale \cap Elements(queue') = {}
  BY <1>1, <1>4 DEF WebSdkAssumption
<1>6. StoreSound(stored', queue', stale)
  BY <1>1, <1>3, <1>4, <1>5, SavedSound
<1>7. /\ UNCHANGED <<host, fetchVars, sendVars, seen, reloads, stale, sentVars, gaveUp>>
      /\ overridden' \subseteq Purposes
  BY <1>1 DEF SetConsent, TypeOK
<1>8. /\ batch' \in Seq(Events) /\ Len(batch') <= BatchSize
      /\ attempt' \in 0 .. MaxRetries /\ backoff' \in BOOLEAN
      /\ (backoff' \/ batch' # << >>) => config # None
      /\ seen' \subseteq Events /\ stale' = stale /\ stale' \subseteq Events /\ gaveUp' \subseteq Events
      /\ sentBlocked' = {} /\ sentRefused' \subseteq Events
  BY <1>1, <1>7 DEF TypeOK, SendsUnderConfig, sendVars, sentVars
<1> QED BY <1>2, <1>6, <1>7, <1>8, StepSound

\* flush and the retry timer.
LEMMA FlushPreserves ==
  ASSUME WebSdkAssumption, Inv, Flush \/ RetryTimer
  PROVE  Inv'
<1>1. /\ TypeOK /\ queue \in Seq(Events) /\ Len(queue) <= MaxQueue
      /\ stale \cap Elements(queue) = {}
  BY DEF Inv, StoreSound
<1>2. /\ config # None /\ queue' = Rechecked(config, consent, queue)
      /\ stored' = Persisted(queue') /\ TakeBatch(queue')
  BY DEF Flush, RetryTimer, CanFlush, Inv, SendsUnderConfig
<1>3. /\ StoreSound(stored', queue', stale)
      /\ batch' \in Seq(Events) /\ Len(batch') <= BatchSize
      /\ sentBlocked' = {} /\ sentRefused' \subseteq Events
  BY <1>1, <1>2, FlushedSound
<1>4. backoff' = backoff \/ backoff' = FALSE
  BY DEF Flush, RetryTimer
<1>5. UNCHANGED <<host, fetchVars, consent, attempt, seen, reloads, stale, chosen, overridden, gaveUp>>
  BY DEF Flush, RetryTimer
<1>6. /\ consent' \subseteq Purposes /\ attempt' \in 0 .. MaxRetries /\ backoff' \in BOOLEAN
      /\ overridden' \subseteq Purposes
      /\ seen' \subseteq Events /\ stale' = stale /\ stale' \subseteq Events
      /\ chosen' \in [Purposes -> {"yes", "no", None}] /\ gaveUp' \subseteq Events
  BY <1>1, <1>4, <1>5 DEF TypeOK
<1> QED BY <1>2, <1>3, <1>5, <1>6, StepSound

\* The batch is taken out of the queue, and the queue is saved.
LEMMA RemovedSound ==
  ASSUME WebSdkAssumption, Inv, queue' = Without(queue, Elements(batch)),
         stored' = Persisted(queue')
  PROVE  StoreSound(stored', queue', stale)
<1>1. /\ stored \in StoredCopy /\ queue \in Seq(Events) /\ Len(queue) <= MaxQueue
      /\ stale \cap Elements(queue) = {}
  BY DEF Inv, StoreSound
<1>2. /\ queue' \in Seq(Events) /\ Len(queue') <= Len(queue)
      /\ Elements(queue') = Elements(queue) \ Elements(batch)
  BY <1>1, WithoutFacts
<1>3. Len(queue') <= MaxQueue /\ stale \cap Elements(queue') = {}
  BY <1>1, <1>2 DEF WebSdkAssumption
<1> QED BY <1>1, <1>2, <1>3, SavedSound

\* The end of a request, whatever the answer.
LEMMA AnsweredPreserves ==
  ASSUME WebSdkAssumption, Inv, batch # << >>, batch' = << >>,
         UNCHANGED <<host, fetchVars, consent, seen, reloads, stale, chosen, overridden, sentVars>>,
         attempt' \in 0 .. MaxRetries, backoff' \in BOOLEAN, gaveUp' \subseteq Events,
         \/ queue' = Without(queue, Elements(batch)) /\ stored' = Persisted(queue')
         \/ UNCHANGED <<queue, stored>>
  PROVE  Inv'
<1>1. TypeOK /\ StoreSound(stored, queue, stale) /\ sentBlocked = {} /\ config # None
  BY DEF Inv, NothingBlockedIsSent, SendsUnderConfig
<1>2. StoreSound(stored', queue', stale)
  BY <1>1, RemovedSound
<1>3. /\ consent' \subseteq Purposes /\ seen' \subseteq Events /\ overridden' \subseteq Purposes
      /\ stale' = stale /\ stale' \subseteq Events
      /\ chosen' \in [Purposes -> {"yes", "no", None}]
      /\ sentBlocked' = {} /\ sentRefused' \subseteq Events
  BY <1>1 DEF TypeOK, sentVars
<1>4. << >> \in Seq(Events) /\ Len(<< >>) <= BatchSize
  BY DEF WebSdkAssumption
<1> QED BY <1>1, <1>2, <1>3, <1>4, StepSound

\* Every answer to a batch either takes it out of the queue or leaves the queue alone.
LEMMA AnswersPreserve ==
  ASSUME WebSdkAssumption, Inv, Settled \/ Unsettled
  PROVE  Inv'
<1>1. TypeOK /\ attempt \in 0 .. MaxRetries /\ 0 \in 0 .. MaxRetries /\ gaveUp \subseteq Events
  BY DEF Inv, TypeOK, WebSdkAssumption
<1>2. ASSUME Retry PROVE attempt' \in 0 .. MaxRetries /\ backoff' = TRUE /\ batch' = << >> /\ UNCHANGED <<queue, stored>>
  <2>1. attempt < MaxRetries /\ attempt' = attempt + 1
    BY <1>2 DEF Retry
  <2>2. attempt' \in 0 .. MaxRetries
    BY <1>1, <2>1 DEF WebSdkAssumption
  <2> QED BY <1>2, <2>2 DEF Retry
<1>3. ASSUME NEW results \in [Elements(batch) -> Outcome], Answer2xx(results) PROVE Inv'
  <2>1. Elements(batch) \subseteq Events /\ DOMAIN results = Elements(batch)
    BY <1>1 DEF TypeOK, Elements
  <2>2. gaveUp' \subseteq Events /\ attempt' = 0 /\ backoff' = FALSE
    BY <1>1, <1>3, <2>1 DEF Answer2xx, Delivered
  <2>3. /\ batch # << >> /\ batch' = << >>
        /\ UNCHANGED <<host, fetchVars, consent, seen, reloads, stale, chosen, overridden, sentVars>>
        /\ queue' = Without(queue, Elements(batch)) /\ stored' = Persisted(queue')
    BY <1>3 DEF Answer2xx, Delivered
  <2> QED BY <1>1, <2>2, <2>3, AnsweredPreserves
<1>4. CASE AnswerRejected
  BY <1>1, <1>4, AnsweredPreserves DEF AnswerRejected, DropBatch, obsVars
<1>5. CASE AnswerTransient
  BY <1>1, <1>2, <1>5, AnsweredPreserves DEF AnswerTransient, DropBatch, obsVars
<1>6. CASE NetworkError
  BY <1>1, <1>2, <1>6, AnsweredPreserves DEF NetworkError, obsVars
<1> QED BY <1>3, <1>4, <1>5, <1>6 DEF Settled, Unsettled

\* The page is closed: what the new client restores is what storage holds but for what
\* is too old.
LEMMA ReloadPreserves ==
  ASSUME WebSdkAssumption, Inv, NEW old \in SUBSET Elements(stored.queue),
         NEW h \in HostConsents, Reload(old, h)
  PROVE  Inv'
<1>1. /\ TypeOK /\ stored \in StoredCopy /\ stored.config \in Configs /\ sentBlocked = {}
      /\ stored.queue \in Seq(Events) /\ Len(stored.queue) <= MaxQueue
  BY DEF Inv, StoreSound, StoredCopy, Queues, NothingBlockedIsSent
<1>2. /\ config' = None /\ configError' = FALSE /\ fetching' = "start" /\ cached' = stored.config
      /\ consent' = InitialConsent(h) /\ stale' = old /\ host' = h
      /\ queue' = IF PersistQueue THEN Without(stored.queue, old) ELSE << >>
      /\ batch' = << >> /\ attempt' = 0 /\ backoff' = FALSE /\ seen' = {}
      /\ chosen' = InitialChoice(h) /\ overridden' = {} /\ reloads' = reloads + 1
      /\ stored' = stored /\ sentBlocked' = sentBlocked /\ sentRefused' = sentRefused
      /\ gaveUp' = gaveUp
  BY DEF Reload, sentVars
<1>3. queue' \in Seq(Events) /\ Len(queue') <= MaxQueue /\ old \cap Elements(queue') = {}
  <2>1. CASE PersistQueue
    <3>1. /\ queue' \in Seq(Events) /\ Len(queue') <= Len(stored.queue)
          /\ Elements(queue') = Elements(stored.queue) \ old
      BY <1>1, <1>2, <2>1, WithoutFacts
    <3>2. Len(queue') <= MaxQueue
      BY <1>1, <3>1 DEF WebSdkAssumption
    <3> QED BY <3>1, <3>2
  <2>2. CASE ~PersistQueue
    <3>1. << >> \in Seq(Events) /\ Len(<< >>) <= MaxQueue /\ Elements(<< >>) = {}
      BY DEF WebSdkAssumption, Elements
    <3> QED BY <1>2, <2>2, <3>1
  <2> QED BY <2>1, <2>2
<1>4. StoreSound(stored', queue', stale')
  BY <1>1, <1>2, <1>3 DEF StoreSound
<1>5. /\ InitialConsent(h) \subseteq Purposes
      /\ InitialChoice(h) \in [Purposes -> {"yes", "no", None}]
  BY DEF InitialConsent, InitialChoice, WebSdkAssumption
<1>6. old \subseteq Events /\ << >> \in Seq(Events) /\ Len(<< >>) <= BatchSize
      /\ 0 \in 0 .. MaxRetries
  BY <1>1 DEF WebSdkAssumption, Elements
<1>7. TypeOK'
  <2>1. /\ reloads \in Nat /\ sentRefused \subseteq Events /\ gaveUp \subseteq Events
    BY <1>1 DEF TypeOK
  <2>2. reloads' \in Nat
    BY <1>2, <2>1
  <2>3. config' \in Configs /\ cached' \in Configs /\ stored'.config \in Configs
        /\ stored'.queue \in Seq(Events)
    BY <1>1, <1>2 DEF Configs
  <2>4. consent' \subseteq Purposes /\ host' \in HostConsents /\ overridden' \subseteq Purposes
        /\ chosen' \in [Purposes -> {"yes", "no", None}]
    BY <1>2, <1>5
  <2>5. batch' \in Seq(Events) /\ Len(batch') <= BatchSize /\ attempt' \in 0 .. MaxRetries
        /\ backoff' \in BOOLEAN /\ configError' \in BOOLEAN /\ seen' \subseteq Events
        /\ fetching' \in {"start", "requested", "pointer", "done"}
    BY <1>2, <1>6
  <2>6. stale' \subseteq Events /\ sentBlocked' \subseteq Events /\ sentRefused' \subseteq Events
        /\ gaveUp' \subseteq Events
    BY <1>1, <1>2, <1>6, <2>1
  <2> QED BY <1>3, <2>2, <2>3, <2>4, <2>5, <2>6 DEF TypeOK, Configs
<1>8. SendsUnderConfig' /\ NothingBlockedIsSent'
  BY <1>1, <1>2 DEF SendsUnderConfig, NothingBlockedIsSent
<1> QED BY <1>4, <1>7, <1>8 DEF Inv

\* A page whose storage holds at most a configuration of an earlier visit.
LEMMA InitEstablishes ==
  ASSUME WebSdkAssumption, Init
  PROVE  Inv
<1>1. PICK c \in CachedConfigs \cup {None} :
        cached = c /\ stored = [config |-> c, queue |-> << >>]
  BY DEF Init
<1>2. /\ << >> \in Seq(Events) /\ Len(<< >>) = 0 /\ Elements(<< >>) = {}
      /\ 0 <= MaxQueue /\ 0 <= BatchSize /\ 0 \in 0 .. MaxRetries
  BY DEF WebSdkAssumption, Elements
<1>3. stored \in StoredCopy /\ stored.queue = << >> /\ stored.config = c
  BY <1>1, <1>2 DEF StoredCopy, Queues, Configs
<1>4. StoreSound(stored, queue, stale)
  <2>1. \A q \in Seq(Events) : Without(q, {}) = q
    BY WithoutFacts
  <2> QED BY <1>2, <1>3, <2>1 DEF Init, StoreSound
<1>5. /\ consent \subseteq Purposes /\ host \in HostConsents
      /\ chosen \in [Purposes -> {"yes", "no", None}]
  BY DEF Init, InitialConsent, InitialChoice, WebSdkAssumption
<1>6. TypeOK
  BY <1>1, <1>2, <1>3, <1>5 DEF Init, TypeOK
<1>7. SendsUnderConfig /\ NothingBlockedIsSent
  BY DEF Init, SendsUnderConfig, NothingBlockedIsSent
<1> QED BY <1>4, <1>6, <1>7 DEF Inv

\* Nothing happens.
LEMMA StutterPreserves ==
  ASSUME Inv, UNCHANGED vars
  PROVE  Inv'
<1>1. /\ UNCHANGED <<host, overridden, config, configError, fetching, cached, stored, consent, queue>>
      /\ UNCHANGED <<batch, attempt, backoff, seen, reloads>>
      /\ UNCHANGED <<stale, chosen, sentBlocked, sentRefused, gaveUp>>
  BY DEF vars, fetchVars, sendVars, obsVars, sentVars
<1>2. TypeOK'
  BY <1>1 DEF Inv, TypeOK
<1>3. StoreSound(stored', queue', stale')
  BY <1>1 DEF Inv
<1>4. SendsUnderConfig' /\ NothingBlockedIsSent'
  BY <1>1 DEF Inv, SendsUnderConfig, NothingBlockedIsSent
<1> QED BY <1>2, <1>3, <1>4 DEF Inv

\* One step of the client.
LEMMA NextPreserves ==
  ASSUME WebSdkAssumption, Inv, [Next]_vars
  PROVE  Inv'
<1>1. CASE Next
  BY <1>1, FetchPreserves, TrackPreserves, SetConsentPreserves, FlushPreserves,
     AnswersPreserve, ReloadPreserves DEF Next
<1> QED BY <1>1, StutterPreserves

\* The invariant the three theorems rest on.
LEMMA InvHolds == Spec => []Inv
<1>1. Init => Inv
  BY WebSdkAssumption, InitEstablishes
<1>2. Inv /\ [Next]_vars => Inv'
  BY WebSdkAssumption, NextPreserves
<1> QED BY <1>1, <1>2, PTL DEF Spec

\* On no path to the network does an event leave the page that the allowlist or the
\* consent in use blocks: flush, the retry timer and a full batch in track all recheck
\* the queue they take from, whenever the events in it were queued.
THEOREM NothingBlockedIsSentHolds == Spec => []NothingBlockedIsSent
<1>1. Inv => NothingBlockedIsSent
  BY DEF Inv
<1> QED BY <1>1, InvHolds, PTL

\* The queue stays within maxQueue, a batch within batchSize and the retries within
\* maxRetries, and every step that changes the queue leaves the same queue in storage.
THEOREM QueueSoundHolds == Spec => []QueueSound
<1>1. Inv => QueueSound
  BY DEF Inv, StoreSound, QueueSound, StorageMirrorsQueue
<1> QED BY <1>1, InvHolds, PTL

-----------------------------------------------------------------------------
(* Explicit refusals *)

\* What the page has refused is not granted, but for what consent_defaults have granted
\* since to a page that does not pass the consent option.
RefusedNotGranted == \A p \in Purposes : chosen[p] = "no" /\ p \notin overridden => p \notin consent

RefusalInv == RefusedNotGranted /\ ExplicitRefusalHonoured

\* A batch of events that the consent in use allows has none that needs a refused purpose.
LEMMA TakeBatchHonours ==
  ASSUME Inv, RefusalInv, NEW q, TakeBatch(q)
  PROVE  sentRefused' = {}
<1> DEFINE b == IF Len(q) > BatchSize THEN SubSeq(q, 1, BatchSize) ELSE q
<1>1. sentRefused' = sentRefused \cup {e \in Elements(b) : Allowed(config, consent, e) /\ Refused(e)}
  BY DEF TakeBatch
<1>2. ASSUME NEW e, Allowed(config, consent, e), Refused(e) PROVE FALSE
  <2>1. PICK p \in config.needs[Name[e]] \ overridden : chosen[p] = "no"
    BY <1>2 DEF Refused
  <2>2. p \in consent /\ p \in Purposes
    BY <1>2 DEF Allowed, Inv, TypeOK
  <2> QED BY <2>1, <2>2 DEF RefusalInv, RefusedNotGranted
<1> QED BY <1>1, <1>2 DEF RefusalInv, ExplicitRefusalHonoured

\* A configuration that arrives leaves the consent alone, or replaces it by its
\* consent_defaults and overrides the refusals of what those grant, and of nothing else.
LEMMA FetchKeepsRefusals ==
  ASSUME RefusalInv, Fetch
  PROVE  RefusalInv'
<1>1. ASSUME NEW cfg, ApplyConfig(cfg), chosen' = chosen PROVE RefusedNotGranted'
  <2>1. CASE cfg.defaults # None /\ host = None
    <3>1. consent' = cfg.defaults /\ overridden' = {p \in cfg.defaults : chosen[p] = "no"}
      BY <1>1, <2>1 DEF ApplyConfig, ConsentUnder
    <3> QED BY <1>1, <3>1 DEF RefusedNotGranted
  <2>2. CASE ~ (cfg.defaults # None /\ host = None)
    <3>1. consent' = consent /\ overridden' = overridden
      BY <1>1, <2>2 DEF ApplyConfig, ConsentUnder
    <3> QED BY <1>1, <3>1 DEF RefusalInv, RefusedNotGranted
  <2> QED BY <2>1, <2>2
<1>2. chosen' = chosen /\ sentRefused' = sentRefused
  BY DEF Fetch, FetchReadsCache, FetchPointer, FetchNotModified, FetchOk, FetchFails, obsVars, sentVars
<1>3. \/ \E cfg : ApplyConfig(cfg)
      \/ consent' = consent /\ overridden' = overridden
  BY DEF Fetch, FetchReadsCache, FetchPointer, FetchNotModified, FetchOk, FetchFails, obsVars
<1>4. RefusedNotGranted'
  BY <1>1, <1>2, <1>3 DEF RefusalInv, RefusedNotGranted
<1> QED BY <1>2, <1>4 DEF RefusalInv, ExplicitRefusalHonoured

\* A refusal stays a refusal: setConsent, a reload and consent_defaults change the consent
\* in use, each as the invariant says.
LEMMA RefusalPreserved ==
  ASSUME Inv, RefusalInv, [Next]_vars
  PROVE  RefusalInv'
<1>1. CASE consent' = consent /\ chosen' = chosen /\ overridden' = overridden /\ sentRefused' = {}
  BY <1>1 DEF RefusalInv, RefusedNotGranted, ExplicitRefusalHonoured
<1>2. sentRefused = {}
  BY DEF RefusalInv, ExplicitRefusalHonoured
<1>3. CASE Fetch
  BY <1>3, FetchKeepsRefusals
<1>4. ASSUME NEW e \in Events, Track(e) PROVE RefusalInv'
  BY <1>1, <1>2, <1>4, TakeBatchHonours DEF Track, sentVars
<1>5. ASSUME NEW p \in Purposes, NEW answer \in {"yes", "no"}, SetConsent(p, answer)
      PROVE  RefusalInv'
  <2>1. chosen \in [Purposes -> {"yes", "no", None}]
    BY DEF Inv, TypeOK
  <2>2. /\ chosen' = [chosen EXCEPT ![p] = answer] /\ sentRefused' = sentRefused
        /\ consent' = IF answer = "yes" THEN consent \cup {p} ELSE consent \ {p}
        /\ overridden' = overridden \ {p}
    BY <1>5 DEF SetConsent, sentVars
  <2>3. RefusedNotGranted'
    BY <2>1, <2>2 DEF RefusalInv, RefusedNotGranted
  <2> QED BY <1>2, <2>2, <2>3 DEF RefusalInv, ExplicitRefusalHonoured
<1>6. CASE Flush \/ RetryTimer
  BY <1>1, <1>6, TakeBatchHonours DEF Flush, RetryTimer
<1>7. CASE Settled \/ Unsettled
  BY <1>1, <1>2, <1>7
  DEF Settled, Unsettled, Answer2xx, AnswerRejected, AnswerTransient, NetworkError, obsVars, sentVars
<1>8. ASSUME NEW old \in SUBSET Elements(stored.queue), NEW h \in HostConsents, Reload(old, h)
      PROVE  RefusalInv'
  <2>1. /\ consent' = IF h = None THEN {} ELSE h
        /\ sentRefused' = sentRefused
        /\ chosen' = [p \in Purposes |-> IF h = None THEN None ELSE IF p \in h THEN "yes" ELSE "no"]
    BY <1>8 DEF Reload, InitialConsent, InitialChoice, sentVars
  <2>2. RefusedNotGranted'
    BY <2>1 DEF RefusedNotGranted
  <2> QED BY <1>2, <2>1, <2>2 DEF RefusalInv, ExplicitRefusalHonoured
<1>9. CASE UNCHANGED vars
  BY <1>1, <1>2, <1>9 DEF vars, obsVars, sentVars
<1> QED BY <1>3, <1>4, <1>5, <1>6, <1>7, <1>8, <1>9 DEF Next

\* Whether or not the page passes the consent option, no configuration that arrives later,
\* cached or fresh, and no reload lets out an event that needs a purpose the page refused,
\* unless consent_defaults have granted that purpose since: the one case in which the code
\* lets a configuration overrule setConsent.
THEOREM ExplicitRefusalHonouredHolds == Spec => []ExplicitRefusalHonoured
<1>1. Init => RefusalInv
  BY DEF Init, InitialConsent, InitialChoice, RefusalInv, RefusedNotGranted, ExplicitRefusalHonoured
<1>2. Inv /\ RefusalInv /\ [Next]_vars => RefusalInv'
  BY RefusalPreserved
<1>3. RefusalInv => ExplicitRefusalHonoured
  BY DEF RefusalInv
<1> QED BY <1>1, <1>2, <1>3, InvHolds, PTL DEF Spec
=============================================================================
