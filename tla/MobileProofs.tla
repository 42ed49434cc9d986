---------------------------- MODULE MobileProofs ----------------------------
(***************************************************************************)
(* What holds of the mobile clients whatever the threads, documents and    *)
(* limits, and with either setting of the switches by which iOS and        *)
(* Android differ.                                                         *)
(***************************************************************************)
EXTENDS MobileSdk, TLAPS

ThreadState ==
  {IdleThread} \cup [step : {"purge"}, refused : SUBSET Purposes]
               \cup [step : {"store"}, event : Event]

Queues == {q \in Seq(Event) : Len(q) <= MaxQueue}

FlushState == [batch : {b \in Seq(Event) : Len(b) <= Batch}, attempt : 0 .. MaxRetries]

Excuses == [gone : SUBSET Ids, dropped : SUBSET Ids]

Typed ==
  /\ thread \in [Threads -> ThreadState]
  /\ queue \in Queues
  /\ flush \in [Flushers -> FlushState]
  /\ tracked \in 0 .. MaxEvents
  /\ excused \in Excuses
  /\ unanswered \subseteq Ids
  /\ consent \in (SUBSET Purposes) \cup {None}

\* An answer that is being stored was accepted; a cache that is no document the server
\* gave out does not pass verification; and what is in use passed it.
ConfigInv ==
  /\ fetch \in [step : {"idle", "waiting", "store"}, doc : Documents \cup {None}]
  /\ config \in Documents \cup {None}
  /\ fetch.step = "store" => Acceptable(fetch.doc)
  /\ Acceptable(cache) => cache \in Documents
  /\ config # None => Acceptable(config)

-----------------------------------------------------------------------------
(* Configuration *)

\* A client that has just started has no configuration.
LEMMA ConfigInit == Init => ConfigInv
  BY DEF Init, NoFetch, ConfigInv, Acceptable

\* A cache file that was being written when the process ended is not accepted.
LEMMA DamagedRefused ==
  ASSUME MobileAssumption, NEW d \in Documents
  PROVE  ~ Acceptable(Damaged(d))
<1>1. d \in [kind : {"container", "environment"}, intact : BOOLEAN, own : BOOLEAN,
             needs : [Names -> (SUBSET Purposes) \cup {Unlisted}]]
  BY DEF MobileAssumption
<1>2. Damaged(d).intact = FALSE
  BY <1>1 DEF Damaged
<1> QED BY <1>2 DEF Acceptable

\* One step of the client: only configure and the end of the process touch the configuration.
LEMMA ConfigPreserved ==
  ASSUME MobileAssumption, ConfigInv, [Next]_vars
  PROVE  ConfigInv'
<1>1. CASE UNCHANGED <<config, cache, fetch>>
  BY <1>1 DEF ConfigInv, Acceptable
<1>2. CASE Configure
  <2>1. fetch' = [step |-> "waiting", doc |-> None] /\ cache' = cache /\ config' = config
    BY <1>2 DEF Configure
  <2> QED BY <2>1 DEF ConfigInv, Acceptable
<1>3. ASSUME NEW d \in Documents, Fetched(d) PROVE ConfigInv'
  <2>1. fetch' = [step |-> "store", doc |-> d] /\ cache' = d /\ config' = config /\ Acceptable(d)
    BY <1>3 DEF Fetched
  <2> QED BY <2>1 DEF ConfigInv, Acceptable
<1>4. CASE StoreConfig
  <2>1. /\ fetch' = [step |-> "idle", doc |-> None] /\ cache' = cache
        /\ config' = fetch.doc /\ fetch.step = "store"
    BY <1>4 DEF StoreConfig, NoFetch
  <2> QED BY <2>1 DEF ConfigInv, Acceptable
<1>5. ASSUME NEW d, FetchFailed(d) PROVE ConfigInv'
  <2>1. /\ fetch' = [step |-> "idle", doc |-> None] /\ cache' = cache
        /\ config' = IF Acceptable(cache) THEN cache ELSE config
    BY <1>5 DEF FetchFailed, FallBack, NoFetch
  <2> QED BY <2>1 DEF ConfigInv, Acceptable
<1>6. CASE Kill
  <2>1. config' = None /\ fetch' = [step |-> "idle", doc |-> None]
    BY <1>6 DEF Kill, NoFetch
  <2>2. Acceptable(cache)' => cache' \in Documents
    <3>1. CASE cache' = cache
      BY <3>1 DEF ConfigInv, Acceptable
    <3>2. CASE fetch.step = "store" /\ cache' = Damaged(fetch.doc)
      <4>1. fetch.doc \in Documents
        BY <3>2 DEF ConfigInv, Acceptable
      <4>2. ~ Acceptable(Damaged(fetch.doc))
        BY <4>1, DamagedRefused
      <4> QED BY <3>2, <4>2 DEF Acceptable
    <3> QED BY <1>6, <3>1, <3>2 DEF Kill
  <2> QED BY <2>1, <2>2 DEF ConfigInv
<1>7. ASSUME NEW t \in Threads,
             \/ \E g, r \in SUBSET Purposes : SetConsent(t, g, r)
             \/ Purge(t) \/ (\E n \in Names : Track(t, n)) \/ Enqueue(t) \/ EnqueueFails(t)
      PROVE  UNCHANGED <<config, cache, fetch>>
  BY <1>7 DEF SetConsent, Purge, Track, Enqueue, EnqueueFails
<1>8. ASSUME NEW f \in Flushers, Deliver(f) \/ DeliveredUnsaved(f) \/ Retry(f) \/ Refused(f)
      PROVE  UNCHANGED <<config, cache, fetch>>
  BY <1>8 DEF Deliver, Flush, Delivered, DeliveredUnsaved, Retry, Refused, app
<1>9. CASE UNCHANGED vars
  BY <1>1, <1>9 DEF vars, app
<1>10. ASSUME NEW d \in Documents, CacheUnsaved(d) PROVE ConfigInv'
  <2>1. CASE SwallowsSaves
    <3>1. /\ fetch' = [step |-> "store", doc |-> d] /\ Acceptable(d)
          /\ cache' = cache /\ config' = config
      BY <1>10, <2>1 DEF CacheUnsaved
    <3> QED BY <3>1 DEF ConfigInv, Acceptable
  <2>2. CASE ~ SwallowsSaves
    <3>1. /\ fetch' = [step |-> "idle", doc |-> None]
          /\ cache' \in {cache, Damaged(d)}
          /\ config' = IF Acceptable(cache') THEN cache' ELSE config
      BY <1>10, <2>2 DEF CacheUnsaved, FallBack, NoFetch
    <3>2. Acceptable(cache') => cache' = cache /\ cache' \in Documents
      BY <3>1, DamagedRefused DEF ConfigInv
    <3>3. /\ config' \in Documents \cup {None}
          /\ config' # None => Acceptable(config')
      BY <3>1, <3>2 DEF ConfigInv
    <3> QED BY <3>1, <3>2, <3>3 DEF ConfigInv, Acceptable
  <2> QED BY <2>1, <2>2
<1> QED BY <1>1, <1>2, <1>3, <1>4, <1>5, <1>6, <1>7, <1>8, <1>9, <1>10 DEF Next

\* The configuration in use passed verification, and on iOS is this container's, also
\* when a kill left the cache file half written and the next run fell back on it.
LEMMA OnlyVerifiedConfigsHold ==
  ASSUME MobileAssumption
  PROVE  Spec => []OnlyVerifiedConfigs
<1>1. Init => ConfigInv
  BY ConfigInit
<1>2. ConfigInv /\ [Next]_vars => ConfigInv'
  BY ConfigPreserved
<1>3. ConfigInv => OnlyVerifiedConfigs
  BY DEF ConfigInv, Acceptable, OnlyVerifiedConfigs
<1> QED BY <1>1, <1>2, <1>3, PTL DEF Spec

-----------------------------------------------------------------------------
(* Types and the claim of a flush *)

\* With claimFlush, one flush at a time has a batch in hand.
OneFlush == ExclusiveFlush => \A f, g \in Flushers : Flushing(f) /\ Flushing(g) => f = g

\* The ids of a sequence of events are ids.
LEMMA IdsOfIds ==
  ASSUME NEW q \in Seq(Event)
  PROVE  IdsOf(q) \subseteq Ids /\ Elements(q) \subseteq Event
<1>1. Elements(q) \subseteq Event
  BY DEF Elements
<1>2. \A e \in Event : e.id \in Ids
  BY DEF Event
<1> QED BY <1>1, <1>2 DEF IdsOf

\* What a purge or an answer keeps of the queue.
LEMMA KeptFacts ==
  ASSUME queue \in Queues, NEW K, NEW r, r = Filtered(queue, K), MobileAssumption
  PROVE  r \in Queues /\ Elements(r) = Elements(queue) \cap K
<1>1. queue \in Seq(Event) /\ Len(queue) <= MaxQueue /\ MaxQueue \in Nat
  BY DEF Queues, MobileAssumption
<1>2. r \in Seq(Event) /\ Len(r) <= Len(queue) /\ Elements(r) = Elements(queue) \cap K
  BY <1>1, FilteredFacts
<1>3. Len(r) <= MaxQueue
  BY <1>1, <1>2
<1> QED BY <1>2, <1>3 DEF Queues

\* enqueue: what is stored and what makes room for it.
LEMMA EnqueueFacts ==
  ASSUME MobileAssumption, Typed, NEW t \in Threads, Enqueue(t)
  PROVE  /\ thread[t].event \in Event /\ queue' \in Queues /\ excused' \in Excuses
         /\ Elements(queue') \subseteq Elements(queue) \cup {thread[t].event}
         /\ IdsOf(queue) \cup {thread[t].event.id} \subseteq IdsOf(queue') \cup excused'.gone
         /\ excused.gone \subseteq excused'.gone /\ excused'.dropped = excused.dropped
<1> DEFINE e == thread[t].event
           all == Append(queue, e)
           over == IF Len(all) > MaxQueue THEN Len(all) - MaxQueue ELSE 0
           out == SubSeq(all, 1, over)
<1>1. thread[t] \in ThreadState /\ thread[t].step = "store"
  BY DEF Typed, Enqueue
<1>2. e \in Event
  BY <1>1 DEF ThreadState, IdleThread
<1>3. queue \in Seq(Event) /\ Len(queue) <= MaxQueue /\ MaxQueue \in Nat \ {0} /\ excused \in Excuses
  BY DEF Typed, Queues, MobileAssumption
<1>4. /\ queue' = SubSeq(all, over + 1, Len(all))
      /\ excused' = [excused EXCEPT !.gone = @ \cup IdsOf(out)]
  BY DEF Enqueue
<1> HIDE DEF e
<1>5. all \in Seq(Event) /\ Len(all) = Len(queue) + 1 /\ Elements(all) = Elements(queue) \cup {e}
  BY <1>2, <1>3, AppendFacts
<1> HIDE DEF all
<1>6. /\ over \in Nat /\ over <= Len(all) /\ Len(all) \in Nat /\ over + 1 \in Nat /\ 1 <= over + 1
      /\ over + 1 <= Len(all) + 1 /\ Len(all) <= Len(all) /\ Len(all) + 1 - (over + 1) <= MaxQueue
  <2>1. Len(all) \in Nat /\ MaxQueue \in Nat
    BY <1>3, <1>5
  <2>2. CASE Len(all) > MaxQueue
    <3>1. over = Len(all) - MaxQueue
      BY <2>2
    <3> HIDE DEF over
    <3> QED BY <2>1, <2>2, <3>1
  <2>3. CASE ~ (Len(all) > MaxQueue)
    <3>1. over = 0
      BY <2>3
    <3> HIDE DEF over
    <3> QED BY <2>1, <2>3, <3>1
  <2> QED BY <2>2, <2>3
<1> HIDE DEF over
<1>7. /\ queue' \in Seq(Event) /\ Len(queue') = Len(all) + 1 - (over + 1)
      /\ Elements(queue') \subseteq Elements(all)
  BY <1>4, <1>5, <1>6, PartFacts
<1>8. queue' \in Queues
  BY <1>6, <1>7 DEF Queues
<1>9. out \in Seq(Event)
  <2>1. 1 \in Nat /\ 1 <= 1 /\ 1 <= over + 1
    BY <1>6
  <2> QED BY <1>5, <1>6, <2>1, PartFacts
<1>10. Elements(all) \subseteq Elements(out) \cup Elements(queue')
  BY <1>4, <1>5, <1>6, CutFacts
<1> HIDE DEF out
<1>11. IdsOf(out) \subseteq Ids
  BY <1>9, IdsOfIds
<1>12. /\ excused' \in Excuses /\ excused'.gone = excused.gone \cup IdsOf(out)
       /\ excused'.dropped = excused.dropped
  BY <1>3, <1>4, <1>11 DEF Excuses
<1>13. IdsOf(queue) \cup {e.id} \subseteq IdsOf(queue') \cup IdsOf(out)
  BY <1>5, <1>10 DEF IdsOf
<1> QED BY <1>2, <1>5, <1>7, <1>8, <1>12, <1>13 DEF e

\* The first lines of flush: the oldest events, a batch of them at most.
LEMMA FlushFacts ==
  ASSUME MobileAssumption, Typed, NEW f \in Flushers, Flush(f)
  PROVE  /\ flush' \in [Flushers -> FlushState]
         /\ \A g \in Flushers : g # f => flush'[g] = flush[g]
<1> DEFINE n == IF Len(queue) < Batch THEN Len(queue) ELSE Batch
           b == SubSeq(queue, 1, n)
<1>1. queue \in Seq(Event) /\ Batch \in Nat \ {0} /\ MaxRetries \in Nat \ {0}
  BY DEF Typed, Queues, MobileAssumption
<1>2. n \in Nat /\ n <= Len(queue) /\ n <= Batch /\ 1 <= n + 1 /\ n + 1 - 1 = n
  BY <1>1
<1>3. flush' = [flush EXCEPT ![f] = [batch |-> b, attempt |-> 1]]
  BY DEF Flush
<1> HIDE DEF n
<1>4. b \in Seq(Event) /\ Len(b) = n + 1 - 1
  <2>1. 1 \in Nat /\ 1 <= 1
    OBVIOUS
  <2> QED BY <1>1, <1>2, <2>1, PartFacts
<1>5. Len(b) <= Batch
  BY <1>2, <1>4
<1> HIDE DEF b
<1>6. [batch |-> b, attempt |-> 1] \in FlushState
  BY <1>1, <1>4, <1>5 DEF FlushState
<1>7. flush \in [Flushers -> FlushState]
  BY DEF Typed
<1> QED BY <1>3, <1>6, <1>7

\* The same batch again, or none.
LEMMA NextAttemptFacts ==
  ASSUME MobileAssumption, NEW b \in FlushState
  PROVE  /\ NextAttempt(b) \in FlushState /\ NoBatch \in FlushState /\ NoBatch.batch = <<>>
         /\ NextAttempt(b).batch # <<>> => b.batch # <<>>
<1>1. MaxRetries \in Nat \ {0} /\ Batch \in Nat \ {0}
  BY DEF MobileAssumption
<1>2. NoBatch \in FlushState /\ NoBatch.batch = <<>>
  BY <1>1 DEF NoBatch, FlushState
<1> DEFINE again == [batch |-> b.batch, attempt |-> b.attempt + 1]
<1>3. b.attempt < MaxRetries => again \in FlushState /\ again.batch = b.batch
  BY <1>1 DEF FlushState
<1>4. NextAttempt(b) = IF b.attempt < MaxRetries THEN again ELSE NoBatch
  BY DEF NextAttempt
<1> HIDE DEF again
<1> QED BY <1>2, <1>3, <1>4

\* An answered or abandoned request: the batch is put down, or sent again as it is.
LEMMA RetryFacts ==
  ASSUME MobileAssumption, Typed, NEW f \in Flushers,
         Retry(f) \/ Refused(f) \/ DeliveredUnsaved(f)
  PROVE  /\ flush' \in [Flushers -> FlushState]
         /\ \A g \in Flushers : flush'[g].batch # <<>> => flush[g].batch # <<>>
         /\ unanswered \subseteq unanswered' /\ unanswered' \subseteq Ids
<1>1. flush \in [Flushers -> FlushState] /\ flush[f] \in FlushState /\ unanswered \subseteq Ids
  BY DEF Typed
<1>2. IdsOf(flush[f].batch) \subseteq Ids
  BY <1>1, IdsOfIds DEF FlushState
<1>3. unanswered \subseteq unanswered' /\ unanswered' \subseteq Ids
  BY <1>1, <1>2 DEF Retry, Refused, DeliveredUnsaved
<1>4. \E x \in {NoBatch, NextAttempt(flush[f])} : flush' = [flush EXCEPT ![f] = x]
  BY DEF Retry, Refused, DeliveredUnsaved
<1>5. PICK x \in {NoBatch, NextAttempt(flush[f])} : flush' = [flush EXCEPT ![f] = x]
  BY <1>4
<1>6. x \in FlushState /\ (x.batch # <<>> => flush[f].batch # <<>>)
  BY <1>1, NextAttemptFacts
<1>7. flush'[f] = x /\ \A g \in Flushers : g # f => flush'[g] = flush[g]
  BY <1>1, <1>5
<1> QED BY <1>1, <1>3, <1>5, <1>6, <1>7

ExcusedIn(x) == x.gone \cup x.dropped

\* A 2xx answer.
LEMMA DeliveredFacts ==
  ASSUME MobileAssumption, Typed, NEW f \in Flushers, NEW again \in SUBSET Ids,
         NEW pending \in SUBSET Ids, Delivered(f, again, pending)
  PROVE  /\ flush' \in [Flushers -> FlushState]
         /\ \A g \in Flushers : flush'[g].batch # <<>> => flush[g].batch # <<>>
         /\ queue' \in Queues /\ excused' \in Excuses
         /\ Elements(queue') \subseteq Elements(queue)
         /\ ExcusedIn(excused) \subseteq ExcusedIn(excused')
         /\ IdsOf(queue) \subseteq IdsOf(queue') \cup ExcusedIn(excused')
         /\ Flushing(f) /\ excused'.dropped \subseteq excused.dropped \cup HeldElsewhere(f)
<1> DEFINE sent == IdsOf(flush[f].batch)
           K == {e \in Elements(queue) : e.id \notin sent \ again}
<1>1. flush \in [Flushers -> FlushState] /\ flush[f] \in FlushState /\ queue \in Queues /\ excused \in Excuses
  BY DEF Typed
<1>2. NoBatch \in FlushState /\ NoBatch.batch = <<>>
  BY <1>1, NextAttemptFacts
<1>4. /\ flush' = [flush EXCEPT ![f] = NoBatch] /\ queue' = Filtered(queue, K)
      /\ excused' = [excused EXCEPT !.gone = @ \cup (sent \ (again \cup pending)),
                                    !.dropped = @ \cup pending]
      /\ pending \subseteq HeldElsewhere(f) /\ Flushing(f)
  BY DEF Delivered, Answer, Retained
<1>5. flush[f].batch \in Seq(Event)
  BY <1>1 DEF FlushState
<1>6. sent \subseteq Ids
  BY <1>5, IdsOfIds
<1>7. \A e \in Elements(queue) : e \in K \/ e.id \in sent \ again
  OBVIOUS
<1> HIDE DEF K
<1>8. queue' \in Queues /\ Elements(queue') = Elements(queue) \cap K
  BY <1>1, <1>4, KeptFacts
<1> HIDE DEF sent
<1>9. /\ excused' \in Excuses /\ excused'.gone = excused.gone \cup (sent \ (again \cup pending))
      /\ excused'.dropped = excused.dropped \cup pending
  BY <1>1, <1>4, <1>6 DEF Excuses
<1>10. IdsOf(queue) \subseteq IdsOf(queue') \cup (sent \ again)
  BY <1>7, <1>8 DEF IdsOf
<1>11. /\ flush' \in [Flushers -> FlushState] /\ flush'[f] = NoBatch
       /\ \A g \in Flushers : g # f => flush'[g] = flush[g]
  BY <1>1, <1>2, <1>4
<1>12. /\ ExcusedIn(excused) \subseteq ExcusedIn(excused')
       /\ sent \ again \subseteq ExcusedIn(excused')
  BY <1>9 DEF ExcusedIn
<1> QED BY <1>2, <1>4, <1>8, <1>9, <1>10, <1>11, <1>12

\* What a purge takes out of the file, and a purge that could be saved.
Purged(t) == {e \in Elements(queue) : Withdrawn(e, thread[t].refused)}

PurgeSaved(t) ==
  /\ queue' = Filtered(queue, Elements(queue) \ Purged(t))
  /\ excused' = [excused EXCEPT !.gone = @ \cup {e.id : e \in Purged(t)}]

\* The second half of setConsent.
LEMMA PurgeFacts ==
  ASSUME MobileAssumption, Typed, NEW t \in Threads, PurgeSaved(t)
  PROVE  /\ queue' \in Queues /\ excused' \in Excuses
         /\ Elements(queue') \subseteq Elements(queue)
         /\ \A e \in Elements(queue') : ~ Withdrawn(e, thread[t].refused)
         /\ IdsOf(queue) \subseteq IdsOf(queue') \cup excused'.gone
         /\ excused.gone \subseteq excused'.gone /\ excused'.dropped = excused.dropped
<1> DEFINE out == Purged(t)
           K == Elements(queue) \ out
           ids == {e.id : e \in out}
<1>1. queue \in Queues /\ queue \in Seq(Event) /\ excused \in Excuses
  BY DEF Typed, Queues
<1>2. queue' = Filtered(queue, K) /\ excused' = [excused EXCEPT !.gone = @ \cup ids]
  BY DEF PurgeSaved
<1>3. \A e \in K : ~ Withdrawn(e, thread[t].refused)
  BY DEF Purged
<1>4. \A e \in Elements(queue) : e \in K \/ e.id \in ids
  OBVIOUS
<1>5. ids \subseteq Ids
  <2>1. out \subseteq Event
    BY <1>1, IdsOfIds DEF Purged
  <2>2. \A e \in Event : e.id \in Ids
    BY DEF Event
  <2> HIDE DEF out
  <2> QED BY <2>1, <2>2
<1> HIDE DEF K, ids
<1>6. queue' \in Queues /\ Elements(queue') = Elements(queue) \cap K
  BY <1>1, <1>2, KeptFacts
<1>7. /\ excused' \in Excuses /\ excused'.gone = excused.gone \cup ids
      /\ excused'.dropped = excused.dropped
  BY <1>1, <1>2, <1>5 DEF Excuses
<1>8. IdsOf(queue) \subseteq IdsOf(queue') \cup ids
  BY <1>4, <1>6 DEF IdsOf
<1> QED BY <1>3, <1>6, <1>7, <1>8

-----------------------------------------------------------------------------
(* No event is lost *)

\* Events that are somewhere, or gone for a reason.
Accounted(q, x, th) == IdsOf(q) \cup ExcusedIn(x) \cup StoringIn(th)

Kept == 1 .. tracked \subseteq Accounted(queue, excused, thread)

\* Where flushes are exclusive, what the collector still handles of a batch is of a request
\* that got no answer.
DroppedUnanswered == ExclusiveFlush => excused.dropped \subseteq unanswered

QueueInv == Typed /\ Kept /\ OneFlush /\ DroppedUnanswered

\* Every event is accounted for.
LEMMA KeptIsNothingLost == Kept => NothingLost
<1> SUFFICES ASSUME Kept, NEW i \in 1 .. tracked
             PROVE  \/ i \in IdsOf(queue)
                    \/ i \in excused.gone \cup excused.dropped
                    \/ \E t \in Threads : thread[t].step = "store" /\ thread[t].event.id = i
  BY DEF NothingLost
<1>1. i \in Accounted(queue, excused, thread)
  BY DEF Kept
<1>2. i \in StoringIn(thread) => \E t \in Threads : thread[t].step = "store" /\ thread[t].event.id = i
  BY DEF StoringIn
<1> QED BY <1>1, <1>2 DEF Accounted, ExcusedIn

\* One call goes a step further.
LEMMA ThreadStep ==
  ASSUME thread \in [Threads -> ThreadState], NEW t \in Threads, NEW x \in ThreadState,
         thread' = [thread EXCEPT ![t] = x]
  PROVE  /\ thread' \in [Threads -> ThreadState]
         /\ thread[t].step # "store" => StoringIn(thread) \subseteq StoringIn(thread')
         /\ StoringIn(thread) \subseteq StoringIn(thread') \cup {thread[t].event.id}
         /\ x.step = "store" => x.event.id \in StoringIn(thread')
<1>1. /\ thread' \in [Threads -> ThreadState] /\ thread'[t] = x
      /\ \A u \in Threads : u # t => thread'[u] = thread[u]
  OBVIOUS
<1>2. ASSUME NEW u \in Threads, u # t, thread[u].step = "store" PROVE thread[u].event.id \in StoringIn(thread')
  BY <1>1, <1>2 DEF StoringIn
<1>3. \A i \in StoringIn(thread) : \E u \in Threads : thread[u].step = "store" /\ i = thread[u].event.id
  BY DEF StoringIn
<1>4. x.step = "store" => x.event.id \in StoringIn(thread')
  BY <1>1 DEF StoringIn
<1>5. ASSUME NEW i \in StoringIn(thread), i # thread[t].event.id \/ thread[t].step # "store"
      PROVE  i \in StoringIn(thread')
  <2>1. PICK u \in Threads : thread[u].step = "store" /\ i = thread[u].event.id
    BY <1>3
  <2>2. u # t
    BY <1>5, <2>1
  <2> QED BY <1>2, <2>1, <2>2
<1>6. thread[t].step # "store" => StoringIn(thread) \subseteq StoringIn(thread')
  BY <1>5
<1>7. StoringIn(thread) \subseteq StoringIn(thread') \cup {thread[t].event.id}
  BY <1>5
<1> QED BY <1>1, <1>4, <1>6, <1>7

\* A client whose queue file is empty.
LEMMA QueueInit ==
  ASSUME MobileAssumption, Init
  PROVE  QueueInv
<1>1. /\ MaxQueue \in Nat /\ Batch \in Nat /\ MaxRetries \in Nat /\ MaxEvents \in Nat
  BY DEF MobileAssumption
<1>2. <<>> \in Queues
  BY <1>1 DEF Queues
<1>3. NoBatch \in FlushState /\ NoBatch.batch = <<>>
  BY <1>1 DEF NoBatch, FlushState
<1>4. Typed
  <2>1. thread \in [Threads -> ThreadState]
    BY DEF Init, ThreadState
  <2>2. queue \in Queues /\ flush \in [Flushers -> FlushState]
    BY <1>2, <1>3 DEF Init
  <2>3. tracked \in 0 .. MaxEvents /\ consent \in (SUBSET Purposes) \cup {None}
    BY <1>1 DEF Init
  <2>4. excused \in Excuses /\ unanswered \subseteq Ids
    BY DEF Init, Excuses
  <2> QED BY <2>1, <2>2, <2>3, <2>4 DEF Typed
<1>5. Kept
  BY DEF Init, Kept
<1>6. OneFlush
  BY <1>3 DEF Init, OneFlush, Flushing
<1>7. DroppedUnanswered
  BY DEF Init, DroppedUnanswered
<1> QED BY <1>4, <1>5, <1>6, <1>7 DEF QueueInv

\* Tracking and consent: a step of an application thread.
LEMMA ThreadPreserves ==
  ASSUME MobileAssumption, QueueInv, NEW t \in Threads,
         \/ \E g, r \in SUBSET Purposes : SetConsent(t, g, r)
         \/ Purge(t)
         \/ \E n \in Names : Track(t, n)
         \/ Enqueue(t)
         \/ EnqueueFails(t)
  PROVE  QueueInv'
<1>1. /\ Typed /\ thread \in [Threads -> ThreadState] /\ queue \in Queues /\ flush \in [Flushers -> FlushState]
      /\ tracked \in 0 .. MaxEvents /\ excused \in Excuses /\ consent \in (SUBSET Purposes) \cup {None}
      /\ MaxEvents \in Nat /\ unanswered \subseteq Ids
  BY DEF QueueInv, Typed, MobileAssumption
<1>2. IdleThread \in ThreadState /\ IdleThread.step = "idle"
  BY DEF ThreadState, IdleThread
<1>3. OneFlush' /\ flush' \in [Flushers -> FlushState] /\ unanswered' = unanswered
  BY <1>1 DEF QueueInv, OneFlush, Flushing, SetConsent, Purge, Track, Enqueue, EnqueueFails
<1>9. ASSUME excused'.dropped = excused.dropped PROVE DroppedUnanswered'
  BY <1>3, <1>9 DEF QueueInv, DroppedUnanswered
<1>4. ASSUME NEW g \in SUBSET Purposes, NEW r \in SUBSET Purposes, SetConsent(t, g, r) PROVE QueueInv'
  <2> DEFINE x == IF r = {} THEN IdleThread ELSE [step |-> "purge", refused |-> r]
  <2>1. x \in ThreadState
    BY <1>2 DEF ThreadState
  <2>2. /\ thread' = [thread EXCEPT ![t] = x] /\ thread[t].step # "store" /\ consent' = g
        /\ queue' = queue /\ tracked' = tracked /\ excused' = excused
    BY <1>2, <1>4 DEF SetConsent
  <2> HIDE DEF x
  <2>3. thread' \in [Threads -> ThreadState] /\ StoringIn(thread) \subseteq StoringIn(thread')
    BY <1>1, <2>1, <2>2, ThreadStep
  <2>4. Kept'
    BY <2>2, <2>3 DEF QueueInv, Kept, Accounted
  <2> QED BY <1>1, <1>3, <1>9, <2>2, <2>3, <2>4 DEF QueueInv, Typed
<1>5. CASE Purge(t)
  <2>1. /\ thread' = [thread EXCEPT ![t] = IdleThread] /\ thread[t].step # "store"
        /\ tracked' = tracked /\ consent' = consent
    BY <1>5 DEF Purge
  <2>2. thread' \in [Threads -> ThreadState] /\ StoringIn(thread) \subseteq StoringIn(thread')
    BY <1>1, <1>2, <2>1, ThreadStep
  <2>6. CASE UNCHANGED <<queue, excused>>
    <3>1. Kept'
      BY <2>1, <2>2, <2>6 DEF QueueInv, Kept, Accounted
    <3> QED BY <1>1, <1>3, <1>9, <2>1, <2>2, <2>6, <3>1 DEF QueueInv, Typed
  <2>7. PurgeSaved(t) \/ UNCHANGED <<queue, excused>>
    BY <1>5 DEF Purge, PurgeSaved, Purged
  <2> SUFFICES ASSUME PurgeSaved(t) PROVE QueueInv'
    BY <2>6, <2>7
  <2>3. /\ queue' \in Queues /\ excused' \in Excuses
        /\ IdsOf(queue) \subseteq IdsOf(queue') \cup excused'.gone
        /\ excused.gone \subseteq excused'.gone /\ excused'.dropped = excused.dropped
    BY <1>1, PurgeFacts
  <2>4. Accounted(queue, excused, thread) \subseteq Accounted(queue', excused', thread')
    BY <2>2, <2>3 DEF Accounted, ExcusedIn
  <2>5. Kept'
    BY <2>1, <2>4 DEF QueueInv, Kept
  <2> QED BY <1>1, <1>3, <1>9, <2>1, <2>2, <2>3, <2>5 DEF QueueInv, Typed
<1>6. ASSUME NEW n \in Names, Track(t, n) PROVE QueueInv'
  <2> DEFINE e == [id |-> tracked + 1, granted |-> consent]
             x == [step |-> "store", event |-> e]
  <2>1. /\ thread' = [thread EXCEPT ![t] = x] /\ thread[t].step # "store" /\ tracked < MaxEvents
        /\ tracked' = tracked + 1 /\ queue' = queue /\ excused' = excused /\ consent' = consent
    BY <1>2, <1>6 DEF Track
  <2>2. tracked + 1 \in Ids /\ tracked' \in 0 .. MaxEvents
    BY <1>1, <2>1 DEF Ids
  <2>3. e \in Event /\ e.id = tracked + 1
    BY <1>1, <2>2 DEF Event
  <2> HIDE DEF e
  <2>4. x \in ThreadState /\ x.step = "store" /\ x.event.id = tracked + 1
    BY <2>3 DEF ThreadState
  <2> HIDE DEF x
  <2>5. /\ thread' \in [Threads -> ThreadState] /\ StoringIn(thread) \subseteq StoringIn(thread')
        /\ tracked + 1 \in StoringIn(thread')
    BY <1>1, <2>1, <2>4, ThreadStep
  <2>6. \A i \in 1 .. tracked' : i \in 1 .. tracked \/ i = tracked + 1
    BY <1>1, <2>1
  <2>7. Kept'
    BY <2>1, <2>5, <2>6 DEF QueueInv, Kept, Accounted
  <2> QED BY <1>1, <1>3, <1>9, <2>1, <2>2, <2>5, <2>7 DEF QueueInv, Typed
<1>7. CASE Enqueue(t)
  <2>1. /\ thread' = [thread EXCEPT ![t] = IdleThread]
        /\ tracked' = tracked /\ consent' = consent
    BY <1>7 DEF Enqueue, counts
  <2>2. /\ thread' \in [Threads -> ThreadState]
        /\ StoringIn(thread) \subseteq StoringIn(thread') \cup {thread[t].event.id}
    BY <1>1, <1>2, <2>1, ThreadStep
  <2>3. /\ queue' \in Queues /\ excused' \in Excuses
        /\ IdsOf(queue) \cup {thread[t].event.id} \subseteq IdsOf(queue') \cup excused'.gone
        /\ excused.gone \subseteq excused'.gone /\ excused'.dropped = excused.dropped
    BY <1>1, <1>7, EnqueueFacts
  <2>4. Accounted(queue, excused, thread) \subseteq Accounted(queue', excused', thread')
    BY <2>2, <2>3 DEF Accounted, ExcusedIn
  <2>5. Kept'
    BY <2>1, <2>4 DEF QueueInv, Kept
  <2> QED BY <1>1, <1>3, <1>9, <2>1, <2>2, <2>3, <2>5 DEF QueueInv, Typed
<1>8. CASE EnqueueFails(t)
  <2> DEFINE i == thread[t].event.id
  <2>1. /\ thread' = [thread EXCEPT ![t] = IdleThread] /\ thread[t].step = "store"
        /\ tracked' = tracked /\ consent' = consent /\ queue' = queue
        /\ excused' = [excused EXCEPT !.gone = @ \cup {i}]
    BY <1>8 DEF EnqueueFails
  <2>2. /\ thread' \in [Threads -> ThreadState] /\ StoringIn(thread) \subseteq StoringIn(thread') \cup {i}
    BY <1>1, <1>2, <2>1, ThreadStep
  <2>3. i \in Ids
    <3>1. thread[t] \in ThreadState
      BY <1>1
    <3> QED BY <2>1, <3>1 DEF ThreadState, IdleThread, Event
  <2> HIDE DEF i
  <2>4. /\ excused' \in Excuses /\ excused'.gone = excused.gone \cup {i}
        /\ excused'.dropped = excused.dropped
    BY <1>1, <2>1, <2>3 DEF Excuses
  <2>5. Accounted(queue, excused, thread) \subseteq Accounted(queue', excused', thread')
    BY <2>1, <2>2, <2>4 DEF Accounted, ExcusedIn
  <2>6. Kept'
    BY <2>1, <2>5 DEF QueueInv, Kept
  <2> QED BY <1>1, <1>3, <1>9, <2>1, <2>2, <2>4, <2>6 DEF QueueInv, Typed
<1> QED BY <1>4, <1>5, <1>6, <1>7, <1>8

\* Delivery: a step of a flush.
LEMMA DeliveryPreserves ==
  ASSUME MobileAssumption, QueueInv, NEW f \in Flushers,
         Deliver(f) \/ DeliveredUnsaved(f) \/ Retry(f) \/ Refused(f)
  PROVE  QueueInv'
<1>1. Typed /\ Kept /\ OneFlush /\ DroppedUnanswered
  BY DEF QueueInv
<1>2. UNCHANGED <<thread, tracked, consent>>
  BY DEF Deliver, Flush, Delivered, DeliveredUnsaved, Retry, Refused, app, counts
<1>3. CASE Flush(f)
  <2>1. /\ flush' \in [Flushers -> FlushState]
        /\ \A g \in Flushers : g # f => flush'[g] = flush[g]
    BY <1>1, <1>3, FlushFacts
  <2>2. UNCHANGED <<queue, excused, unanswered>> /\ (ExclusiveFlush => \A g \in Flushers : ~ Flushing(g))
    BY <1>3 DEF Flush
  <2>3. OneFlush'
    BY <2>1, <2>2 DEF OneFlush, Flushing
  <2>4. Typed' /\ Kept' /\ DroppedUnanswered'
    BY <1>1, <1>2, <2>1, <2>2 DEF Typed, Kept, DroppedUnanswered
  <2> QED BY <2>3, <2>4 DEF QueueInv
<1>4. ASSUME NEW again \in SUBSET Ids, NEW pending \in SUBSET Ids, Delivered(f, again, pending)
      PROVE  QueueInv'
  <2>1. /\ flush' \in [Flushers -> FlushState]
        /\ \A g \in Flushers : flush'[g].batch # <<>> => flush[g].batch # <<>>
        /\ queue' \in Queues /\ excused' \in Excuses
        /\ ExcusedIn(excused) \subseteq ExcusedIn(excused')
        /\ IdsOf(queue) \subseteq IdsOf(queue') \cup ExcusedIn(excused')
        /\ Flushing(f) /\ excused'.dropped \subseteq excused.dropped \cup HeldElsewhere(f)
    BY <1>1, <1>4, DeliveredFacts
  <2>2. OneFlush'
    BY <1>1, <2>1 DEF OneFlush, Flushing
  <2>3. Accounted(queue, excused, thread) \subseteq Accounted(queue', excused', thread)
    BY <2>1 DEF Accounted
  <2>4. Kept'
    BY <1>1, <1>2, <2>3 DEF Kept
  <2>5. unanswered' = unanswered
    BY <1>4 DEF Delivered
  <2>6. Typed'
    BY <1>1, <1>2, <2>1, <2>5 DEF Typed
  <2>7. ASSUME ExclusiveFlush PROVE HeldElsewhere(f) = unanswered
    <3>1. \A g \in Flushers \ {f} : flush[g].batch = <<>>
      BY <1>1, <2>1, <2>7 DEF OneFlush, Flushing
    <3>2. IdsOf(<<>>) = {}
      BY DEF IdsOf, Elements
    <3> QED BY <3>1, <3>2 DEF HeldElsewhere
  <2>8. DroppedUnanswered'
    BY <1>1, <2>1, <2>5, <2>7 DEF DroppedUnanswered
  <2> QED BY <2>2, <2>4, <2>6, <2>8 DEF QueueInv
<1>5. CASE Retry(f) \/ Refused(f) \/ DeliveredUnsaved(f)
  <2>1. /\ flush' \in [Flushers -> FlushState]
        /\ \A g \in Flushers : flush'[g].batch # <<>> => flush[g].batch # <<>>
        /\ unanswered \subseteq unanswered' /\ unanswered' \subseteq Ids
    BY <1>1, <1>5, RetryFacts
  <2>2. UNCHANGED <<queue, excused>>
    BY <1>5 DEF Retry, Refused, DeliveredUnsaved
  <2>3. OneFlush'
    BY <1>1, <2>1 DEF OneFlush, Flushing
  <2>4. Typed' /\ Kept' /\ DroppedUnanswered'
    BY <1>1, <1>2, <2>1, <2>2 DEF Typed, Kept, DroppedUnanswered
  <2> QED BY <2>3, <2>4 DEF QueueInv
<1> QED BY <1>3, <1>4, <1>5 DEF Deliver

\* The process ends: only an event that was not stored yet goes with it.
LEMMA KillPreserves ==
  ASSUME MobileAssumption, QueueInv, Kill
  PROVE  QueueInv'
<1>1. /\ thread \in [Threads -> ThreadState] /\ queue \in Queues /\ excused \in Excuses
      /\ tracked \in 0 .. MaxEvents /\ Kept /\ DroppedUnanswered /\ unanswered \subseteq Ids
      /\ flush \in [Flushers -> FlushState]
  BY DEF QueueInv, Typed
<1>2. /\ thread' = [t \in Threads |-> IdleThread] /\ flush' = [f \in Flushers |-> NoBatch]
      /\ consent' = None /\ queue' = queue /\ tracked' = tracked
      /\ excused' = [excused EXCEPT !.gone = @ \cup StoringIn(thread)]
      /\ unanswered' = unanswered \cup UNION {IdsOf(flush[f].batch) : f \in Flushers}
  BY DEF Kill
<1>3. NoBatch \in FlushState /\ NoBatch.batch = <<>>
  BY DEF NoBatch, FlushState, MobileAssumption
<1>4. StoringIn(thread) \subseteq Ids
  <2>1. \A t \in Threads : thread[t].step = "store" => thread[t].event \in Event
    BY <1>1 DEF ThreadState, IdleThread
  <2>2. \A e \in Event : e.id \in Ids
    BY DEF Event
  <2> QED BY <2>1, <2>2 DEF StoringIn
<1> DEFINE S == StoringIn(thread)
<1> HIDE DEF S
<1>5. /\ excused' \in Excuses /\ excused'.dropped = excused.dropped
      /\ excused'.gone = excused.gone \cup S
  BY <1>1, <1>2, <1>4 DEF Excuses, S
<1>6. Accounted(queue, excused, thread) \subseteq Accounted(queue', excused', thread')
  BY <1>2, <1>5 DEF Accounted, ExcusedIn, S
<1>7. Kept'
  BY <1>1, <1>2, <1>6 DEF Kept
<1>8. thread' \in [Threads -> ThreadState]
  BY <1>2 DEF ThreadState
<1>9. flush' \in [Flushers -> FlushState] /\ OneFlush'
  BY <1>2, <1>3 DEF OneFlush, Flushing
<1>10. Typed'
  <2>1. consent' \in (SUBSET Purposes) \cup {None}
    BY <1>2
  <2>2. \A f \in Flushers : IdsOf(flush[f].batch) \subseteq Ids
    BY <1>1, IdsOfIds DEF FlushState
  <2>3. unanswered' \subseteq Ids
    BY <1>1, <1>2, <2>2
  <2> QED BY <1>1, <1>2, <1>5, <1>8, <1>9, <2>1, <2>3 DEF Typed
<1>11. DroppedUnanswered'
  BY <1>1, <1>2, <1>5 DEF DroppedUnanswered
<1> QED BY <1>7, <1>9, <1>10, <1>11 DEF QueueInv

\* One step of the client.
LEMMA QueuePreserved ==
  ASSUME MobileAssumption, QueueInv, [Next]_vars
  PROVE  QueueInv'
<1>1. CASE UNCHANGED <<thread, queue, flush, unanswered, tracked, excused, consent>>
  BY <1>1 DEF QueueInv, Typed, Kept, OneFlush, Flushing, DroppedUnanswered
<1>2. CASE \/ Configure \/ (\E d \in Documents : Fetched(d) \/ CacheUnsaved(d)) \/ StoreConfig
           \/ (\E d \in Documents \cup {None} : FetchFailed(d)) \/ UNCHANGED vars
  BY <1>1, <1>2 DEF Configure, Fetched, CacheUnsaved, StoreConfig, FetchFailed, vars, app, counts
<1> QED BY <1>2, ThreadPreserves, DeliveryPreserves, KillPreserves DEF Next

\* The invariant of the queue.
LEMMA QueueInvHolds ==
  ASSUME MobileAssumption
  PROVE  Spec => []QueueInv
<1>1. Init => QueueInv
  BY QueueInit
<1>2. QueueInv /\ [Next]_vars => QueueInv'
  BY QueuePreserved
<1> QED BY <1>1, <1>2, PTL DEF Spec

\* With one batch in hand at most, no event is in two.
LEMMA OneFlushIsDisjoint == ASSUME ExclusiveFlush PROVE OneFlush => BatchesDisjoint
<1> SUFFICES ASSUME OneFlush, NEW f \in Flushers, NEW g \in Flushers, f # g
             PROVE  IdsOf(flush[f].batch) \cap IdsOf(flush[g].batch) = {}
  BY DEF BatchesDisjoint
<1>1. flush[f].batch = <<>> \/ flush[g].batch = <<>>
  BY DEF OneFlush, Flushing
<1>2. IdsOf(<<>>) = {}
  BY DEF IdsOf, Elements
<1> QED BY <1>1, <1>2

\* On either platform an event that was tracked leaves the queue only settled by the
\* collector, purged by a withdrawal, pushed out by newer ones or dropped because another
\* request was still handling it, or was not stored yet when the process ended; the queue,
\* the batches and the attempts stay within their limits; and where flush claims, no event
\* is under way twice, and none is dropped before a request with it got no answer.
THEOREM QueueKeptHolds ==
  ASSUME MobileAssumption
  PROVE  Spec => []QueueKept
<1>1. Init => ConfigInv
  BY ConfigInit
<1>2. ConfigInv /\ [Next]_vars => ConfigInv'
  BY ConfigPreserved
<1>3. ConfigInv /\ QueueInv => TypeOK
  BY DEF ConfigInv, QueueInv, Typed, TypeOK, ThreadState, FlushState, Queues
<1>4. QueueInv => NothingLost /\ (ExclusiveFlush => BatchesDisjoint)
  BY KeptIsNothingLost, OneFlushIsDisjoint DEF QueueInv
<1>5. ConfigInv /\ QueueInv => QueueKept
  BY <1>3, <1>4 DEF QueueKept, QueueInv, DroppedUnanswered
<1> QED BY <1>1, <1>2, <1>5, QueueInvHolds, PTL DEF Spec

-----------------------------------------------------------------------------
(* Withdrawal of consent *)

\* e carries no refused purpose, or is one of the events that a withdrawal cannot reach.
NotWithdrawn(e) ==
  \/ e.granted = None
  \/ e.granted \cap denied = {}
  \/ e.id \in late \cup unpurged

\* An event that a call of track has made carries no purpose refused since, or is late;
\* and either the purge of the last refusal is still to come, or the queue holds nothing
\* it should have taken out.
ConsentInv ==
  /\ consent # None => consent \cap denied = {}
  /\ \A t \in Threads : thread[t].step = "store" => NotWithdrawn(thread[t].event)
  /\ \/ \E t \in Threads : thread[t].step = "purge" /\ thread[t].refused = denied
     \/ \A e \in Elements(queue) : NotWithdrawn(e)

\* Nothing is queued and nothing refused.
LEMMA ConsentInit == Init => ConsentInv
  BY DEF Init, IdleThread, ConsentInv, Elements

\* One step of the client.
LEMMA ConsentPreserved ==
  ASSUME MobileAssumption, QueueInv, ConsentInv, [Next]_vars
  PROVE  ConsentInv'
<1>1. /\ Typed /\ thread \in [Threads -> ThreadState] /\ queue \in Seq(Event)
  BY DEF QueueInv, Typed, Queues
<1>2. ASSUME UNCHANGED <<consent, refusal, thread>>, Elements(queue') \subseteq Elements(queue)
      PROVE  ConsentInv'
  BY <1>2 DEF ConsentInv, NotWithdrawn, refusal
<1>3. CASE UNCHANGED <<consent, refusal, thread, queue>>
  BY <1>2, <1>3
<1>4. ASSUME NEW t \in Threads, NEW g \in SUBSET Purposes, NEW r \in SUBSET Purposes, SetConsent(t, g, r)
      PROVE  ConsentInv'
  <2> DEFINE x == IF r = {} THEN IdleThread ELSE [step |-> "purge", refused |-> r]
  <2>1. /\ consent' = g /\ denied' = r /\ g \cap r = {} /\ late' = StoringIn(thread)
        /\ thread' = [thread EXCEPT ![t] = x]
    BY <1>4 DEF SetConsent
  <2>2. x.step # "store" /\ (r # {} => x.step = "purge" /\ x.refused = r)
    BY DEF IdleThread
  <2> HIDE DEF x
  <2>3. thread'[t] = x /\ \A u \in Threads : u # t => thread'[u] = thread[u]
    BY <1>1, <2>1
  <2>4. \A u \in Threads : thread'[u].step = "store" => thread'[u].event.id \in late'
    BY <2>1, <2>2, <2>3 DEF StoringIn
  <2>5. \A u \in Threads : thread'[u].step = "store" => NotWithdrawn(thread[u].event)'
    BY <2>2, <2>3, <2>4 DEF NotWithdrawn
  <2>6. \/ \E u \in Threads : thread'[u].step = "purge" /\ thread'[u].refused = denied'
        \/ \A e : NotWithdrawn(e)'
    BY <2>1, <2>2, <2>3 DEF NotWithdrawn
  <2> QED BY <2>1, <2>5, <2>6 DEF ConsentInv, NotWithdrawn
<1>5. ASSUME NEW t \in Threads, Purge(t) PROVE ConsentInv'
  <2>1. /\ thread[t].step = "purge" /\ thread' = [thread EXCEPT ![t] = IdleThread]
        /\ consent' = consent /\ denied' = denied /\ late' = late
        /\ \/ PurgeSaved(t) /\ unpurged' = unpurged
           \/ queue' = queue /\ unpurged' = unpurged \cup {e.id : e \in Purged(t)}
    BY <1>5 DEF Purge, PurgeSaved, Purged
  <2>2. thread'[t].step = "idle" /\ \A u \in Threads : u # t => thread'[u] = thread[u]
    BY <1>1, <2>1 DEF IdleThread
  <2>3. /\ Elements(queue') \subseteq Elements(queue) /\ unpurged \subseteq unpurged'
        /\ \A e \in Elements(queue') : ~ Withdrawn(e, thread[t].refused) \/ e.id \in unpurged'
    <3>1. CASE PurgeSaved(t) /\ unpurged' = unpurged
      BY <1>1, <3>1, PurgeFacts
    <3>2. CASE queue' = queue /\ unpurged' = unpurged \cup {e.id : e \in Purged(t)}
      BY <3>2 DEF Purged
    <3> QED BY <2>1, <3>1, <3>2
  <2>4. \A e : NotWithdrawn(e) => NotWithdrawn(e)'
    BY <2>1, <2>3 DEF NotWithdrawn
  <2>5. CASE \E u \in Threads \ {t} : thread[u].step = "purge" /\ thread[u].refused = denied
    BY <2>1, <2>2, <2>4, <2>5 DEF ConsentInv
  <2>6. CASE thread[t].refused = denied
    <3>1. \A e \in Elements(queue') : NotWithdrawn(e)'
      BY <2>1, <2>3, <2>6 DEF NotWithdrawn, Withdrawn
    <3> QED BY <2>1, <2>2, <2>4, <3>1 DEF ConsentInv
  <2>7. CASE \A e \in Elements(queue) : NotWithdrawn(e)
    <3>1. \A e \in Elements(queue') : NotWithdrawn(e)'
      BY <2>3, <2>4, <2>7
    <3> QED BY <2>1, <2>2, <2>4, <3>1 DEF ConsentInv
  <2> QED BY <2>5, <2>6, <2>7 DEF ConsentInv
<1>6. ASSUME NEW t \in Threads, NEW n \in Names, Track(t, n) PROVE ConsentInv'
  <2> DEFINE x == [step |-> "store", event |-> [id |-> tracked + 1, granted |-> consent]]
  <2>1. /\ thread' = [thread EXCEPT ![t] = x] /\ thread[t].step = "idle"
        /\ consent' = consent /\ UNCHANGED refusal /\ queue' = queue
    BY <1>6 DEF Track, IdleThread
  <2>2. x.step = "store" /\ x.event.granted = consent
    OBVIOUS
  <2> HIDE DEF x
  <2>3. thread'[t] = x /\ \A u \in Threads : u # t => thread'[u] = thread[u]
    BY <1>1, <2>1
  <2>4. \A e : NotWithdrawn(e)' <=> NotWithdrawn(e)
    BY <2>1 DEF NotWithdrawn, refusal
  <2>5. NotWithdrawn(x.event)
    BY <2>2 DEF ConsentInv, NotWithdrawn
  <2>6. \A u \in Threads : thread'[u].step = "store" => NotWithdrawn(thread'[u].event)
    BY <2>3, <2>5 DEF ConsentInv
  <2>7. \/ \E u \in Threads : thread'[u].step = "purge" /\ thread'[u].refused = denied
        \/ \A e \in Elements(queue) : NotWithdrawn(e)
    BY <2>1, <2>3 DEF ConsentInv
  <2> QED BY <2>1, <2>4, <2>6, <2>7 DEF ConsentInv, NotWithdrawn, refusal
<1>7. ASSUME NEW t \in Threads, Enqueue(t) \/ EnqueueFails(t) PROVE ConsentInv'
  <2>1. /\ thread[t].step = "store" /\ thread' = [thread EXCEPT ![t] = IdleThread]
        /\ consent' = consent /\ UNCHANGED refusal
    BY <1>7 DEF Enqueue, EnqueueFails
  <2>2. thread'[t].step = "idle" /\ \A u \in Threads : u # t => thread'[u] = thread[u]
    BY <1>1, <2>1 DEF IdleThread
  <2>3. Elements(queue') \subseteq Elements(queue) \cup {thread[t].event}
    BY <1>1, <1>7, EnqueueFacts DEF EnqueueFails
  <2>4. \A e : NotWithdrawn(e)' <=> NotWithdrawn(e)
    BY <2>1 DEF NotWithdrawn, refusal
  <2>5. NotWithdrawn(thread[t].event)
    BY <2>1 DEF ConsentInv
  <2>6. \/ \E u \in Threads : thread'[u].step = "purge" /\ thread'[u].refused = denied
        \/ \A e \in Elements(queue') : NotWithdrawn(e)
    <3>1. CASE \E u \in Threads : thread[u].step = "purge" /\ thread[u].refused = denied
      BY <2>1, <2>2, <3>1
    <3>2. CASE \A e \in Elements(queue) : NotWithdrawn(e)
      BY <2>3, <2>5, <3>2
    <3> QED BY <3>1, <3>2 DEF ConsentInv
  <2>7. \A u \in Threads : thread'[u].step = "store" => NotWithdrawn(thread'[u].event)
    BY <2>2 DEF ConsentInv
  <2> QED BY <2>1, <2>4, <2>6, <2>7 DEF ConsentInv, NotWithdrawn, refusal
<1>8. CASE \/ Configure \/ (\E d \in Documents : Fetched(d) \/ CacheUnsaved(d)) \/ StoreConfig
           \/ (\E d \in Documents \cup {None} : FetchFailed(d)) \/ UNCHANGED vars
  BY <1>3, <1>8 DEF Configure, Fetched, CacheUnsaved, StoreConfig, FetchFailed, vars, app
<1>9. ASSUME NEW f \in Flushers, Deliver(f) \/ DeliveredUnsaved(f) \/ Retry(f) \/ Refused(f)
      PROVE  ConsentInv'
  <2>1. UNCHANGED <<consent, refusal, thread>>
    BY <1>9 DEF Deliver, Flush, Delivered, DeliveredUnsaved, Retry, Refused, app
  <2>2. Elements(queue') \subseteq Elements(queue)
    BY <1>1, <1>9, DeliveredFacts DEF Deliver, Flush, DeliveredUnsaved, Retry, Refused
  <2> QED BY <1>2, <2>1, <2>2
<1>10. CASE Kill
  <2>1. /\ consent' = None /\ queue' = queue /\ late' = late /\ unpurged' = unpurged
        /\ denied' = IF \E t \in Threads : thread[t].step = "purge" THEN {} ELSE denied
        /\ \A t \in Threads : thread'[t].step = "idle"
    BY <1>10 DEF Kill, IdleThread
  <2>2. \A e \in Elements(queue') : NotWithdrawn(e)'
    BY <2>1 DEF ConsentInv, NotWithdrawn
  <2> QED BY <2>1, <2>2 DEF ConsentInv
<1> QED BY <1>4, <1>5, <1>6, <1>7, <1>8, <1>9, <1>10 DEF Next

\* The configuration in use passed verification, also when a kill or a failed write left
\* the cache file damaged and a later run fell back on it; and once every call of
\* setConsent has returned, the queue file holds nothing tracked under a purpose the last
\* one refused, whatever threads, flushes, answers and kills came between, but for what
\* another thread had made and not stored when the consent changed, and what a purge could
\* not take out of the file.
THEOREM ConfigAndConsentHonouredHolds ==
  ASSUME MobileAssumption
  PROVE  Spec => []ConfigAndConsentHonoured
<1>1. Init => ConsentInv
  BY ConsentInit
<1>2. QueueInv /\ ConsentInv /\ [Next]_vars => ConsentInv'
  BY ConsentPreserved
<1>3. ConsentInv => WithdrawalPurges
  BY DEF ConsentInv, NotWithdrawn, WithdrawalPurges, Elements
<1>4. OnlyVerifiedConfigs /\ WithdrawalPurges => ConfigAndConsentHonoured
  BY DEF ConfigAndConsentHonoured
<1> QED BY <1>1, <1>2, <1>3, <1>4, QueueInvHolds, OnlyVerifiedConfigsHold, PTL DEF Spec

-----------------------------------------------------------------------------
(* The lifecycle observer of iOS *)

CONSTANTS Starters, MaxTasks, MaxStarts, MaxStops, KeepsObserver

VARIABLES observers, centre, starting, starts, stops, active, task, flushing, released

Lifecycle == INSTANCE IosLifecycle

\* Registrations are numbered from 1, so that the 0 of an empty list stands for none;
\* and the background task that is open is the active one.
LifecycleInv ==
  /\ starting \in [Starters -> Nat] /\ starts \in Nat /\ 0 \notin centre
  /\ \A c \in centre : c = observers \/ \E s \in Starters : c = starting[s]
  /\ active \in Nat
  /\ task \in [Lifecycle!Tasks -> {"unused", "begun", "ended"}]
  /\ \A k \in Lifecycle!Tasks : task[k] = "begun" => active = k

\* An observer that was never started.
LEMMA LifecycleInit == Lifecycle!Init => LifecycleInv
  BY DEF Lifecycle!Init, LifecycleInv

\* The registration half of the invariant, over start and stop.
LEMMA RegistrationsPreserved ==
  ASSUME LifecycleInv,
         \/ \E s \in Starters : Lifecycle!Start(s) \/ Lifecycle!Started(s)
         \/ Lifecycle!Stop \/ Lifecycle!ReleaseObserver
  PROVE  LifecycleInv'
<1>1. UNCHANGED <<active, task>>
  BY DEF Lifecycle!Start, Lifecycle!Started, Lifecycle!Stop, Lifecycle!ReleaseObserver
<1>2. ASSUME /\ starting' \in [Starters -> Nat] /\ starts' \in Nat /\ 0 \notin centre'
             /\ \A c \in centre' : c = observers' \/ \E s \in Starters : c = starting'[s]
      PROVE  LifecycleInv'
  BY <1>1, <1>2 DEF LifecycleInv
<1>3. /\ starting \in [Starters -> Nat] /\ starts \in Nat /\ 0 \notin centre
      /\ \A c \in centre : c = observers \/ \E s \in Starters : c = starting[s]
  BY DEF LifecycleInv
<1>4. ASSUME NEW s \in Starters, Lifecycle!Start(s) PROVE LifecycleInv'
  <2>1. /\ starting[s] = 0 /\ starting' = [starting EXCEPT ![s] = starts + 1] /\ starts' = starts + 1
        /\ centre' = centre \cup {starts + 1} /\ observers' = observers
    BY <1>4 DEF Lifecycle!Start
  <2>2. /\ starting' \in [Starters -> Nat] /\ starting'[s] = starts + 1 /\ starts' \in Nat
        /\ \A u \in Starters : u # s => starting'[u] = starting[u]
    BY <1>3, <2>1
  <2>3. 0 \notin centre'
    BY <1>3, <2>1
  <2>4. ASSUME NEW c \in centre' PROVE c = observers' \/ \E u \in Starters : c = starting'[u]
    <3>1. CASE c = starts + 1
      BY <2>2, <3>1
    <3>2. CASE c \in centre
      BY <1>3, <2>1, <2>2, <3>2
    <3> QED BY <2>1, <3>1, <3>2
  <2> QED BY <1>2, <2>2, <2>3, <2>4
<1>5. ASSUME NEW s \in Starters, Lifecycle!Started(s) PROVE LifecycleInv'
  <2>1. /\ starting' = [starting EXCEPT ![s] = 0] /\ starts' = starts
        /\ \/ observers = 0 /\ observers' = starting[s] /\ centre' = centre
           \/ centre' = centre \ {starting[s]} /\ observers' = observers
    BY <1>5 DEF Lifecycle!Started
  <2>2. /\ starting' \in [Starters -> Nat] /\ starts' \in Nat
        /\ \A u \in Starters : u # s => starting'[u] = starting[u]
    BY <1>3, <2>1
  <2>3. 0 \notin centre'
    BY <1>3, <2>1
  <2>4. ASSUME NEW c \in centre' PROVE c = observers' \/ \E u \in Starters : c = starting'[u]
    <3>1. c \in centre /\ c # 0
      BY <1>3, <2>1
    <3>2. c = observers \/ \E u \in Starters : c = starting[u]
      BY <1>3, <3>1
    <3> QED BY <2>1, <2>2, <3>1, <3>2
  <2> QED BY <1>2, <2>2, <2>3, <2>4
<1>6. CASE Lifecycle!Stop \/ Lifecycle!ReleaseObserver
  <2>1. starting' = starting /\ starts' = starts /\ centre' = centre \ {observers}
    BY <1>6 DEF Lifecycle!Stop, Lifecycle!ReleaseObserver
  <2> QED BY <1>2, <1>3, <2>1
<1> QED BY <1>4, <1>5, <1>6

\* The background-task half, over notifications, flushes and expirations.
LEMMA TasksPreserved ==
  ASSUME LifecycleInv,
         \/ Lifecycle!FlushInBackground
         \/ \E k \in Lifecycle!Tasks :
              Lifecycle!BeginFlush(k) \/ Lifecycle!EndFlush(k) \/ Lifecycle!Expire(k)
  PROVE  LifecycleInv'
<1> DEFINE T == Lifecycle!Tasks
<1>1. UNCHANGED <<starting, starts, centre, observers>>
  BY DEF Lifecycle!FlushInBackground, Lifecycle!BeginFlush, Lifecycle!EndFlush, Lifecycle!Expire
<1>2. ASSUME /\ active' \in Nat /\ task' \in [T -> {"unused", "begun", "ended"}]
             /\ \A k \in T : task'[k] = "begun" => active' = k
      PROVE  LifecycleInv'
  BY <1>1, <1>2 DEF LifecycleInv, Lifecycle!Tasks
<1>3. /\ active \in Nat /\ task \in [T -> {"unused", "begun", "ended"}]
      /\ \A k \in T : task[k] = "begun" => active = k
  BY DEF LifecycleInv
<1>4. \A k \in T : k \in Nat /\ k # 0
  BY DEF Lifecycle!Tasks
<1> HIDE DEF T
<1>5. ASSUME NEW k \in T, active = 0, active' = k, task' = [task EXCEPT ![k] = "begun"]
      PROVE  LifecycleInv'
  <2>1. task' \in [T -> {"unused", "begun", "ended"}] /\ \A j \in T : j # k => task'[j] = task[j]
    BY <1>3, <1>5
  <2>2. \A j \in T : task'[j] = "begun" => active' = j
    BY <1>3, <1>4, <1>5, <2>1
  <2> QED BY <1>2, <1>4, <1>5, <2>1, <2>2
<1>6. ASSUME NEW k \in T, Lifecycle!End(k) PROVE LifecycleInv'
  <2>1. task' = [task EXCEPT ![k] = "ended"] /\ active' = IF active = k THEN 0 ELSE active
    BY <1>6 DEF Lifecycle!End
  <2>2. /\ task' \in [T -> {"unused", "begun", "ended"}] /\ task'[k] = "ended"
        /\ \A j \in T : j # k => task'[j] = task[j]
    BY <1>3, <2>1
  <2>3. active' \in Nat
    BY <1>3, <2>1
  <2>4. \A j \in T : task'[j] = "begun" => active' = j
    BY <1>3, <2>1, <2>2
  <2> QED BY <1>2, <2>2, <2>3, <2>4
<1>7. CASE Lifecycle!FlushInBackground
  BY <1>5, <1>7 DEF Lifecycle!FlushInBackground, T
<1>8. ASSUME NEW k \in T, Lifecycle!BeginFlush(k) PROVE LifecycleInv'
  BY <1>2, <1>3, <1>8 DEF Lifecycle!BeginFlush
<1>9. ASSUME NEW k \in T, Lifecycle!EndFlush(k) \/ Lifecycle!Expire(k) PROVE LifecycleInv'
  BY <1>6, <1>9 DEF Lifecycle!EndFlush, Lifecycle!Expire
<1> QED BY <1>7, <1>8, <1>9 DEF T

\* One step of the observer.
LEMMA LifecyclePreserved ==
  ASSUME LifecycleInv, [Lifecycle!Next]_(Lifecycle!vars)
  PROVE  LifecycleInv'
<1>1. CASE UNCHANGED Lifecycle!vars
  BY <1>1 DEF Lifecycle!vars, LifecycleInv, Lifecycle!Tasks
<1> QED BY <1>1, RegistrationsPreserved, TasksPreserved DEF Lifecycle!Next

\* The invariant says what the properties say.
LEMMA LifecycleInvSound == LifecycleInv => Lifecycle!LifecycleSound
<1>1. LifecycleInv => Lifecycle!NoLostRegistration
  BY DEF LifecycleInv, Lifecycle!NoLostRegistration
<1>2. LifecycleInv => Lifecycle!OneBackgroundTask
  BY DEF LifecycleInv, Lifecycle!OneBackgroundTask
<1> QED BY <1>1, <1>2 DEF Lifecycle!LifecycleSound

\* However calls of start and stop, notifications, expirations and flushes interleave,
\* the notification centre holds no registration the observer cannot take back, and one
\* background task is open at most.
THEOREM LifecycleSoundHolds == Lifecycle!Spec => []Lifecycle!LifecycleSound
<1>1. Lifecycle!Init => LifecycleInv
  BY LifecycleInit
<1>2. LifecycleInv /\ [Lifecycle!Next]_(Lifecycle!vars) => LifecycleInv'
  BY LifecyclePreserved
<1>3. Lifecycle!Spec => Lifecycle!Init /\ [][Lifecycle!Next]_(Lifecycle!vars)
  BY PTL DEF Lifecycle!Spec
<1> QED BY <1>1, <1>2, <1>3, LifecycleInvSound, PTL
=============================================================================
