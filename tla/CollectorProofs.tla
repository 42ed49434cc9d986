--------------------------- MODULE CollectorProofs --------------------------
(***************************************************************************)
(* The collector with its in-memory cache implements EventClaims and is    *)
(* safe, for every set of threads, events and requests and every bound.    *)
(*                                                                         *)
(* The cache knows that an id is in flight but not who claimed it.  That   *)
(* claims are exclusive follows from NoClaimLeftBehind, in both            *)
(* directions: an id a thread handles is in flight, so nobody else claims  *)
(* it; and it stays so, since only the thread that handles it takes it out *)
(* (Exclusive).  The second part rests on it: that answers are in order    *)
(* needs the results and the items left to do to make up the accepted ones *)
(* (InOrder), and that a promise is kept needs every status that stands    *)
(* for an outcome, and every entry of the cache, to have had one, and      *)
(* in_progress to rest on an attempt that is on record (Honest).           *)
(*                                                                         *)
(* The last sections are about the endpoint and the rate limiter in front  *)
(* of the collector.  The header and the path a request really took agree, *)
(* from the right, for as many places as there were proxies                *)
(* (HeaderFollowsPath).  A bucket and its grants are one account (Fits,    *)
(* Used), by a time that counts what the bucket was set back.              *)
(***************************************************************************)
EXTENDS Collector, ClientCharge, SequenceTheorems, FiniteSetTheorems, TLAPS

\* What a thread has in hand.
Thread == [step : {"idle", "next", "claimed", "settle"}, request : Seq(Requests),
           todo : Seq(Item), results : Seq([id : Events, status : Statuses]),
           outcome : Statuses \cup {"none"}]

\* The states of a thread that matter to claims.
ThreadsTyped ==
  /\ worker \in [Workers -> Thread]
  /\ \A w \in Workers : /\ worker[w].step \in {"claimed", "settle"} => worker[w].todo # <<>>
                        /\ worker[w].step = "settle" => worker[w].outcome \in Statuses

CacheTyped == now \in Nat /\ completed \in [Events -> Nat] /\ inflight \subseteq Events

\* No two threads handle one event.
Exclusive ==
  \A e \in Events : \A v, w \in Workers : Handles(v, e) /\ Handles(w, e) => v = w

Inv == ThreadsTyped /\ CacheTyped /\ NoClaimLeftBehind /\ Exclusive

-----------------------------------------------------------------------------
(* What steps of a thread do to the claims.                                *)

\* The first of the items that are left, and the rest.
LEMMA HeadOfItems ==
  ASSUME NEW s \in Seq(Item), s # <<>>
  PROVE  Head(s) \in Item /\ Head(s).id \in Events /\ Tail(s) \in Seq(Item)
<1>1. Head(s) \in Item /\ Tail(s) \in Seq(Item)
  BY HeadTailProperties
<1> QED BY <1>1 DEF Item

\* A thread without a request is well formed.
LEMMA NoRequestTyped == NoRequest \in Thread
<1>1. <<>> \in Seq(Requests) /\ <<>> \in Seq(Item) /\ <<>> \in Seq([id : Events, status : Statuses])
  OBVIOUS
<1> QED BY <1>1 DEF NoRequest, Thread

\* validate_batch's accepted items, in the order of the request.
LEMMA AcceptedFacts ==
  ASSUME NEW items \in Seq(Item)
  PROVE  /\ Accepted(items) \in Seq(Item)
         /\ \A i \in 1 .. Len(items) : items[i].is # "invalid" =>
              LET c == Cardinality({j \in 1 .. i : items[j].is # "invalid"})
              IN  c \in 1 .. Len(Accepted(items)) /\ Accepted(items)[c] = items[i]
<1> DEFINE K == {x \in Elements(items) : x.is # "invalid"}
<1>1. Accepted(items) = Filtered(items, K)
  BY DEF Accepted
<1>2. ASSUME NEW j \in 1 .. Len(items) PROVE items[j] \in K <=> items[j].is # "invalid"
  BY DEF Elements
<1> HIDE DEF K
<1>3. Filtered(items, K) \in Seq(Item)
  BY FilteredFacts
<1>4. ASSUME NEW i \in 1 .. Len(items), items[i].is # "invalid"
      PROVE  LET c == Cardinality({j \in 1 .. i : items[j].is # "invalid"})
             IN  c \in 1 .. Len(Filtered(items, K)) /\ Filtered(items, K)[c] = items[i]
  <2>1. 1 .. i \subseteq 1 .. Len(items)
    OBVIOUS
  <2>2. {j \in 1 .. i : items[j].is # "invalid"} = {j \in 1 .. i : items[j] \in K}
    BY <1>2, <2>1
  <2>3. items[i] \in K
    BY <1>2, <1>4
  <2>4. Place(items, K, i) \in 1 .. Len(Filtered(items, K)) /\ Filtered(items, K)[Place(items, K, i)] = items[i]
    BY <2>3, FilteredIndex
  <2>5. Place(items, K, i) = Cardinality({j \in 1 .. i : items[j].is # "invalid"})
    BY <2>2 DEF Place
  <2> QED BY <2>4, <2>5
<1> QED BY <1>1, <1>3, <1>4

\* The thread has put a status down and gone on.
LEMMA NotedTyped ==
  ASSUME ThreadsTyped, NEW w \in Workers, NEW status \in Statuses,
         worker[w].todo # <<>>, worker' = Noted(w, status)
  PROVE  /\ ThreadsTyped'
         /\ worker'[w].step = "next"
         /\ \A v \in Workers \ {w} : worker'[v] = worker[v]
<1> DEFINE r == [id |-> Head(worker[w].todo).id, status |-> status]
<1>1. worker \in [Workers -> Thread] /\ worker[w].todo \in Seq(Item)
      /\ worker[w].results \in Seq([id : Events, status : Statuses])
  BY DEF ThreadsTyped, Thread
<1>2. Tail(worker[w].todo) \in Seq(Item) /\ r \in [id : Events, status : Statuses]
  BY <1>1, HeadOfItems
<1>3. worker' = [worker EXCEPT ![w] =
                   [worker[w] EXCEPT !.step = "next", !.todo = Tail(worker[w].todo),
                                     !.results = Append(worker[w].results, r)]]
  BY <1>1 DEF Noted, Thread
<1>4. Append(worker[w].results, r) \in Seq([id : Events, status : Statuses])
  BY <1>1, <1>2, AppendProperties
<1>5. worker' \in [Workers -> Thread]
  <2>1. ASSUME NEW x \in Thread, NEW t \in Seq(Item),
               NEW u \in Seq([id : Events, status : Statuses])
        PROVE  [x EXCEPT !.step = "next", !.todo = t, !.results = u] \in Thread
    BY DEF Thread
  <2>2. [worker[w] EXCEPT !.step = "next", !.todo = Tail(worker[w].todo),
                          !.results = Append(worker[w].results, r)] \in Thread
    BY <1>1, <1>2, <1>4, <2>1
  <2> QED BY <1>1, <1>3, <2>2
<1>6. worker'[w].step = "next" /\ \A v \in Workers \ {w} : worker'[v] = worker[v]
  BY <1>1, <1>3 DEF Thread
<1> QED BY <1>5, <1>6 DEF ThreadsTyped

\* A thread that handled nothing and handles nothing changes no claim.
LEMMA NothingHandled ==
  ASSUME NEW w \in Workers,
         worker[w].step \notin {"claimed", "settle"}, worker'[w].step \notin {"claimed", "settle"},
         \A v \in Workers \ {w} : worker'[v] = worker[v]
  PROVE  \A e \in Events, v \in Workers : Handles(v, e)' <=> Handles(v, e)
BY DEF Handles, Current

\* What the invariant says of claims depends on who handles what, and on inflight.
LEMMA SameHandlers ==
  ASSUME Inv, inflight' = inflight,
         \A e \in Events, v \in Workers : Handles(v, e)' <=> Handles(v, e)
  PROVE  NoClaimLeftBehind' /\ Exclusive'
BY DEF Inv, NoClaimLeftBehind, Exclusive

\* The thread that handles an event gives it up.
LEMMA GivenUp ==
  ASSUME Inv, NEW w \in Workers, worker[w].step = "settle",
         worker'[w].step = "next", \A v \in Workers \ {w} : worker'[v] = worker[v],
         inflight' = inflight \ {Current(w).id}
  PROVE  /\ Current(w).id \in Events /\ Handles(w, Current(w).id)
         /\ \A e \in Events, v \in Workers :
              Handles(v, e)' <=> Handles(v, e) /\ v # w
         /\ NoClaimLeftBehind' /\ Exclusive'
<1>1. Current(w).id \in Events /\ Handles(w, Current(w).id)
  BY HeadOfItems DEF Inv, ThreadsTyped, Thread, Current, Handles
<1>2. \A e \in Events, v \in Workers : Handles(v, e)' <=> Handles(v, e) /\ v # w
  BY DEF Handles, Current
<1>3. \A e \in Events : Handles(w, e) => e = Current(w).id
  BY DEF Handles
<1> QED BY <1>1, <1>2, <1>3 DEF Inv, NoClaimLeftBehind, Exclusive

\* Claim either answers at once or puts the event in flight.
LEMMA ClaimStep ==
  ASSUME Inv, NEW w \in Workers, Claim(w)
  PROVE  \/ /\ worker' = Noted(w, "duplicate") \/ worker' = Noted(w, "in_progress")
            /\ inflight' = inflight
         \/ /\ worker' = [worker EXCEPT ![w].step = "claimed"]
            /\ inflight' = inflight \cup {Current(w).id}
            /\ Current(w).id \notin inflight /\ Purged[Current(w).id] = 0
<1> DEFINE e == Current(w).id
<1>1. CASE Purged[e] # 0
  BY <1>1 DEF Claim
<1>2. CASE Purged[e] = 0 /\ e \in inflight
  BY <1>2 DEF Claim
<1>3. CASE Purged[e] = 0 /\ e \notin inflight
  BY <1>3 DEF Claim
<1> QED BY <1>1, <1>2, <1>3

\* A claim puts one event in flight, which nobody handled.
LEMMA Claimed ==
  ASSUME Inv, NEW w \in Workers, worker[w].step = "next", worker[w].todo # <<>>,
         worker' = [worker EXCEPT ![w].step = "claimed"],
         inflight' = inflight \cup {Current(w).id}, Current(w).id \notin inflight
  PROVE  /\ Current(w).id \in Events
         /\ \A v \in Workers : ~Handles(v, Current(w).id)
         /\ \A e \in Events, v \in Workers :
              Handles(v, e)' <=> Handles(v, e) \/ (v = w /\ e = Current(w).id)
         /\ ThreadsTyped' /\ NoClaimLeftBehind' /\ Exclusive'
<1>1. Current(w).id \in Events /\ \A v \in Workers : ~Handles(v, Current(w).id)
  BY HeadOfItems DEF Inv, ThreadsTyped, Thread, Current, NoClaimLeftBehind
<1>2. /\ worker'[w].step = "claimed" /\ worker'[w].todo = worker[w].todo
      /\ \A v \in Workers \ {w} : worker'[v] = worker[v]
  BY DEF Inv, ThreadsTyped, Thread
<1>3. \A e \in Events, v \in Workers :
        Handles(v, e)' <=> Handles(v, e) \/ (v = w /\ e = Current(w).id)
  BY <1>2 DEF Handles, Current
<1>4. ThreadsTyped'
  <2>1. ASSUME NEW x \in Thread PROVE [x EXCEPT !.step = "claimed"] \in Thread
    BY DEF Thread
  <2>2. worker' \in [Workers -> Thread]
    BY <2>1 DEF Inv, ThreadsTyped
  <2> QED BY <1>2, <2>2 DEF Inv, ThreadsTyped
<1> QED BY <1>1, <1>3, <1>4 DEF Inv, NoClaimLeftBehind, Exclusive

-----------------------------------------------------------------------------
(* Every step keeps the invariant and is a step of EventClaims. *)

\* The claimant of an event with one handler is that handler.
LEMMA OnlyOne == ASSUME NEW w PROVE TheOnly({w}) = w
BY DEF TheOnly

\* Who claims what follows from who handles what.
LEMMA SameClaimants ==
  ASSUME \A e \in Events, v \in Workers : Handles(v, e)' <=> Handles(v, e)
  PROVE  Claimant' = Claimant
<1>1. ASSUME NEW e \in Events PROVE Handlers(e)' = Handlers(e)
  BY DEF Handlers
<1> QED BY <1>1 DEF Claimant

\* A step that leaves handlers alone and remembers nothing new.
LEMMA Forgets ==
  ASSUME \A e \in Events, v \in Workers : Handles(v, e)' <=> Handles(v, e),
         CacheTyped, \A e \in Events : completed'[e] # 0 => completed[e] # 0
  PROVE  Claims!Next
<1>1. Remembered' \subseteq Remembered
  BY DEF Remembered
<1> QED BY <1>1, SameClaimants DEF Claims!Next, Claims!Forget

\* _purge leaves a table that holds no new event.
LEMMA PurgedTyped ==
  ASSUME CacheTyped
  PROVE  /\ Purged \in [Events -> Nat]
         /\ \A e \in Events : Purged[e] # 0 => completed[e] # 0
BY DEF CacheTyped, Purged

\* Eviction leaves a table that holds no new event.
LEMMA EvictedTyped ==
  ASSUME NEW table \in [Events -> Nat]
  PROVE  /\ Evicted(table) \in [Events -> Nat]
         /\ \A e \in Events : Evicted(table)[e] # 0 => table[e] # 0
<1> DEFINE known == {e \in Events : table[e] # 0}
           oldest == CHOOSE e \in known : \A f \in known : table[e] <= table[f]
<1>1. Evicted(table) = table \/ Evicted(table) = [table EXCEPT ![oldest] = 0]
  BY DEF Evicted
<1> HIDE DEF oldest
<1> QED BY <1>1

\* A request is received: nobody claims or gives up an event.
LEMMA ReceiveStep ==
  ASSUME CollectorAssumption, Inv, NEW w \in Workers, NEW r \in Requests, Receive(w, r)
  PROVE  Inv' /\ UNCHANGED ClaimState
<1>1. worker' = [worker EXCEPT ![w] =
                   [step |-> "next", request |-> <<r>>, todo |-> Accepted(r.items),
                    results |-> <<>>, outcome |-> "none"]]
  BY DEF Receive
<1>2. Accepted(r.items) \in Seq(Item)
  BY AcceptedFacts DEF CollectorAssumption
<1>3. [step |-> "next", request |-> <<r>>, todo |-> Accepted(r.items),
       results |-> <<>>, outcome |-> "none"] \in Thread
  <2>1. <<r>> \in Seq(Requests) /\ <<>> \in Seq([id : Events, status : Statuses])
    OBVIOUS
  <2> QED BY <1>2, <2>1 DEF Thread
<1>4. worker'[w].step = "next" /\ \A v \in Workers \ {w} : worker'[v] = worker[v]
  BY <1>1 DEF Inv, ThreadsTyped
<1>5. ThreadsTyped'
  <2>1. worker' \in [Workers -> Thread]
    BY <1>1, <1>3 DEF Inv, ThreadsTyped
  <2> QED BY <1>4, <2>1 DEF Inv, ThreadsTyped
<1>6. \A e \in Events, v \in Workers : Handles(v, e)' <=> Handles(v, e)
  BY <1>4, NothingHandled DEF Receive
<1>7. CacheTyped' /\ Remembered' = Remembered /\ inflight' = inflight
  BY DEF Inv, CacheTyped, Remembered, Receive
<1> QED BY <1>5, <1>6, <1>7, SameHandlers, SameClaimants DEF Inv, ClaimState

\* A status is put down without a claim.
LEMMA NotedStep ==
  ASSUME Inv, NEW w \in Workers, NEW status \in Statuses, worker[w].step = "next",
         worker[w].todo # <<>>, worker' = Noted(w, status), inflight' = inflight
  PROVE  /\ ThreadsTyped' /\ NoClaimLeftBehind' /\ Exclusive'
         /\ \A e \in Events, v \in Workers : Handles(v, e)' <=> Handles(v, e)
<1>1. ThreadsTyped' /\ worker'[w].step = "next" /\ \A v \in Workers \ {w} : worker'[v] = worker[v]
  BY NotedTyped DEF Inv
<1>2. \A e \in Events, v \in Workers : Handles(v, e)' <=> Handles(v, e)
  BY <1>1, NothingHandled
<1> QED BY <1>1, <1>2, SameHandlers

\* A foreign event is turned away without a claim.
LEMMA RejectForeignStep ==
  ASSUME Inv, NEW w \in Workers, RejectForeign(w)
  PROVE  Inv' /\ UNCHANGED ClaimState
<1>1. "rejected" \in Statuses
  BY DEF Statuses
<1>2. /\ ThreadsTyped' /\ NoClaimLeftBehind' /\ Exclusive'
      /\ \A e \in Events, v \in Workers : Handles(v, e)' <=> Handles(v, e)
  BY <1>1, NotedStep DEF RejectForeign
<1>3. CacheTyped' /\ Remembered' = Remembered
  BY DEF Inv, CacheTyped, Remembered, RejectForeign
<1> QED BY <1>2, <1>3, SameClaimants DEF Inv, ClaimState

\* A claim of an event nobody handled makes its thread the claimant.
LEMMA TakenClaimant ==
  ASSUME NEW w \in Workers, NEW e \in Events, \A v \in Workers : ~Handles(v, e),
         \A f \in Events, v \in Workers : Handles(v, f)' <=> Handles(v, f) \/ (v = w /\ f = e)
  PROVE  Claimant' = [Claimant EXCEPT ![e] = w]
<1>1. Handlers(e)' = {w}
  BY DEF Handlers
<1>2. \A f \in Events \ {e} : Handlers(f)' = Handlers(f)
  BY DEF Handlers
<1> QED BY <1>1, <1>2, OnlyOne DEF Claimant

\* DedupeCache.claim is a claim of EventClaims, or forgets what expired.
LEMMA ClaimStepKeeps ==
  ASSUME Inv, NEW w \in Workers, Claim(w)
  PROVE  Inv' /\ Claims!Next
<1> DEFINE e == Current(w).id
<1>1. /\ worker[w].step = "next" /\ worker[w].todo # <<>>
      /\ completed' = Purged /\ now' = now
  BY DEF Claim
<1>2. CASE /\ worker' = Noted(w, "duplicate") \/ worker' = Noted(w, "in_progress")
           /\ inflight' = inflight
  <2>1. "duplicate" \in Statuses /\ "in_progress" \in Statuses
    BY DEF Statuses
  <2>2. /\ ThreadsTyped' /\ NoClaimLeftBehind' /\ Exclusive'
        /\ \A f \in Events, v \in Workers : Handles(v, f)' <=> Handles(v, f)
    BY <1>1, <1>2, <2>1, NotedStep
  <2>3. CacheTyped' /\ \A f \in Events : completed'[f] # 0 => completed[f] # 0
    BY <1>1, <1>2, PurgedTyped DEF Inv, CacheTyped
  <2>4. Claims!Next
    BY <2>2, <2>3, Forgets DEF Inv
  <2> QED BY <2>2, <2>3, <2>4 DEF Inv
<1>3. CASE /\ worker' = [worker EXCEPT ![w].step = "claimed"] /\ inflight' = inflight \cup {e}
           /\ e \notin inflight /\ Purged[e] = 0
  <2>1. /\ e \in Events /\ \A v \in Workers : ~Handles(v, e)
        /\ \A f \in Events, v \in Workers : Handles(v, f)' <=> Handles(v, f) \/ (v = w /\ f = e)
        /\ ThreadsTyped' /\ NoClaimLeftBehind' /\ Exclusive'
    BY <1>1, <1>3, Claimed
  <2>2. CacheTyped' /\ Remembered' \subseteq Remembered \ {e}
    BY <1>1, <1>3, <2>1, PurgedTyped DEF Inv, CacheTyped, Remembered
  <2>3. Claimant[e] = Nobody
    BY <2>1 DEF Claimant, Handlers, TheOnly
  <2>4. Claimant' = [Claimant EXCEPT ![e] = w]
    BY <2>1, TakenClaimant
  <2> HIDE DEF e
  <2>5. Claims!Next
    BY <2>1, <2>2, <2>3, <2>4 DEF Claims!Next, Claims!Claim
  <2> QED BY <2>1, <2>2, <2>5 DEF Inv
<1> QED BY <1>2, <1>3, ClaimStep

\* The forwarder answers: the claim stays.
LEMMA ForwardStep ==
  ASSUME Inv, NEW w \in Workers, NEW outcome \in Statuses, Forward(w, outcome)
  PROVE  Inv' /\ UNCHANGED ClaimState
<1>1. worker' = [worker EXCEPT ![w] = [worker[w] EXCEPT !.step = "settle", !.outcome = outcome]]
  BY DEF Forward, Inv, ThreadsTyped, Thread
<1>2. /\ worker'[w].step = "settle" /\ worker'[w].outcome = outcome
      /\ worker'[w].todo = worker[w].todo
      /\ \A v \in Workers \ {w} : worker'[v] = worker[v]
  BY <1>1 DEF Inv, ThreadsTyped, Thread
<1>3. ThreadsTyped'
  <2>1. ASSUME NEW x \in Thread PROVE [x EXCEPT !.step = "settle", !.outcome = outcome] \in Thread
    BY DEF Thread
  <2>2. worker' \in [Workers -> Thread]
    BY <1>1, <2>1 DEF Inv, ThreadsTyped
  <2> QED BY <1>2, <2>2 DEF Inv, ThreadsTyped, Forward
<1>4. \A e \in Events, v \in Workers : Handles(v, e)' <=> Handles(v, e)
  BY <1>2 DEF Handles, Current, Forward
<1>5. CacheTyped' /\ Remembered' = Remembered /\ inflight' = inflight
  BY DEF Inv, CacheTyped, Remembered, Forward
<1> QED BY <1>3, <1>4, <1>5, SameHandlers, SameClaimants DEF Inv, ClaimState

\* Handing an event back, remembered or not, frees it for others and nothing else.
LEMMA FreedClaimant ==
  ASSUME Inv, NEW w \in Workers, NEW e \in Events, Handles(w, e),
         \A f \in Events, v \in Workers : Handles(v, f)' <=> Handles(v, f) /\ v # w
  PROVE  Claimant[e] = w /\ Claimant' = [Claimant EXCEPT ![e] = Nobody]
<1>1. Handlers(e) = {w} /\ Handlers(e)' = {}
  BY DEF Inv, Exclusive, Handlers
<1>2. \A f \in Events \ {e} : Handlers(f)' = Handlers(f)
  BY DEF Handlers, Handles
<1>3. TheOnly({}) = Nobody
  BY DEF TheOnly
<1> QED BY <1>1, <1>2, <1>3, OnlyOne DEF Claimant

\* DedupeCache.complete ends the claim and may remember the event.
LEMMA CompleteStep ==
  ASSUME CollectorAssumption, Inv, NEW w \in Workers, Complete(w)
  PROVE  Inv' /\ Claims!Next
<1> DEFINE e == Current(w).id
           table == [completed EXCEPT ![e] = now + Ttl]
<1>1. worker[w].outcome \in Statuses /\ worker[w].todo # <<>> /\ worker[w].step = "settle"
  BY DEF Complete, Inv, ThreadsTyped
<1>2. ThreadsTyped' /\ worker'[w].step = "next" /\ \A v \in Workers \ {w} : worker'[v] = worker[v]
  BY <1>1, NotedTyped DEF Complete, Inv
<1>3. /\ e \in Events /\ Handles(w, e)
      /\ \A f \in Events, v \in Workers : Handles(v, f)' <=> Handles(v, f) /\ v # w
      /\ NoClaimLeftBehind' /\ Exclusive'
  BY <1>1, <1>2, GivenUp DEF Complete
<1>4. table \in [Events -> Nat]
  BY <1>3 DEF CollectorAssumption, Inv, CacheTyped
<1>5. /\ completed' \in [Events -> Nat]
      /\ \A f \in Events : completed'[f] # 0 => table[f] # 0
  BY <1>4, EvictedTyped DEF Complete
<1>6. CacheTyped' /\ Remembered' \subseteq Remembered \cup {e}
  BY <1>3, <1>5 DEF Inv, CacheTyped, Remembered, Complete
<1>7. Claimant[e] = w /\ Claimant' = [Claimant EXCEPT ![e] = Nobody]
  BY <1>3, FreedClaimant
<1> HIDE DEF e
<1>8. Claims!Next
  BY <1>3, <1>6, <1>7 DEF Claims!Next, Claims!Complete
<1> QED BY <1>2, <1>3, <1>6, <1>8 DEF Inv

\* DedupeCache.release ends the claim.
LEMMA ReleaseStep ==
  ASSUME Inv, NEW w \in Workers, Release(w)
  PROVE  Inv' /\ Claims!Next
<1> DEFINE e == Current(w).id
<1>1. "transient_error" \in Statuses /\ worker[w].todo # <<>> /\ worker[w].step = "settle"
  BY DEF Release, Inv, ThreadsTyped, Statuses
<1>2. ThreadsTyped' /\ worker'[w].step = "next" /\ \A v \in Workers \ {w} : worker'[v] = worker[v]
  BY <1>1, NotedTyped DEF Release, Inv
<1>3. /\ e \in Events /\ Handles(w, e)
      /\ \A f \in Events, v \in Workers : Handles(v, f)' <=> Handles(v, f) /\ v # w
      /\ NoClaimLeftBehind' /\ Exclusive'
  BY <1>1, <1>2, GivenUp DEF Release
<1>4. CacheTyped' /\ Remembered' = Remembered
  BY DEF Inv, CacheTyped, Remembered, Release
<1>5. Claimant[e] = w /\ Claimant' = [Claimant EXCEPT ![e] = Nobody]
  BY <1>3, FreedClaimant
<1> HIDE DEF e
<1>6. Claims!Next
  BY <1>3, <1>4, <1>5 DEF Claims!Next, Claims!Release
<1> QED BY <1>2, <1>3, <1>4, <1>6 DEF Inv

\* The answer goes out: the thread handled nothing.
LEMMA AnswerStep ==
  ASSUME Inv, NEW w \in Workers, Answer(w)
  PROVE  Inv' /\ UNCHANGED ClaimState
<1>1. worker'[w].step = "idle" /\ \A v \in Workers \ {w} : worker'[v] = worker[v]
  BY DEF Answer, NoRequest, Inv, ThreadsTyped
<1>2. ThreadsTyped'
  <2>1. worker' \in [Workers -> Thread]
    BY NoRequestTyped DEF Answer, Inv, ThreadsTyped
  <2> QED BY <1>1, <2>1 DEF Inv, ThreadsTyped
<1>3. \A e \in Events, v \in Workers : Handles(v, e)' <=> Handles(v, e)
  BY <1>1, NothingHandled DEF Answer
<1>4. CacheTyped' /\ Remembered' = Remembered /\ inflight' = inflight
  BY DEF Inv, CacheTyped, Remembered, Answer
<1> QED BY <1>2, <1>3, <1>4, SameHandlers, SameClaimants DEF Inv, ClaimState

\* Time passes.
LEMMA TickStep ==
  ASSUME Inv, Tick
  PROVE  Inv' /\ UNCHANGED ClaimState
<1>1. ThreadsTyped'
  BY DEF Tick, Inv, ThreadsTyped
<1>2. CacheTyped' /\ Remembered' = Remembered
  BY DEF Tick, Inv, CacheTyped, Remembered
<1>3. \A e \in Events, v \in Workers : Handles(v, e)' <=> Handles(v, e)
  BY DEF Tick, Handles, Current
<1> QED BY <1>1, <1>2, <1>3, SameHandlers, SameClaimants DEF Inv, ClaimState, Tick

\* A restart loses every claim and all that is remembered.
LEMMA RestartStep ==
  ASSUME Inv, Restart
  PROVE  Inv' /\ Claims!Next
<1>1. ThreadsTyped' /\ CacheTyped' /\ Remembered' = {}
  BY NoRequestTyped DEF Restart, Inv, NoRequest, ThreadsTyped, CacheTyped, Remembered
<1>2. \A e \in Events, v \in Workers : ~Handles(v, e)'
  BY DEF Restart, Handles, NoRequest
<1>3. NoClaimLeftBehind' /\ Exclusive'
  BY <1>2 DEF Restart, NoClaimLeftBehind, Exclusive
<1>4. Claimant' = [e \in Events |-> Nobody]
  BY <1>2 DEF Claimant, Handlers, TheOnly
<1> QED BY <1>1, <1>3, <1>4 DEF Inv, Claims!Next, Claims!Reset

\* Nothing happens.
LEMMA StutterStep ==
  ASSUME Inv, UNCHANGED vars
  PROVE  Inv' /\ UNCHANGED ClaimState
<1>1. ThreadsTyped' /\ CacheTyped' /\ Remembered' = Remembered
  BY DEF vars, Inv, ThreadsTyped, CacheTyped, Remembered
<1>2. \A e \in Events, v \in Workers : Handles(v, e)' <=> Handles(v, e)
  BY DEF vars, Handles, Current
<1> QED BY <1>1, <1>2, SameHandlers, SameClaimants DEF Inv, ClaimState, vars

-----------------------------------------------------------------------------
LEMMA InitClaims == Init => Inv /\ Claims!Init
<1> SUFFICES ASSUME Init PROVE Inv /\ Claims!Init
  OBVIOUS
<1>1. ThreadsTyped /\ CacheTyped /\ Remembered = {}
  BY NoRequestTyped DEF Init, NoRequest, ThreadsTyped, CacheTyped, Remembered
<1>2. \A e \in Events, v \in Workers : ~Handles(v, e)
  BY DEF Init, Handles, NoRequest
<1>3. NoClaimLeftBehind /\ Exclusive
  BY <1>2 DEF Init, NoClaimLeftBehind, Exclusive
<1>4. Claimant = [e \in Events |-> Nobody]
  BY <1>2 DEF Claimant, Handlers, TheOnly
<1> QED BY <1>1, <1>3, <1>4 DEF Inv, Claims!Init

\* Every step keeps the invariant and is a step of EventClaims or leaves it alone.
LEMMA StepClaims ==
  ASSUME CollectorAssumption, Inv, [Next]_vars
  PROVE  Inv' /\ [Claims!Next]_<<Claimant, Remembered>>
<1>1. ASSUME NEW w \in Workers, NEW r \in Requests, Receive(w, r)
      PROVE  Inv' /\ UNCHANGED ClaimState
  BY <1>1, ReceiveStep
<1>2. ASSUME NEW w \in Workers,
             RejectForeign(w) \/ Answer(w) \/ \E outcome \in Statuses : Forward(w, outcome)
      PROVE  Inv' /\ UNCHANGED ClaimState
  BY <1>2, RejectForeignStep, AnswerStep, ForwardStep
<1>3. ASSUME NEW w \in Workers, Claim(w) \/ Complete(w) \/ Release(w)
      PROVE  Inv' /\ Claims!Next
  BY <1>3, ClaimStepKeeps, CompleteStep, ReleaseStep
<1>4. CASE Tick \/ UNCHANGED vars
  BY <1>4, TickStep, StutterStep DEF ClaimState
<1>5. CASE Restart
  BY <1>5, RestartStep
<1> QED BY <1>1, <1>2, <1>3, <1>4, <1>5 DEF Next, ClaimState

\* Collection with the in-memory DedupeCache, for any threads, requests and times: an
\* id is in flight exactly while a thread of ingest_event or ingest_batch handles it.
THEOREM NoClaimLeftBehindHolds ==
  ASSUME CollectorAssumption
  PROVE  Spec => []NoClaimLeftBehind
<1>1. Inv /\ [Next]_vars => Inv'
  BY StepClaims
<1>2. Inv => NoClaimLeftBehind
  BY DEF Inv
<1> QED BY <1>1, <1>2, InitClaims, PTL DEF Spec

\* The collector implements EventClaims: an event is claimed by one thread at a time,
\* never while it is remembered, and every claim ends.
THEOREM ImplementsEventClaims ==
  ASSUME CollectorAssumption
  PROVE  Spec => ImplementsClaims
<1>1. Inv /\ [Next]_vars => Inv' /\ [Claims!Next]_<<Claimant, Remembered>>
  BY StepClaims
<1> QED BY <1>1, InitClaims, PTL DEF Spec, ImplementsClaims, Claims!Spec

-----------------------------------------------------------------------------
(* Results, promises and the size of the cache *)

Result == [id : Events, status : Statuses]

\* The results are those of the first of the accepted items, and the rest is to do.
OnCourse(accepted, todo, results) ==
  /\ Len(results) + Len(todo) = Len(accepted)
  /\ \A i \in 1 .. Len(results) : results[i].id = accepted[i].id
  /\ \A i \in 1 .. Len(todo) : todo[i] = accepted[Len(results) + i]

InOrder ==
  \A w \in Workers : worker[w].step # "idle" =>
    /\ worker[w].request # <<>>
    /\ OnCourse(Accepted(worker[w].request[1].items), worker[w].todo, worker[w].results)

\* Statuses that stand for a final outcome and are no rejection.
Final == Good \ Retryable

\* Events some thread has handled, or is handling.
Taken == settled \cup abandoned \cup inflight

\* A status of a final outcome rests on one, and in_progress on a thread at it.
Vouching(results, done, taken) ==
  \A i \in DOMAIN results :
    /\ results[i].status \in Final => results[i].id \in done
    /\ results[i].status = "in_progress" => results[i].id \in taken

\* What the cache remembers and what a thread has noted as done had a final outcome.
Honest ==
  /\ Remembered \subseteq settled
  /\ \A w \in Workers : Vouching(worker[w].results, settled, Taken)
  /\ PromisedIsSettled

CacheInv == IsFiniteSet(Remembered) /\ CacheBounded

SafeInv == InOrder /\ Honest /\ CacheInv

\* One more item is dealt with.
LEMMA OnCourseNext ==
  ASSUME NEW accepted \in Seq(Item), NEW todo \in Seq(Item), todo # <<>>,
         NEW results \in Seq(Result), NEW status \in Statuses, OnCourse(accepted, todo, results)
  PROVE  OnCourse(accepted, Tail(todo), Append(results, [id |-> Head(todo).id, status |-> status]))
<1> DEFINE x == [id |-> Head(todo).id, status |-> status]
           t == Tail(todo)
           u == Append(results, x)
<1>1. Head(todo) \in Item /\ Head(todo).id \in Events
  BY HeadOfItems
<1>2. x \in Result /\ x.id = Head(todo).id
  BY <1>1 DEF Result
<1> HIDE DEF x
<1>3. /\ Len(todo) \in Nat \ {0} /\ Len(results) \in Nat /\ Len(accepted) \in Nat /\ Head(todo) = todo[1]
      /\ Len(t) = Len(todo) - 1 /\ \A i \in 1 .. Len(t) : t[i] = todo[i + 1]
  BY HeadTailProperties
<1>4. /\ Len(u) = Len(results) + 1 /\ u[Len(results) + 1] = x
      /\ \A i \in 1 .. Len(results) : u[i] = results[i]
  BY <1>2, AppendProperties
<1> HIDE DEF t, u
<1>5. Len(u) + Len(t) = Len(accepted)
  <2>1. Len(results) + Len(todo) = Len(accepted)
    BY DEF OnCourse
  <2>2. Len(t) = Len(todo) - 1 /\ Len(u) = Len(results) + 1 /\ Len(todo) \in Nat /\ Len(results) \in Nat
    BY <1>3, <1>4
  <2> QED BY <2>1, <2>2
<1>6. ASSUME NEW i \in 1 .. Len(u) PROVE u[i].id = accepted[i].id
  <2>1. CASE i \in 1 .. Len(results)
    BY <1>4, <2>1 DEF OnCourse
  <2>2. CASE i = Len(results) + 1
    <3>1. 1 \in 1 .. Len(todo)
      BY <1>3
    <3>2. todo[1] = accepted[Len(results) + 1]
      BY <3>1 DEF OnCourse
    <3> QED BY <1>2, <1>3, <1>4, <2>2, <3>2
  <2> QED BY <1>3, <1>4, <2>1, <2>2
<1>7. ASSUME NEW i \in 1 .. Len(t) PROVE t[i] = accepted[Len(u) + i]
  <2>1. i + 1 \in 1 .. Len(todo) /\ Len(results) + (i + 1) = Len(u) + i
    BY <1>3, <1>4
  <2>2. todo[i + 1] = accepted[Len(results) + (i + 1)]
    BY <2>1 DEF OnCourse
  <2> QED BY <1>3, <2>1, <2>2
<1> QED BY <1>5, <1>6, <1>7 DEF OnCourse, t, u, x

\* What Noted changes.
LEMMA NotedFields ==
  ASSUME ThreadsTyped, NEW w \in Workers, NEW status \in Statuses, worker[w].todo # <<>>,
         worker' = Noted(w, status)
  PROVE  /\ worker'[w].request = worker[w].request /\ worker'[w].todo = Tail(worker[w].todo)
         /\ worker'[w].results =
              Append(worker[w].results, [id |-> Head(worker[w].todo).id, status |-> status])
         /\ \A v \in Workers \ {w} : worker'[v] = worker[v]
<1>1. worker \in [Workers -> Thread] /\ worker[w] \in Thread
  BY DEF ThreadsTyped
<1> DEFINE r == [id |-> Head(worker[w].todo).id, status |-> status]
           x == [worker[w] EXCEPT !.step = "next", !.todo = Tail(worker[w].todo),
                                  !.results = Append(worker[w].results, r)]
<1>2. worker' = [worker EXCEPT ![w] = x]
  BY <1>1 DEF Noted, Thread
<1>3. /\ x.request = worker[w].request /\ x.todo = Tail(worker[w].todo)
      /\ x.results = Append(worker[w].results, r)
  BY <1>1 DEF Thread
<1> HIDE DEF x
<1>4. worker'[w] = x /\ \A v \in Workers \ {w} : worker'[v] = worker[v]
  BY <1>1, <1>2
<1> QED BY <1>3, <1>4

\* A thread notes a status: what it has in hand stays in order and honest.
LEMMA NotedKeeps ==
  ASSUME CollectorAssumption, Inv, InOrder, \A v \in Workers : Vouching(worker[v].results, settled, Taken),
         NEW w \in Workers, NEW status \in Statuses, worker[w].step # "idle",
         worker[w].todo # <<>>, worker' = Noted(w, status), settled \subseteq settled',
         NEW taken, Taken \subseteq taken,
         status \in Final => Head(worker[w].todo).id \in settled',
         status = "in_progress" => Head(worker[w].todo).id \in taken
  PROVE  InOrder' /\ \A v \in Workers : Vouching(worker'[v].results, settled', taken)
<1> DEFINE r == [id |-> Head(worker[w].todo).id, status |-> status]
<1>1. /\ worker[w] \in Thread /\ worker[w].request \in Seq(Requests) /\ worker[w].todo \in Seq(Item)
      /\ worker[w].results \in Seq(Result) /\ ThreadsTyped
  BY DEF Inv, ThreadsTyped, Thread, Result
<1>2. /\ worker'[w].request = worker[w].request /\ worker'[w].todo = Tail(worker[w].todo)
      /\ worker'[w].results = Append(worker[w].results, r)
      /\ \A v \in Workers \ {w} : worker'[v] = worker[v]
  BY <1>1, NotedFields
<1>3. /\ worker[w].request # <<>>
      /\ OnCourse(Accepted(worker[w].request[1].items), worker[w].todo, worker[w].results)
  BY DEF InOrder
<1>4. worker[w].request[1] \in Requests
  BY <1>1, <1>3
<1>5. Accepted(worker[w].request[1].items) \in Seq(Item)
  BY <1>4, AcceptedFacts DEF CollectorAssumption
<1>6. OnCourse(Accepted(worker'[w].request[1].items), worker'[w].todo, worker'[w].results)
  BY <1>1, <1>2, <1>3, <1>5, OnCourseNext
<1>7. InOrder'
  BY <1>2, <1>3, <1>6 DEF InOrder
<1>8. r \in Result /\ r.status = status /\ r.id = Head(worker[w].todo).id
  BY <1>1, HeadOfItems DEF Result
<1> HIDE DEF r
<1>9. Vouching(worker'[w].results, settled', taken)
  <2> DEFINE u == Append(worker[w].results, r)
             n == Len(worker[w].results)
  <2>1. DOMAIN u = 1 .. n + 1 /\ DOMAIN worker[w].results = 1 .. n /\ n \in Nat
    BY <1>1, <1>8
  <2>2. u[n + 1] = r /\ \A i \in 1 .. n : u[i] = worker[w].results[i]
    BY <1>1, <1>8, AppendProperties
  <2>3. \A i \in 1 .. n + 1 : i \in 1 .. n \/ i = n + 1
    BY <2>1
  <2>4. worker'[w].results = u
    BY <1>2
  <2> HIDE DEF u, n
  <2> QED BY <1>8, <2>1, <2>2, <2>3, <2>4 DEF Vouching
<1>10. \A v \in Workers \ {w} : Vouching(worker'[v].results, settled', taken)
  BY <1>2 DEF Vouching
<1> QED BY <1>7, <1>9, <1>10

\* _purge only forgets.
LEMMA PurgedBounded ==
  ASSUME CollectorAssumption, CacheInv, completed' = Purged
  PROVE  CacheInv' /\ Remembered' \subseteq Remembered
<1>1. Remembered' \subseteq Remembered
  BY DEF Remembered, Purged
<1>2. IsFiniteSet(Remembered) /\ Cardinality(Remembered) <= Capacity /\ Capacity \in Nat
  BY DEF CacheInv, CacheBounded, Remembered, CollectorAssumption
<1>3. /\ IsFiniteSet(Remembered') /\ Cardinality(Remembered') \in Nat /\ Cardinality(Remembered) \in Nat
      /\ Cardinality(Remembered') <= Cardinality(Remembered)
  BY <1>1, <1>2, FS_Subset, FS_CardinalityType
<1>4. Cardinality(Remembered') <= Capacity
  BY <1>2, <1>3
<1> QED BY <1>1, <1>3, <1>4 DEF CacheInv, CacheBounded, Remembered

\* complete drops one entry when there is one too many.
LEMMA EvictedBounded ==
  ASSUME CollectorAssumption, CacheTyped, CacheInv, NEW e \in Events,
         completed' = Evicted([completed EXCEPT ![e] = now + Ttl])
  PROVE  CacheInv' /\ Remembered' \subseteq Remembered \cup {e}
<1> DEFINE table == [completed EXCEPT ![e] = now + Ttl]
           known == {f \in Events : table[f] # 0}
           oldest == CHOOSE f \in known : \A g \in known : table[f] <= table[g]
<1>1. now + Ttl \in Nat /\ now + Ttl # 0 /\ completed \in [Events -> Nat] /\ Capacity \in Nat
  BY DEF CacheTyped, CollectorAssumption
<1>2. table \in [Events -> Nat] /\ table[e] # 0 /\ \A f \in Events : f # e => table[f] = completed[f]
  BY <1>1
<1>3. completed' = IF Cardinality(known) <= Capacity THEN table ELSE [table EXCEPT ![oldest] = 0]
  BY DEF Evicted
<1> HIDE DEF table
<1>4. known = Remembered \cup {e}
  BY <1>2 DEF Remembered
<1>5. IsFiniteSet(Remembered) /\ Cardinality(Remembered) <= Capacity /\ Cardinality(Remembered) \in Nat
  BY FS_CardinalityType DEF CacheInv, CacheBounded, Remembered
<1>6. IsFiniteSet(known) /\ Cardinality(known) \in Nat /\ Cardinality(known) <= Capacity + 1
  <2>1. /\ IsFiniteSet(Remembered \cup {e})
        /\ Cardinality(Remembered \cup {e}) = Cardinality(Remembered)
             \/ Cardinality(Remembered \cup {e}) = Cardinality(Remembered) + 1
    BY <1>5, FS_AddElement
  <2> QED BY <1>1, <1>4, <1>5, <2>1
<1>7. CASE Cardinality(known) <= Capacity
  <2>1. Remembered' = known
    BY <1>3, <1>7 DEF Remembered
  <2> QED BY <1>4, <1>6, <1>7, <2>1 DEF CacheInv, CacheBounded, Remembered
<1>8. CASE ~ (Cardinality(known) <= Capacity)
  <2>1. oldest \in known
    <3> DEFINE Ages == {table[f] : f \in known}
    <3>1. e \in known /\ known \subseteq Events
      BY <1>2
    <3>2. Ages \subseteq Nat /\ Ages # {}
      BY <1>2, <3>1
    <3>3. PICK a \in Ages : \A b \in Ages : ~ (<<b, a>> \in OpToRel(<, Nat))
      <4> HIDE DEF Ages
      <4> QED BY <3>2, NatLessThanWellFounded, WFMin
    <3>4. PICK f \in known : a = table[f]
      BY <3>3
    <3>5. ASSUME NEW g \in known PROVE table[f] <= table[g]
      <4>1. table[g] \in Ages /\ table[g] \in Nat /\ a \in Nat
        BY <3>1, <3>2, <3>3, <1>2
      <4>2. ~ (<<table[g], a>> \in OpToRel(<, Nat))
        BY <3>3, <4>1
      <4>3. ~ (table[g] < a)
        BY <4>1, <4>2 DEF OpToRel
      <4> QED BY <3>4, <4>1, <4>3
    <3> HIDE DEF known
    <3> QED BY <3>4, <3>5
  <2> HIDE DEF oldest
  <2>2. Remembered' = known \ {oldest}
    BY <1>2, <1>3, <1>8, <2>1 DEF Remembered
  <2>3. IsFiniteSet(known \ {oldest}) /\ Cardinality(known \ {oldest}) = Cardinality(known) - 1
    BY <1>6, <2>1, FS_RemoveElement
  <2>4. Cardinality(known \ {oldest}) <= Capacity
    BY <1>1, <1>6, <2>3
  <2> QED BY <1>4, <2>2, <2>3, <2>4 DEF CacheInv, CacheBounded, Remembered
<1> QED BY <1>7, <1>8

\* What an answer promises had a final outcome, or is vouched for by a thread at it.
LEMMA AnswerSettled ==
  ASSUME NEW r \in Requests, NEW results, Vouching(results, settled, Taken)
  PROVE  \A e \in Promised(r, results) : e \in settled \/ (e \in Vouched(r, results) /\ e \in Taken)
<1>1. ASSUME r.single, NEW e \in Promised(r, results)
      PROVE  e \in settled \/ (e \in Vouched(r, results) /\ e \in Taken)
  <2>1. PICK i \in DOMAIN results : results[i].status \in Good /\ results[i].id = e
    BY <1>1 DEF Promised
  <2>2. CASE results[i].status = "in_progress"
    BY <1>1, <2>1, <2>2 DEF Vouching, Vouched
  <2>3. CASE results[i].status # "in_progress"
    BY <2>1, <2>3 DEF Vouching, Final, Good, Retryable
  <2> QED BY <2>2, <2>3
<1>2. ASSUME ~ r.single, NEW e \in Promised(r, results)
      PROVE  e \in settled
  <2>1. BatchStatus(r.items, results) = "accepted" /\ e \in {results[i].id : i \in DOMAIN results}
    BY <1>2 DEF Promised
  <2>2. \A i \in DOMAIN results : results[i].status \notin Retryable
    BY <2>1 DEF BatchStatus
  <2>3. \A i \in DOMAIN results : results[i].status \in Good
    BY <2>1, <2>2 DEF BatchStatus
  <2>4. \A i \in DOMAIN results : results[i].id \in settled
    BY <2>2, <2>3 DEF Vouching, Final
  <2> QED BY <2>1, <2>4
<1> QED BY <1>1, <1>2

\* The results in the order of the request are those of its items.
LEMMA OrderedAnswers ==
  ASSUME CollectorAssumption, Inv, InOrder
  PROVE  AnswersInOrder
<1> SUFFICES ASSUME NEW w \in Workers, worker[w].step = "next", worker[w].todo = <<>>
             PROVE  LET items == worker[w].request[1].items
                        reply == Ordered(items, worker[w].results)
                    IN /\ Len(reply) = Len(items)
                       /\ \A i \in DOMAIN items :
                            IF items[i].is = "invalid" THEN reply[i].status = "rejected"
                            ELSE reply[i].id = items[i].id
  BY DEF AnswersInOrder
<1> DEFINE items == worker[w].request[1].items
           results == worker[w].results
           reply == Ordered(items, results)
           A == Accepted(items)
<1>1. worker[w].request \in Seq(Requests) /\ results \in Seq(Result)
  BY DEF Inv, ThreadsTyped, Thread, Result
<1>2. worker[w].request # <<>> /\ OnCourse(A, <<>>, results)
  BY DEF InOrder
<1>3. items \in Seq(Item)
  BY <1>1, <1>2 DEF CollectorAssumption
<1>4. Len(results) = Len(A) /\ \A i \in 1 .. Len(results) : results[i].id = A[i].id
  <2>1. Len(results) \in Nat /\ Len(results) + 0 = Len(A)
    BY <1>1, <1>2 DEF OnCourse
  <2> QED BY <1>2, <2>1 DEF OnCourse
<1> HIDE DEF items, results
<1>5. DOMAIN items = 1 .. Len(items) /\ Len(items) \in Nat
  BY <1>3
<1>6. ASSUME NEW i \in 1 .. Len(items), items[i].is # "invalid" PROVE reply[i].id = items[i].id
  <2> DEFINE c == Cardinality({j \in 1 .. i : items[j].is # "invalid"})
  <2>1. c \in 1 .. Len(A) /\ A[c] = items[i]
    BY <1>3, <1>6, AcceptedFacts
  <2>2. reply[i] = results[c]
    BY <1>5, <1>6 DEF Ordered
  <2> HIDE DEF c, A, reply
  <2> QED BY <1>4, <2>1, <2>2
<1>7. ASSUME NEW i \in 1 .. Len(items), items[i].is = "invalid" PROVE reply[i].status = "rejected"
  BY <1>5, <1>7 DEF Ordered
<1>8. Len(reply) = Len(items)
  <2>1. DOMAIN reply = 1 .. Len(items)
    BY <1>5 DEF Ordered
  <2> HIDE DEF reply
  <2> DEFINE R == {reply[i] : i \in 1 .. Len(items)}
  <2>2. reply = [i \in 1 .. Len(items) |-> reply[i]]
    BY <1>5, <2>1 DEF reply, Ordered
  <2>3. reply \in [1 .. Len(items) -> R]
    BY <2>2
  <2> HIDE DEF R
  <2>4. reply \in Seq(R)
    BY <1>5, <2>3
  <2> QED BY <1>5, <2>1, <2>4
<1> HIDE DEF reply
<1> QED BY <1>5, <1>6, <1>7, <1>8 DEF reply, items, results
\* What a thread that is idle has in hand: nothing.
LEMMA NoRequestSettled == NoRequest.step = "idle" /\ \A done, taken : Vouching(NoRequest.results, done, taken)
BY DEF NoRequest, Vouching

\* At the start nothing is remembered, in hand or promised.
LEMMA SafeInit == ASSUME CollectorAssumption, Init PROVE SafeInv
<1>1. InOrder
  BY NoRequestSettled DEF Init, InOrder
<1>2. Remembered = {}
  BY DEF Init, Remembered
<1>3. Honest
  BY <1>2, NoRequestSettled DEF Init, Honest, PromisedIsSettled
<1>4. IsFiniteSet({}) /\ Cardinality({}) = 0 /\ Capacity \in Nat
  BY FS_EmptySet DEF CollectorAssumption
<1>5. CacheInv
  <2>1. {e \in Events : completed[e] # 0} = {}
    BY <1>2 DEF Remembered
  <2> QED BY <1>2, <1>4, <2>1 DEF CacheInv, CacheBounded
<1> QED BY <1>1, <1>3, <1>5 DEF SafeInv

\* Every thread keeps its request, what is to do and its results.
LEMMA InHandKeeps ==
  ASSUME SafeInv, \A v \in Workers : /\ worker'[v].step = "idle" <=> worker[v].step = "idle"
                                     /\ worker'[v].request = worker[v].request
                                     /\ worker'[v].todo = worker[v].todo
                                     /\ worker'[v].results = worker[v].results,
         settled' = settled, Taken \subseteq Taken'
  PROVE  InOrder' /\ \A v \in Workers : Vouching(worker'[v].results, settled', Taken')
<1>1. InOrder'
  BY DEF SafeInv, InOrder
<1>2. ASSUME NEW v \in Workers PROVE Vouching(worker'[v].results, settled', Taken')
  <2>1. Vouching(worker[v].results, settled, Taken)
    BY DEF SafeInv, Honest
  <2> QED BY <2>1 DEF Vouching
<1> QED BY <1>1, <1>2

\* A promise stays as good as it was while no attempt drops out of sight.
LEMMA PromisesKept ==
  ASSUME SafeInv, promised' = promised, vouched' = vouched, settled \subseteq settled',
         Taken \subseteq Taken'
  PROVE  PromisedIsSettled'
BY DEF SafeInv, Honest, PromisedIsSettled, Taken

\* The cache is left alone.
LEMMA SameCache == ASSUME SafeInv, completed' = completed PROVE CacheInv' /\ Remembered' = Remembered
BY DEF SafeInv, CacheInv, CacheBounded, Remembered

\* A new request is on course from the start.
LEMMA ReceiveSafe ==
  ASSUME CollectorAssumption, Inv, SafeInv, NEW w \in Workers, NEW r \in Requests, Receive(w, r)
  PROVE  SafeInv'
<1> DEFINE x == [step |-> "next", request |-> <<r>>, todo |-> Accepted(r.items),
                 results |-> <<>>, outcome |-> "none"]
<1>1. worker'[w] = x /\ \A v \in Workers \ {w} : worker'[v] = worker[v]
  BY DEF Receive, Inv, ThreadsTyped
<1>2. OnCourse(Accepted(r.items), Accepted(r.items), <<>>)
  <2>1. Accepted(r.items) \in Seq(Item)
    BY AcceptedFacts DEF CollectorAssumption
  <2>2. Len(<<>>) = 0 /\ Len(Accepted(r.items)) \in Nat
    BY <2>1
  <2> HIDE DEF x
  <2> QED BY <2>2 DEF OnCourse
<1>3. InOrder'
  <2>1. x.request # <<>> /\ x.request[1] = r /\ x.todo = Accepted(r.items) /\ x.results = <<>>
    OBVIOUS
  <2> HIDE DEF x
  <2> QED BY <1>1, <1>2, <2>1 DEF InOrder, SafeInv
<1>4. Vouching(x.results, settled, Taken)
  BY DEF Vouching
<1>5. \A v \in Workers : Vouching(worker'[v].results, settled, Taken)
  <2> HIDE DEF x
  <2> QED BY <1>1, <1>4 DEF SafeInv, Honest
<1>6. /\ completed' = completed /\ settled' = settled /\ promised' = promised
      /\ vouched' = vouched /\ Taken' = Taken
  BY DEF Receive, Taken
<1>7. Honest'
  BY <1>5, <1>6, SameCache, PromisesKept DEF SafeInv, Honest
<1> QED BY <1>3, <1>6, <1>7, SameCache DEF SafeInv

\* A status is noted that claims no outcome, or none but the cache's.
LEMMA NotedSafe ==
  ASSUME CollectorAssumption, Inv, SafeInv, NEW w \in Workers, NEW status \in Statuses,
         worker[w].step # "idle", worker[w].todo # <<>>, worker' = Noted(w, status),
         settled' = settled \/ settled' = settled \cup {Current(w).id}, promised' = promised,
         vouched' = vouched, Taken \subseteq Taken', CacheInv', Remembered' \subseteq settled',
         status \in Final => Current(w).id \in settled',
         status = "in_progress" => Current(w).id \in Taken'
  PROVE  SafeInv'
<1>1. settled \subseteq settled' /\ \A v \in Workers : Vouching(worker[v].results, settled, Taken)
  BY DEF SafeInv, Honest
<1>2. /\ status \in Final => Head(worker[w].todo).id \in settled'
      /\ status = "in_progress" => Head(worker[w].todo).id \in Taken'
  BY DEF Current
<1>3. InOrder' /\ \A v \in Workers : Vouching(worker'[v].results, settled', Taken')
  <2> DEFINE taken == Taken'
  <2>1. Taken \subseteq taken /\ (status = "in_progress" => Head(worker[w].todo).id \in taken)
    BY <1>2
  <2> HIDE DEF taken
  <2>2. InOrder' /\ \A v \in Workers : Vouching(worker'[v].results, settled', taken)
    BY <1>1, <1>2, <2>1, NotedKeeps DEF SafeInv
  <2> QED BY <2>2 DEF taken
<1>4. PromisedIsSettled'
  BY <1>1, PromisesKept
<1> QED BY <1>3, <1>4 DEF SafeInv, Honest

\* "rejected" claims no outcome.
LEMMA RejectForeignSafe ==
  ASSUME CollectorAssumption, Inv, SafeInv, NEW w \in Workers, RejectForeign(w)
  PROVE  SafeInv'
<1>1. "rejected" \in Statuses /\ "rejected" \notin Final /\ "rejected" # "in_progress"
  BY DEF Statuses, Final, Good
<1>2. /\ worker[w].step = "next" /\ worker[w].todo # <<>> /\ worker' = Noted(w, "rejected")
      /\ completed' = completed /\ settled' = settled /\ promised' = promised
      /\ vouched' = vouched /\ Taken' = Taken
  BY DEF RejectForeign, Taken
<1>3. CacheInv' /\ Remembered' \subseteq settled'
  BY <1>2, SameCache DEF SafeInv, Honest
<1> QED BY <1>1, <1>2, <1>3, NotedSafe

\* What the cache calls a duplicate it remembers; in_progress is no outcome.
LEMMA ClaimSafe ==
  ASSUME CollectorAssumption, Inv, SafeInv, NEW w \in Workers, Claim(w)
  PROVE  SafeInv'
<1> DEFINE e == Current(w).id
<1>1. /\ worker[w].step = "next" /\ worker[w].todo # <<>>
      /\ completed' = Purged /\ settled' = settled /\ promised' = promised /\ vouched' = vouched
      /\ abandoned' = abandoned
  BY DEF Claim
<1>2. CacheInv' /\ Remembered' \subseteq Remembered
  BY <1>1, PurgedBounded DEF SafeInv
<1>3. Remembered' \subseteq settled'
  BY <1>1, <1>2 DEF SafeInv, Honest
<1>4. e \in Events
  BY <1>1, HeadOfItems DEF Inv, ThreadsTyped, Thread, Current
<1>t. Taken \subseteq Taken'
  BY <1>1, ClaimStep DEF Taken
<1>5. CASE Purged[e] # 0
  <2>1. worker' = Noted(w, "duplicate")
    BY <1>5 DEF Claim
  <2>2. e \in settled'
    BY <1>1, <1>3, <1>4, <1>5 DEF Remembered
  <2>3. "duplicate" \in Statuses /\ "duplicate" # "in_progress"
    BY DEF Statuses
  <2> QED BY <1>1, <1>2, <1>3, <1>t, <2>1, <2>2, <2>3, NotedSafe
<1>6. CASE Purged[e] = 0 /\ e \in inflight
  <2>1. worker' = Noted(w, "in_progress")
    BY <1>6 DEF Claim
  <2>2. "in_progress" \in Statuses /\ "in_progress" \notin Final
    BY DEF Statuses, Final, Retryable
  <2>3. e \in Taken'
    BY <1>6, <1>t DEF Taken
  <2> QED BY <1>1, <1>2, <1>3, <1>t, <2>1, <2>2, <2>3, NotedSafe
<1>7. CASE Purged[e] = 0 /\ e \notin inflight
  <2>1. worker' = [worker EXCEPT ![w].step = "claimed"]
    BY <1>7 DEF Claim
  <2>2. \A v \in Workers : /\ worker'[v].step = "idle" <=> worker[v].step = "idle"
                           /\ worker'[v].request = worker[v].request
                           /\ worker'[v].todo = worker[v].todo
                           /\ worker'[v].results = worker[v].results
    BY <1>1, <2>1 DEF Inv, ThreadsTyped, Thread
  <2>3. InOrder' /\ \A v \in Workers : Vouching(worker'[v].results, settled', Taken')
    BY <1>1, <1>t, <2>2, InHandKeeps
  <2>4. PromisedIsSettled'
    BY <1>1, <1>t, PromisesKept
  <2> QED BY <1>2, <1>3, <2>3, <2>4 DEF SafeInv, Honest
<1> QED BY <1>5, <1>6, <1>7

\* The forwarder answers: nothing is noted yet.
LEMMA ForwardSafe ==
  ASSUME CollectorAssumption, Inv, SafeInv, NEW w \in Workers, NEW outcome \in Statuses,
         Forward(w, outcome)
  PROVE  SafeInv'
<1>1. /\ worker[w].step = "claimed" /\ completed' = completed
      /\ settled' = settled /\ promised' = promised /\ vouched' = vouched /\ Taken' = Taken
      /\ worker' = [worker EXCEPT ![w].step = "settle", ![w].outcome = outcome]
  BY DEF Forward, Taken
<1>2. worker' = [worker EXCEPT ![w] = [worker[w] EXCEPT !.step = "settle", !.outcome = outcome]]
  BY <1>1 DEF Inv, ThreadsTyped, Thread
<1>3. \A v \in Workers : /\ worker'[v].step = "idle" <=> worker[v].step = "idle"
                         /\ worker'[v].request = worker[v].request
                         /\ worker'[v].todo = worker[v].todo
                         /\ worker'[v].results = worker[v].results
  BY <1>1, <1>2 DEF Inv, ThreadsTyped, Thread
<1>4. InOrder' /\ \A v \in Workers : Vouching(worker'[v].results, settled', Taken')
  BY <1>1, <1>3, InHandKeeps
<1>5. Honest'
  BY <1>1, <1>4, SameCache, PromisesKept DEF SafeInv, Honest
<1> QED BY <1>1, <1>4, <1>5, SameCache DEF SafeInv

\* A final outcome is on record before it is noted.
LEMMA CompleteSafe ==
  ASSUME CollectorAssumption, Inv, SafeInv, NEW w \in Workers, Complete(w)
  PROVE  SafeInv'
<1> DEFINE e == Current(w).id
<1>1. /\ worker[w].step = "settle" /\ promised' = promised /\ settled' = settled \cup {e}
      /\ vouched' = vouched /\ abandoned' = abandoned /\ inflight' = inflight \ {e}
      /\ completed' = Evicted([completed EXCEPT ![e] = now + Ttl])
      /\ worker' = Noted(w, worker[w].outcome)
  BY DEF Complete
<1>2. worker[w].todo # <<>> /\ worker[w].outcome \in Statuses
  BY <1>1 DEF Inv, ThreadsTyped
<1>3. e \in Events
  BY <1>2, HeadOfItems DEF Inv, ThreadsTyped, Thread, Current
<1>4. CacheInv' /\ Remembered' \subseteq Remembered \cup {e}
  BY <1>1, <1>3, EvictedBounded DEF Inv, SafeInv
<1>5. Remembered' \subseteq settled'
  BY <1>1, <1>4 DEF SafeInv, Honest
<1>6. e \in settled'
  BY <1>1
<1>7. Taken \subseteq Taken' /\ Current(w).id \in Taken'
  BY <1>1 DEF Taken
<1> QED BY <1>1, <1>2, <1>4, <1>5, <1>6, <1>7, NotedSafe

\* "transient_error" claims no outcome.
LEMMA ReleaseSafe ==
  ASSUME CollectorAssumption, Inv, SafeInv, NEW w \in Workers, Release(w)
  PROVE  SafeInv'
<1>1. /\ worker[w].step = "settle" /\ promised' = promised /\ settled' = settled
      /\ completed' = completed /\ worker' = Noted(w, "transient_error") /\ vouched' = vouched
      /\ inflight' = inflight \ {Current(w).id} /\ abandoned' = abandoned \cup {Current(w).id}
  BY DEF Release
<1>2. worker[w].todo # <<>>
  BY <1>1 DEF Inv, ThreadsTyped
<1>3. "transient_error" \in Statuses /\ "transient_error" \notin Final /\ "transient_error" # "in_progress"
  BY DEF Statuses, Final, Good
<1>4. CacheInv' /\ Remembered' \subseteq settled'
  BY <1>1, SameCache DEF SafeInv, Honest
<1>5. Taken \subseteq Taken'
  BY <1>1 DEF Taken
<1> QED BY <1>1, <1>2, <1>3, <1>4, <1>5, NotedSafe

\* The answer promises only what had a final outcome, or what it vouches for.
LEMMA AnswerSafe ==
  ASSUME CollectorAssumption, Inv, SafeInv, NEW w \in Workers, Answer(w)
  PROVE  SafeInv'
<1>1. /\ worker[w].step = "next" /\ completed' = completed /\ settled' = settled
      /\ promised' = promised \cup Promised(worker[w].request[1], worker[w].results)
      /\ vouched' = vouched \cup Vouched(worker[w].request[1], worker[w].results)
      /\ inflight' = inflight /\ abandoned' = abandoned
      /\ worker' = [worker EXCEPT ![w] = NoRequest]
  BY DEF Answer
<1>2. worker'[w] = NoRequest /\ \A v \in Workers \ {w} : worker'[v] = worker[v]
  BY <1>1 DEF Inv, ThreadsTyped
<1>3. worker[w].request \in Seq(Requests) /\ worker[w].request # <<>>
  BY <1>1 DEF Inv, ThreadsTyped, Thread, SafeInv, InOrder
<1>4. worker[w].request[1] \in Requests
  BY <1>3
<1>5. ASSUME NEW e \in Promised(worker[w].request[1], worker[w].results), e \notin settled
      PROVE  e \in vouched' /\ e \in inflight \cup abandoned
  <2>1. Vouching(worker[w].results, settled, Taken)
    BY DEF SafeInv, Honest
  <2>2. e \in Vouched(worker[w].request[1], worker[w].results) /\ e \in Taken
    BY <1>4, <1>5, <2>1, AnswerSettled
  <2> QED BY <1>1, <1>5, <2>2 DEF Taken
<1>6. InOrder'
  BY <1>2, NoRequestSettled DEF SafeInv, InOrder
<1>7. \A v \in Workers : Vouching(worker'[v].results, settled', Taken')
  <2>1. Taken' = Taken
    BY <1>1 DEF Taken
  <2> QED BY <1>1, <1>2, <2>1, NoRequestSettled DEF SafeInv, Honest
<1>8. PromisedIsSettled'
  BY <1>1, <1>5 DEF SafeInv, Honest, PromisedIsSettled
<1>9. Honest'
  BY <1>1, <1>7, <1>8, SameCache DEF SafeInv, Honest
<1> QED BY <1>1, <1>6, <1>9, SameCache DEF SafeInv

\* A restart forgets everything that is in hand and remembered.
LEMMA RestartSafe == ASSUME CollectorAssumption, SafeInv, Restart PROVE SafeInv'
<1>1. InOrder'
  BY NoRequestSettled DEF Restart, InOrder
<1>2. Remembered' = {}
  BY DEF Restart, Remembered
<1>3. Honest'
  <2>1. /\ settled' = settled /\ promised' = promised /\ vouched' = vouched /\ inflight' = {}
        /\ abandoned' = abandoned \cup inflight /\ \A w \in Workers : worker'[w] = NoRequest
    BY DEF Restart
  <2>2. Taken' = Taken
    BY <2>1 DEF Taken
  <2> QED BY <1>2, <2>1, <2>2, NoRequestSettled, PromisesKept DEF Honest
<1>4. IsFiniteSet({}) /\ Cardinality({}) = 0 /\ Capacity \in Nat
  BY FS_EmptySet DEF CollectorAssumption
<1>5. CacheInv'
  <2>1. {e \in Events : completed'[e] # 0} = {}
    BY <1>2 DEF Remembered
  <2> QED BY <1>2, <1>4, <2>1 DEF CacheInv, CacheBounded
<1> QED BY <1>1, <1>3, <1>5 DEF SafeInv

\* Every step keeps results in order, promises honest and the cache bounded.
LEMMA SafeStep ==
  ASSUME CollectorAssumption, Inv, SafeInv, [Next]_vars
  PROVE  SafeInv'
<1>1. ASSUME NEW w \in Workers, \E r \in Requests : Receive(w, r) PROVE SafeInv'
  BY <1>1, ReceiveSafe
<1>2. ASSUME NEW w \in Workers, \E outcome \in Statuses : Forward(w, outcome) PROVE SafeInv'
  BY <1>2, ForwardSafe
<1>3. ASSUME NEW w \in Workers,
             RejectForeign(w) \/ Claim(w) \/ Complete(w) \/ Release(w) \/ Answer(w)
      PROVE  SafeInv'
  BY <1>3, RejectForeignSafe, ClaimSafe, CompleteSafe, ReleaseSafe, AnswerSafe
<1>4. CASE Tick \/ UNCHANGED vars
  <2>1. /\ worker' = worker /\ completed' = completed /\ settled' = settled /\ promised' = promised
        /\ vouched' = vouched /\ Taken' = Taken
    BY <1>4 DEF Tick, vars, Taken
  <2>2. InOrder'
    BY <2>1 DEF SafeInv, InOrder
  <2>3. Honest'
    BY <2>1, SameCache, PromisesKept DEF SafeInv, Honest
  <2> QED BY <2>1, <2>2, <2>3, SameCache DEF SafeInv
<1>5. CASE Restart
  BY <1>5, RestartSafe
<1> QED BY <1>1, <1>2, <1>3, <1>4, <1>5 DEF Next

\* Collection with the in-memory DedupeCache, for any threads, single events and batches,
\* times and restarts: no claim is left behind, the cache keeps to its capacity,
\* ingest_batch answers in the order of the request, and an event answered 202 had a final
\* outcome, or was a single one in the hands of a thread whose attempt is not over or failed.
THEOREM CollectorSafeHolds ==
  ASSUME CollectorAssumption
  PROVE  Spec => []CollectorSafe
<1>1. Init => Inv /\ SafeInv
  BY InitClaims, SafeInit
<1>2. Inv /\ SafeInv /\ [Next]_vars => Inv' /\ SafeInv'
  BY StepClaims, SafeStep
<1>3. Inv /\ SafeInv => CollectorSafe
  BY OrderedAnswers DEF CollectorSafe, Inv, SafeInv, Honest, CacheInv
<1> QED BY <1>1, <1>2, <1>3, PTL DEF Spec
-----------------------------------------------------------------------------
(* The endpoint in front of the collector *)

\* The header holds what the sender wrote and then the path, but for its last hop.
HeaderFollowsPath ==
  /\ path \in Seq(Addresses) /\ Len(path) > 0
  /\ header \in Seq(Addresses \cup {Junk}) /\ forged \in Nat
  /\ Len(header) = forged + Len(path) - 1
  /\ \A i \in 1 .. Len(path) - 1 : header[forged + i] = path[i]

\* What a request that came past its headers has shown.
Admitted == request.known /\ Endpoint!Authorized(request) /\ request.length \in 1 .. MaxBody

EndpointInv ==
  /\ HeaderFollowsPath
  /\ request \in Endpoint!Request
  /\ body \in Nat
  /\ body # 0 => Admitted /\ body <= MaxBody
  /\ step = "body" => body # 0
  /\ charged # "none" => /\ step \in {"ingest", "done"} /\ body # 0
                         /\ charged = Endpoint!ClientIp(Endpoint!Last(path), header)

\* The last place of a set of places.
LEMMA LastPlace ==
  ASSUME NEW S, NEW n \in S, S \subseteq Nat, \A i \in S : i <= n
  PROVE  (CHOOSE i \in S : \A j \in S : j <= i) = n
<1> DEFINE l == CHOOSE i \in S : \A j \in S : j <= i
<1>1. l \in S /\ \A j \in S : j <= l
  OBVIOUS
<1> HIDE DEF l
<1>2. l <= n /\ n <= l /\ l \in Nat /\ n \in Nat
  BY <1>1
<1> QED BY <1>2 DEF l

\* Read from the right, the header names the last hop that is no trusted proxy.
LEMMA ClientIpIsLastOutsider ==
  ASSUME Endpoint!EndpointAssumption, HeaderFollowsPath,
         NEW i \in DOMAIN path, path[i] \notin Trusted, \A j \in i + 1 .. Len(path) : path[j] \in Trusted
  PROVE  Endpoint!ClientIp(Endpoint!Last(path), header) = path[i]
<1> DEFINE n == Len(path)
           peer == Endpoint!Last(path)
           seen == {k \in DOMAIN header : header[k] \notin Trusted}
<1>1. /\ n \in Nat /\ n > 0 /\ i \in 1 .. n /\ peer = path[n] /\ forged \in Nat
      /\ Len(header) = forged + n - 1 /\ DOMAIN header = 1 .. Len(header)
      /\ path[i] # Junk
  BY DEF HeaderFollowsPath, Endpoint!Last, Endpoint!EndpointAssumption
<1>2. CASE i = n
  BY <1>1, <1>2 DEF Endpoint!ClientIp
<1>3. CASE i < n
  <2>1. peer \in Trusted
    BY <1>1, <1>3
  <2>2. forged + i \in seen /\ header[forged + i] = path[i]
    BY <1>1, <1>3 DEF HeaderFollowsPath
  <2>3. \A k \in seen : k <= forged + i
    <3> SUFFICES ASSUME NEW k \in seen, k > forged + i PROVE FALSE
      BY <1>1
    <3>1. k - forged \in 1 .. n - 1 /\ k - forged \in i + 1 .. n /\ k = forged + (k - forged)
      BY <1>1, <1>3
    <3>2. header[forged + (k - forged)] = path[k - forged]
      BY <3>1 DEF HeaderFollowsPath
    <3> QED BY <3>1, <3>2
  <2>4. seen \subseteq Nat /\ header # << >>
    BY <1>1, <1>3
  <2> HIDE DEF seen, peer
  <2>5. (CHOOSE k \in seen : \A j \in seen : j <= k) = forged + i
    BY <2>2, <2>3, <2>4, LastPlace
  <2> QED BY <1>1, <2>1, <2>2, <2>4, <2>5 DEF Endpoint!ClientIp, seen, peer
<1> QED BY <1>1, <1>2, <1>3

\* Where the path leads through an outsider there is a last one.
LEMMA LastOutsider ==
  ASSUME HeaderFollowsPath, NEW i \in DOMAIN path, path[i] \notin Trusted
  PROVE  \E l \in DOMAIN path : path[l] \notin Trusted /\ \A j \in l + 1 .. Len(path) : path[j] \in Trusted
<1> DEFINE T == {d \in Nat : (\E k \in DOMAIN path : path[k] \notin Trusted /\ Len(path) - k <= d) =>
             \E l \in DOMAIN path : path[l] \notin Trusted /\ \A j \in l + 1 .. Len(path) : path[j] \in Trusted}
<1>1. 0 \in T
  BY DEF HeaderFollowsPath
<1>2. ASSUME NEW d \in Nat, d \in T PROVE d + 1 \in T
  <2> SUFFICES ASSUME NEW k \in DOMAIN path, path[k] \notin Trusted, Len(path) - k <= d + 1
               PROVE  \E l \in DOMAIN path :
                        path[l] \notin Trusted /\ \A j \in l + 1 .. Len(path) : path[j] \in Trusted
    OBVIOUS
  <2>1. CASE \A j \in k + 1 .. Len(path) : path[j] \in Trusted
    BY <2>1
  <2>2. CASE \E j \in k + 1 .. Len(path) : path[j] \notin Trusted
    <3>1. PICK j \in k + 1 .. Len(path) : path[j] \notin Trusted
      BY <2>2
    <3>2. j \in DOMAIN path /\ Len(path) - j <= d
      BY <3>1 DEF HeaderFollowsPath
    <3> QED BY <1>2, <3>1, <3>2
  <2> QED BY <2>1, <2>2
<1>3. Nat \subseteq T
  <2> HIDE DEF T
  <2> QED BY <1>1, <1>2, NatSetInduction
<1>4. Len(path) - i \in Nat
  BY DEF HeaderFollowsPath
<1> QED BY <1>3, <1>4

\* What the invariant says of a charge and of a body.
LEMMA EndpointInvSound ==
  ASSUME Endpoint!EndpointAssumption, EndpointInv
  PROVE  Endpoint!ChargedToLastOutsider /\ Endpoint!BoundedHandling
<1>1. Endpoint!BoundedHandling
  BY DEF EndpointInv, Endpoint!BoundedHandling, Admitted, Endpoint!EndpointAssumption
<1>2. ASSUME charged # "none", NEW i \in DOMAIN path, path[i] \notin Trusted
      PROVE  charged = path[CHOOSE l \in DOMAIN path :
                     path[l] \notin Trusted /\ \A j \in l + 1 .. Len(path) : path[j] \in Trusted]
  <2> DEFINE l == CHOOSE l \in DOMAIN path :
                     path[l] \notin Trusted /\ \A j \in l + 1 .. Len(path) : path[j] \in Trusted
  <2>1. l \in DOMAIN path /\ path[l] \notin Trusted /\ \A j \in l + 1 .. Len(path) : path[j] \in Trusted
    BY <1>2, LastOutsider DEF EndpointInv
  <2> HIDE DEF l
  <2>2. charged = path[l]
    BY <1>2, <2>1, ClientIpIsLastOutsider DEF EndpointInv
  <2> QED BY <2>2 DEF l
<1>3. Endpoint!ChargedToLastOutsider
  BY <1>2 DEF Endpoint!ChargedToLastOutsider
<1> QED BY <1>1, <1>3

\* A request before its first proxy: whatever its sender wrote is forged.
LEMMA EndpointInit ==
  ASSUME Endpoint!EndpointAssumption, Endpoint!Init
  PROVE  EndpointInv
<1>1. PICK a \in Addresses : path = <<a>>
  BY DEF Endpoint!Init
<1>2. header \in Seq(Addresses \cup {Junk})
  BY DEF Endpoint!Init, Endpoint!SeqOf
<1>3. request \in Endpoint!Request /\ forged = Len(header) /\ body = 0 /\ charged = "none" /\ step = "travels"
  BY DEF Endpoint!Init
<1>4. HeaderFollowsPath
  BY <1>1, <1>2, <1>3 DEF HeaderFollowsPath
<1> QED BY <1>3, <1>4 DEF EndpointInv

\* A proxy adds one address to the path and one to the header.
LEMMA EndpointHop ==
  ASSUME Endpoint!EndpointAssumption, EndpointInv, NEW p \in Addresses, Endpoint!Hop(p)
  PROVE  EndpointInv'
<1> DEFINE n == Len(path)
<1>1. /\ path \in Seq(Addresses) /\ n > 0 /\ header \in Seq(Addresses \cup {Junk}) /\ forged \in Nat
      /\ n \in Nat /\ Len(header) = forged + n - 1
      /\ \A i \in 1 .. n - 1 : header[forged + i] = path[i]
  BY DEF EndpointInv, HeaderFollowsPath
<1>2. /\ path' = Append(path, p) /\ header' = Append(header, path[n]) /\ forged' = forged
      /\ request' = request /\ step' = step /\ body' = body /\ charged' = charged /\ step = "travels"
  BY DEF Endpoint!Hop, Endpoint!Last
<1>3. /\ path' \in Seq(Addresses) /\ Len(path') = n + 1 /\ \A i \in 1 .. n : path'[i] = path[i]
      /\ header' \in Seq(Addresses \cup {Junk}) /\ Len(header') = forged + n
      /\ \A i \in 1 .. forged + n - 1 : header'[i] = header[i]
      /\ header'[forged + n] = path[n]
  BY <1>1, <1>2
<1> HIDE DEF n
<1>4. ASSUME NEW i \in 1 .. Len(path') - 1 PROVE header'[forged + i] = path'[i]
  <2>1. CASE i = n
    BY <2>1, <1>1, <1>3
  <2>2. CASE i # n
    <3>1. i \in 1 .. n - 1 /\ forged + i \in 1 .. forged + n - 1 /\ i \in 1 .. n
      BY <2>2, <1>1, <1>3
    <3> QED BY <3>1, <1>1, <1>3
  <2> QED BY <2>1, <2>2
<1>5. HeaderFollowsPath'
  <2>1. Len(path') > 0 /\ forged' \in Nat /\ Len(header') = forged' + Len(path') - 1
    BY <1>1, <1>2, <1>3
  <2>2. \A i \in 1 .. Len(path') - 1 : header'[forged' + i] = path'[i]
    BY <1>2, <1>4
  <2> QED BY <1>3, <2>1, <2>2 DEF HeaderFollowsPath
<1>6. charged = "none" /\ body' \in Nat
  BY <1>2 DEF EndpointInv
<1> QED BY <1>2, <1>5, <1>6 DEF EndpointInv, Admitted, Endpoint!Authorized

\* A request that no check of its headers refuses.
LEMMA HeadersPassed ==
  ASSUME Endpoint!EndpointAssumption, request \in Endpoint!Request, Endpoint!HeaderStatus(request) = 0
  PROVE  Admitted
<1>1. PICK r \in Endpoint!Request : r = request
  OBVIOUS
<1>2. /\ r.known \in BOOLEAN /\ r.json \in BOOLEAN
      /\ r.declared \in {"no length", "no number", "length"}
      /\ r.length \in 0 .. MaxBody + 1
      /\ MaxBody \in Nat
  BY DEF Endpoint!Request, Endpoint!EndpointAssumption
<1>3. r.known
  <2>1. ~r.known => Endpoint!HeaderStatus(r) = 404
    BY DEF Endpoint!HeaderStatus
  <2> QED BY <1>1, <2>1
<1>4. Endpoint!Authorized(r)
  <2>1. r.known /\ ~Endpoint!Authorized(r) => Endpoint!HeaderStatus(r) = 401
    BY DEF Endpoint!HeaderStatus
  <2> QED BY <1>1, <1>3, <2>1
<1>5. Endpoint!HeaderStatus(r) =
        CASE ~r.json -> 415
          [] r.json /\ r.declared = "no length" -> 411
          [] r.json /\ r.declared = "no number" -> 400
          [] r.json /\ r.declared = "length" /\ (r.length < 1 \/ r.length > MaxBody) -> 413
          [] OTHER -> 0
  BY <1>3, <1>4 DEF Endpoint!HeaderStatus
<1>6. r.json
  <2>1. ~r.json => Endpoint!HeaderStatus(r) = 415
    BY <1>5
  <2> QED BY <1>1, <2>1
<1>7. r.declared # "no length"
  <2> DEFINE status == Endpoint!HeaderStatus(r)
             unsized == r.declared = "no length"
  <2>1. unsized => status = 411
    BY <1>5, <1>6
  <2>2. status = 0
    BY <1>1
  <2> HIDE DEF status, unsized
  <2>3. ~unsized
    BY <2>1, <2>2
  <2> QED BY <2>3 DEF unsized
<1>8. r.declared # "no number"
  <2> DEFINE status == Endpoint!HeaderStatus(r)
             unsized == r.declared = "no number"
  <2>1. unsized => status = 400
    BY <1>5, <1>6
  <2>2. status = 0
    BY <1>1
  <2> HIDE DEF status, unsized
  <2>3. ~unsized
    BY <2>1, <2>2
  <2> QED BY <2>3 DEF unsized
<1>9. ~(r.length < 1 \/ r.length > MaxBody)
  <2> SUFFICES ASSUME r.length < 1 \/ r.length > MaxBody PROVE FALSE
    OBVIOUS
  <2>1. r.declared = "length"
    BY <1>2, <1>7, <1>8
  <2>2. Endpoint!HeaderStatus(r) = 413
    BY <1>5, <1>6, <2>1
  <2>3. Endpoint!HeaderStatus(r) = 0
    BY <1>1
  <2> QED BY <2>2, <2>3
<1>10. r.length \in 1 .. MaxBody
  <2> DEFINE n == r.length
  <2>1. n \in 0 .. MaxBody + 1 /\ MaxBody \in Nat /\ ~(n < 1 \/ n > MaxBody)
    BY <1>2, <1>9
  <2> HIDE DEF n
  <2>2. n \in 1 .. MaxBody
    BY <2>1
  <2> QED BY <2>2 DEF n
<1> QED BY <1>1, <1>3, <1>4, <1>10 DEF Admitted

\* The steps of the handler: only ReadBody asks for bytes, only Ingest charges a client.
LEMMA EndpointHandles ==
  ASSUME Endpoint!EndpointAssumption, EndpointInv,
         \/ Endpoint!Arrive \/ Endpoint!RefuseHeaders \/ Endpoint!ReadBody
         \/ Endpoint!RefuseBody \/ Endpoint!Ingest
         \/ \E result \in Endpoint!EventResults : Endpoint!AnswerEvent(result)
         \/ \E result \in Endpoint!BatchResults : Endpoint!AnswerBatch(result)
  PROVE  EndpointInv'
<1>1. path' = path /\ header' = header /\ forged' = forged /\ request' = request
  BY DEF Endpoint!Arrive, Endpoint!RefuseHeaders, Endpoint!ReadBody, Endpoint!RefuseBody,
         Endpoint!Ingest, Endpoint!AnswerEvent, Endpoint!AnswerBatch
<1>2. HeaderFollowsPath' /\ (Admitted' <=> Admitted)
  BY <1>1 DEF EndpointInv, HeaderFollowsPath, Admitted, Endpoint!Authorized
<1>3. EndpointInv /\ request' \in Endpoint!Request /\ MaxBody \in Nat
  BY <1>1 DEF EndpointInv, Endpoint!EndpointAssumption
<1>4. CASE Endpoint!ReadBody
  <2>1. Admitted /\ body' = request.length /\ step' = "body" /\ charged' = charged /\ step = "headers"
    BY <1>3, <1>4, HeadersPassed DEF Endpoint!ReadBody, EndpointInv
  <2>2. charged = "none"
    BY <1>3, <2>1 DEF EndpointInv
  <2>3. body' \in Nat /\ body' # 0 /\ body' <= MaxBody
    BY <1>3, <2>1 DEF Admitted
  <2> QED BY <1>2, <1>3, <2>1, <2>2, <2>3 DEF EndpointInv
<1>5. CASE Endpoint!Ingest
  <2>1. /\ charged' = Endpoint!ClientIp(Endpoint!Last(path), header) /\ step' = "ingest"
        /\ body' = body /\ step = "body"
    BY <1>5 DEF Endpoint!Ingest
  <2>2. charged' = Endpoint!ClientIp(Endpoint!Last(path), header)'
    BY <1>1, <2>1 DEF Endpoint!ClientIp, Endpoint!Last
  <2> QED BY <1>1, <1>2, <1>3, <2>1, <2>2 DEF EndpointInv
<1>6. CASE ~Endpoint!ReadBody /\ ~Endpoint!Ingest
  <2>1. /\ body' = body /\ charged' = charged /\ step' \in {"headers", "done"}
        /\ step \in {"travels", "headers", "body", "ingest"} /\ (step' = "headers" => step = "travels")
    BY <1>6 DEF Endpoint!Arrive, Endpoint!RefuseHeaders, Endpoint!RefuseBody,
                Endpoint!AnswerEvent, Endpoint!AnswerBatch
  <2>2. Endpoint!ClientIp(Endpoint!Last(path), header)' = Endpoint!ClientIp(Endpoint!Last(path), header)
    BY <1>1 DEF Endpoint!ClientIp, Endpoint!Last
  <2> QED BY <1>1, <1>2, <1>3, <2>1, <2>2 DEF EndpointInv
<1> QED BY <1>4, <1>5, <1>6

\* Every step of the endpoint.
LEMMA EndpointInvPreserved ==
  ASSUME Endpoint!EndpointAssumption, EndpointInv, [Endpoint!Next]_(Endpoint!vars)
  PROVE  EndpointInv'
<1>1. CASE UNCHANGED Endpoint!vars
  BY <1>1 DEF Endpoint!vars, EndpointInv, HeaderFollowsPath, Admitted, Endpoint!Authorized,
              Endpoint!ClientIp, Endpoint!Last
<1>2. CASE \E p \in Addresses : Endpoint!Hop(p)
  BY <1>2, EndpointHop
<1>3. CASE \/ Endpoint!Arrive \/ Endpoint!RefuseHeaders \/ Endpoint!ReadBody
           \/ Endpoint!RefuseBody \/ Endpoint!Ingest
           \/ \E result \in Endpoint!EventResults : Endpoint!AnswerEvent(result)
           \/ \E result \in Endpoint!BatchResults : Endpoint!AnswerBatch(result)
  BY <1>3, EndpointHandles
<1> QED BY <1>1, <1>2, <1>3 DEF Endpoint!Next

\* For any addresses, trusted networks, proxies, header of the sender and credentials:
\* a request is charged to the last hop outside the trusted networks, and no byte of a
\* body is read nor a client charged for a request that its headers refuse.
THEOREM EndpointSoundHolds ==
  ASSUME Endpoint!EndpointAssumption
  PROVE  Endpoint!Spec => [](Endpoint!ChargedToLastOutsider /\ Endpoint!BoundedHandling)
<1>1. Endpoint!Init => EndpointInv
  BY EndpointInit
<1>2. EndpointInv /\ [Endpoint!Next]_(Endpoint!vars) => EndpointInv'
  BY EndpointInvPreserved
<1>3. EndpointInv => Endpoint!ChargedToLastOutsider /\ Endpoint!BoundedHandling
  BY EndpointInvSound
<1> QED BY <1>1, <1>2, <1>3, PTL DEF Endpoint!Spec

-----------------------------------------------------------------------------
(* The rate limiter behind the endpoint.  A bucket and what was granted out  *)
(* of it are one account.  Each time the bucket was set back its clock shows *)
(* less than has flowed in, so the account is kept by the bucket's time plus *)
(* what it was set back, which never decreases: Fits says that no stretch of *)
(* time exceeds the rate and that the tokens left are allowed by every one,  *)
(* Used that one of them allows no more.                                     *)

\* What flows in during so many ticks.
Flow(ticks) == ticks * Rate

\* What a book of grants says of a stretch of time.
Within(book, from, to) == book[to] - (IF from = 0 THEN 0 ELSE book[from - 1])

\* Books of grants up to each tick.
Book == {g \in [0 .. LastTick -> Nat] : \A s, t \in 0 .. LastTick : s <= t => g[s] <= g[t]}

\* No stretch of time exceeds the rate by more than what the bucket was set back, and none
\* that ends now leaves less than the tokens; nothing was granted after now.
Fits(book, back, tick, tokens) ==
  /\ tokens <= Burst
  /\ \A to \in 0 .. LastTick : \A from \in 0 .. to :
       Within(book, from, to) <= Burst + Flow(to - from + back)
  /\ \A from \in 0 .. LastTick :
       /\ from <= tick + back =>
            Within(book, from, LastTick) + tokens <= Burst + Flow(tick + back - from)
       /\ from > tick + back => Within(book, from, LastTick) = 0

\* A stretch of time around the bucket's leaves no more than the tokens.
Used(book, back, tick, tokens, present) ==
  \E from \in 0 .. tick : \E to \in tick .. present :
    Within(book, from, to) + tokens + Flow(back) >= Burst + Flow(to - from)

LimiterTypes == {Burst, Rate, LastTick} \subseteq Nat /\ Charges \subseteq Nat \ {0}

\* The constants are numbers.
LEMMA LimiterTyped == Limiter!LimiterAssumption => LimiterTypes
BY DEF Limiter!LimiterAssumption, LimiterTypes

\* What flows in over two stretches of time is what flows in over both.
LEMMA FlowAdds ==
  ASSUME LimiterTypes, NEW a \in Nat, NEW b \in Nat
  PROVE  /\ Flow(a + b) = Flow(a) + Flow(b) /\ Flow(a) \in Nat /\ Flow(b) \in Nat
         /\ Flow(a + b) \in Nat
<1>1. Rate \in Nat
  BY DEF LimiterTypes
<1>2. (a + b) * Rate = a * Rate + b * Rate /\ a * Rate \in Nat /\ b * Rate \in Nat
  BY <1>1
<1> QED BY <1>2 DEF Flow

\* More flows in during a longer stretch of time.
LEMMA FlowGrows ==
  ASSUME LimiterTypes, NEW a \in Nat, NEW b \in Nat, a <= b
  PROVE  Flow(a) \in Nat /\ Flow(b) \in Nat /\ Flow(a) <= Flow(b)
<1>1. b - a \in Nat /\ a + (b - a) = b
  OBVIOUS
<1> DEFINE d == b - a
<1>2. d \in Nat /\ a + d = b
  BY <1>1
<1> HIDE DEF d
<1>3. Flow(a + d) = Flow(a) + Flow(d) /\ Flow(a) \in Nat /\ Flow(d) \in Nat
  BY <1>2, FlowAdds
<1> QED BY <1>2, <1>3

\* A book never decreases: a wider stretch of time holds no less.
LEMMA WithinGrows ==
  ASSUME LimiterTypes, NEW g \in Book, NEW to \in 0 .. LastTick, NEW from \in 0 .. to,
         NEW later \in to .. LastTick, NEW earlier \in 0 .. from
  PROVE  /\ Within(g, from, to) \in Nat /\ Within(g, earlier, later) \in Nat
         /\ Within(g, from, to) <= Within(g, earlier, later)
<1>1. LastTick \in Nat /\ g[to] \in Nat /\ g[later] \in Nat /\ g[to] <= g[later]
  BY DEF LimiterTypes, Book
<1>2. from # 0 => from - 1 \in 0 .. LastTick /\ g[from - 1] \in Nat /\ g[from - 1] <= g[to]
  BY <1>1 DEF Book
<1>3. earlier # 0 =>
        /\ earlier - 1 \in 0 .. LastTick /\ from # 0
        /\ g[earlier - 1] \in Nat /\ g[earlier - 1] <= g[from - 1] /\ g[earlier - 1] <= g[later]
  <2> SUFFICES ASSUME earlier # 0 PROVE /\ earlier - 1 \in 0 .. LastTick /\ from # 0
                                        /\ g[earlier - 1] \in Nat /\ g[earlier - 1] <= g[from - 1]
                                        /\ g[earlier - 1] <= g[later]
    OBVIOUS
  <2>1. /\ earlier - 1 \in 0 .. LastTick /\ from # 0 /\ from - 1 \in 0 .. LastTick
        /\ earlier - 1 <= from - 1 /\ earlier - 1 <= later /\ later \in 0 .. LastTick
    BY <1>1
  <2> QED BY <2>1 DEF Book
<1> QED BY <1>1, <1>2, <1>3 DEF Within

\* A charge n is added to the book from tick c on.
Charged(book, c, n) == [t \in 0 .. LastTick |-> book[t] + (IF t >= c THEN n ELSE 0)]

\* Every stretch of time around c holds n more, the others what they held.
LEMMA WithinGrant ==
  ASSUME LimiterTypes, NEW g \in Book, NEW c \in 0 .. LastTick, NEW n \in Nat
  PROVE  /\ Charged(g, c, n) \in Book
         /\ \A to \in 0 .. LastTick : \A from \in 0 .. to :
              /\ Within(g, from, to) \in Nat
              /\ from <= c /\ c <= to =>
                   Within(Charged(g, c, n), from, to) = Within(g, from, to) + n
              /\ ~ (from <= c /\ c <= to) =>
                   Within(Charged(g, c, n), from, to) = Within(g, from, to)
<1>0. LastTick \in Nat
  BY DEF LimiterTypes
<1>h. PICK h : h = Charged(g, c, n)
  OBVIOUS
<1>1. \A t \in 0 .. LastTick : g[t] \in Nat /\ h[t] = g[t] + (IF t >= c THEN n ELSE 0)
  BY <1>h DEF Book, Charged
<1>2. h \in Book
  <2>1. h \in [0 .. LastTick -> Nat]
    BY <1>1, <1>h DEF Charged
  <2>2. ASSUME NEW s \in 0 .. LastTick, NEW t \in 0 .. LastTick, s <= t PROVE h[s] <= h[t]
    <3>1. g[s] <= g[t]
      BY <2>2 DEF Book
    <3> QED BY <1>1, <2>2, <3>1
  <2> QED BY <2>1, <2>2 DEF Book
<1>3. ASSUME NEW to \in 0 .. LastTick, NEW from \in 0 .. to
      PROVE  /\ Within(g, from, to) \in Nat
             /\ from <= c /\ c <= to => Within(h, from, to) = Within(g, from, to) + n
             /\ ~ (from <= c /\ c <= to) => Within(h, from, to) = Within(g, from, to)
  <2>1. Within(g, from, to) \in Nat
    BY <1>0, WithinGrows
  <2>2. /\ g[to] \in Nat /\ h[to] = g[to] + (IF to >= c THEN n ELSE 0)
        /\ from # 0 => /\ g[from - 1] \in Nat
                       /\ h[from - 1] = g[from - 1] + (IF from - 1 >= c THEN n ELSE 0)
    BY <1>0, <1>1
  <2>3. CASE from = 0
    BY <2>1, <2>2, <2>3 DEF Within
  <2>4. CASE from # 0
    <3> DEFINE a == g[from - 1]
               b == h[from - 1]
    <3>1. Within(g, from, to) = g[to] - a /\ Within(h, from, to) = h[to] - b
      BY <2>4 DEF Within
    <3>2. a \in Nat /\ b = a + (IF from - 1 >= c THEN n ELSE 0)
      BY <2>2, <2>4
    <3> HIDE DEF a, b
    <3> QED BY <2>1, <2>2, <2>4, <3>1, <3>2
  <2> QED BY <2>3, <2>4
<1> QED BY <1>2, <1>3, <1>h

\* A client nobody has charged.
LEMMA FreshFits ==
  ASSUME LimiterTypes, NEW g \in Book, \A t \in 0 .. LastTick : g[t] = 0, NEW c \in 0 .. LastTick,
         NEW present \in c .. LastTick
  PROVE  Fits(g, 0, c, Burst) /\ Used(g, 0, c, Burst, present)
<1>0. LastTick \in Nat /\ Burst \in Nat
  BY DEF LimiterTypes
<1>1. ASSUME NEW to \in 0 .. LastTick, NEW from \in 0 .. to PROVE Within(g, from, to) = 0
  <2>1. g[to] = 0 /\ (from # 0 => g[from - 1] = 0)
    BY <1>0
  <2> QED BY <2>1 DEF Within
<1>2. ASSUME NEW a \in Nat PROVE Flow(a) \in Nat
  BY <1>2, FlowGrows
<1>3. ASSUME NEW to \in 0 .. LastTick, NEW from \in 0 .. to
      PROVE  Within(g, from, to) <= Burst + Flow(to - from + 0)
  <2>1. to - from + 0 \in Nat
    BY <1>0
  <2>2. Flow(to - from + 0) \in Nat
    BY <1>2, <2>1
  <2> QED BY <1>0, <1>1, <2>2
<1>4. ASSUME NEW from \in 0 .. LastTick, from <= c + 0
      PROVE  Within(g, from, LastTick) + Burst <= Burst + Flow(c + 0 - from)
  <2>1. c + 0 - from \in Nat /\ LastTick \in 0 .. LastTick /\ from \in 0 .. LastTick
    BY <1>0, <1>4
  <2>2. Flow(c + 0 - from) \in Nat
    BY <1>2, <2>1
  <2> QED BY <1>0, <1>1, <2>1, <2>2
<1>5. Fits(g, 0, c, Burst)
  BY <1>0, <1>1, <1>3, <1>4 DEF Fits
<1>6. Used(g, 0, c, Burst, present)
  <2>1. c \in 0 .. c /\ c \in c .. present /\ c - c = 0 /\ Within(g, c, c) = 0
    BY <1>0, <1>1
  <2>2. Within(g, c, c) + Burst + Flow(0) >= Burst + Flow(c - c)
    BY <1>0, <1>2, <2>1
  <2> QED BY <2>1, <2>2 DEF Used
<1> QED BY <1>5, <1>6

\* A bucket refills up to its capacity; one that is set back gets nothing.
LEMMA RefillFits ==
  ASSUME LimiterTypes, NEW g \in Book, NEW s \in Nat, NEW u \in Nat, NEW b \in Nat, Fits(g, s, u, b),
         NEW c \in Nat, NEW back \in Nat, s <= back, u + s <= c + back,
         NEW r \in Nat, r <= Burst, r <= b + Flow((c + back) - (u + s))
  PROVE  Fits(g, back, c, r)
<1> DEFINE v == u + s
           x == c + back
           d == x - v
<1>0. LastTick \in Nat /\ Burst \in Nat /\ v \in Nat /\ x \in Nat /\ d \in Nat /\ v + d = x
  BY DEF LimiterTypes
<1>1. ASSUME NEW to \in 0 .. LastTick, NEW from \in 0 .. to
      PROVE  Within(g, from, to) <= Burst + Flow(to - from + back)
  <2>1. /\ to - from + s \in Nat /\ to - from + back \in Nat
        /\ to - from + s <= to - from + back
    BY <1>0
  <2> DEFINE i == to - from + s
             j == to - from + back
  <2>2. i \in Nat /\ j \in Nat /\ i <= j
    BY <2>1
  <2>3. Within(g, from, to) <= Burst + Flow(i) /\ Within(g, from, to) \in Nat
    <3>1. Within(g, from, to) \in Nat
      BY <1>0, WithinGrows
    <3> QED BY <3>1 DEF Fits
  <2> HIDE DEF i, j
  <2>4. Flow(i) <= Flow(j) /\ Flow(i) \in Nat /\ Flow(j) \in Nat
    BY <2>2, FlowGrows
  <2>5. Within(g, from, to) <= Burst + Flow(j)
    BY <1>0, <2>3, <2>4
  <2> QED BY <2>5 DEF j
<1>2. ASSUME NEW from \in 0 .. LastTick, from <= x
      PROVE  Within(g, from, LastTick) + r <= Burst + Flow(x - from)
  <2>0. LastTick \in 0 .. LastTick /\ from \in 0 .. LastTick /\ Within(g, from, LastTick) \in Nat
    <3>1. LastTick \in 0 .. LastTick /\ from \in 0 .. LastTick
      BY <1>0
    <3> QED BY <3>1, WithinGrows
  <2>1. CASE from <= v
    <3> DEFINE e == v - from
    <3>1. e \in Nat /\ x - from = e + d
      BY <1>0, <2>1
    <3>2. Within(g, from, LastTick) + b <= Burst + Flow(e)
      BY <2>1 DEF Fits
    <3>3. r <= b + Flow(d)
      OBVIOUS
    <3> HIDE DEF e, d, v, x
    <3>4. Flow(e + d) = Flow(e) + Flow(d) /\ Flow(e) \in Nat /\ Flow(d) \in Nat
      BY <1>0, <3>1, FlowAdds
    <3>5. Within(g, from, LastTick) + r <= Burst + Flow(e + d)
      BY <1>0, <2>0, <3>2, <3>3, <3>4
    <3> QED BY <3>1, <3>5
  <2>2. CASE from > v
    <3>1. Within(g, from, LastTick) = 0
      BY <2>2 DEF Fits
    <3> DEFINE e == x - from
    <3>2. e \in Nat
      BY <1>0, <1>2
    <3> HIDE DEF e
    <3>3. Flow(e) \in Nat
      BY <3>2, FlowGrows
    <3>4. Within(g, from, LastTick) + r <= Burst + Flow(e)
      BY <1>0, <3>1, <3>3
    <3> QED BY <3>4 DEF e
  <2> QED BY <1>0, <2>1, <2>2
<1>3. ASSUME NEW from \in 0 .. LastTick, from > x PROVE Within(g, from, LastTick) = 0
  <2>1. from > v
    BY <1>0, <1>3
  <2> QED BY <2>1 DEF Fits
<1> QED BY <1>1, <1>2, <1>3 DEF Fits

\* The stretch of time that was used up is widened to the call's tick.
LEMMA RefillUsed ==
  ASSUME LimiterTypes, NEW g \in Book, NEW present \in 0 .. LastTick, NEW s \in Nat,
         NEW u \in 0 .. present, NEW b \in Nat, Used(g, s, u, b, present),
         NEW c \in 0 .. present, NEW back \in Nat, NEW r \in Nat,
         \/ r = Burst
         \/ c >= u /\ back = s /\ r = b + Flow(c - u)
         \/ c < u /\ back = s + (u - c) /\ r = b
  PROVE  Used(g, back, c, r, present)
<1>0. LastTick \in Nat /\ Burst \in Nat /\ present \in Nat
  BY DEF LimiterTypes
<1>p. PICK from \in 0 .. u : \E to \in u .. present :
        Within(g, from, to) + b + Flow(s) >= Burst + Flow(to - from)
  BY DEF Used
<1>q. PICK to \in u .. present : Within(g, from, to) + b + Flow(s) >= Burst + Flow(to - from)
  BY <1>p
<1> DEFINE e == to - from
<1>e. /\ e \in Nat /\ from \in 0 .. to /\ to \in 0 .. LastTick /\ u \in Nat /\ c \in Nat /\ from \in Nat
      /\ to \in Nat /\ from <= u /\ u <= to /\ to <= present
  BY <1>0
<1>b. Within(g, from, to) + b + Flow(s) >= Burst + Flow(e)
  BY <1>q
<1> HIDE DEF e
<1>1. CASE r = Burst
  <2>1. Within(g, c, c) \in Nat /\ Flow(0) \in Nat /\ Flow(back) \in Nat
    <3>1. c \in 0 .. LastTick /\ c \in 0 .. c /\ c \in c .. LastTick
      BY <1>0
    <3>2. Within(g, c, c) \in Nat
      BY <3>1, WithinGrows
    <3> QED BY <3>2, FlowGrows
  <2>2. Flow(0) = 0
    <3>1. Rate \in Nat
      BY DEF LimiterTypes
    <3> QED BY <3>1 DEF Flow
  <2>3. c - c = 0
    OBVIOUS
  <2>4. Within(g, c, c) + r + Flow(back) >= Burst + Flow(c - c)
    BY <1>0, <1>1, <2>1, <2>2, <2>3
  <2>5. c \in 0 .. c /\ c \in c .. present
    BY <1>0
  <2> QED BY <2>4, <2>5 DEF Used
<1>2. CASE c >= u /\ back = s /\ r = b + Flow(c - u)
  <2> DEFINE f == c - u
             later == IF to >= c THEN to ELSE c
             w == later - from
  <2>1. f \in Nat /\ later \in c .. present /\ later \in to .. LastTick /\ w \in Nat /\ w <= e + f
        /\ e + f \in Nat /\ from \in 0 .. c /\ from \in 0 .. from
    BY <1>0, <1>e, <1>2 DEF e
  <2> HIDE DEF w, f, later
  <2>2. /\ Within(g, from, to) \in Nat /\ Within(g, from, later) \in Nat
        /\ Within(g, from, to) <= Within(g, from, later)
    BY <1>e, <2>1, WithinGrows
  <2>3. Flow(w) <= Flow(e + f) /\ Flow(w) \in Nat /\ Flow(e + f) = Flow(e) + Flow(f)
        /\ Flow(e) \in Nat /\ Flow(f) \in Nat
    BY <1>e, <2>1, FlowGrows, FlowAdds
  <2>4. Flow(s) \in Nat
    BY FlowGrows
  <2>5. r = b + Flow(f)
    BY <1>2 DEF f
  <2>6. Within(g, from, later) + r + Flow(back) >= Burst + Flow(w)
    BY <1>0, <1>2, <1>b, <2>2, <2>3, <2>4, <2>5
  <2>7. w = later - from
    BY DEF w
  <2> QED BY <2>1, <2>6, <2>7 DEF Used
<1>3. CASE c < u /\ back = s + (u - c) /\ r = b
  <2> DEFINE f == u - c
             earlier == IF from <= c THEN from ELSE c
             w == to - earlier
  <2>1. f \in Nat /\ earlier \in 0 .. c /\ earlier \in 0 .. from /\ w \in Nat /\ w <= e + f
        /\ e + f \in Nat /\ to \in c .. present /\ to \in to .. LastTick /\ back = s + f
    BY <1>0, <1>e, <1>3 DEF e
  <2> HIDE DEF w, f, earlier
  <2>2. /\ Within(g, from, to) \in Nat /\ Within(g, earlier, to) \in Nat
        /\ Within(g, from, to) <= Within(g, earlier, to)
    BY <1>e, <2>1, WithinGrows
  <2>3. Flow(w) <= Flow(e + f) /\ Flow(w) \in Nat /\ Flow(e + f) = Flow(e) + Flow(f)
        /\ Flow(e) \in Nat /\ Flow(f) \in Nat
    BY <1>e, <2>1, FlowGrows, FlowAdds
  <2>4. Flow(back) = Flow(s) + Flow(f) /\ Flow(s) \in Nat
    BY <2>1, FlowAdds
  <2>5. r = b
    BY <1>3
  <2>6. Within(g, earlier, to) + r + Flow(back) >= Burst + Flow(w)
    BY <1>0, <1>b, <2>2, <2>3, <2>4, <2>5
  <2>7. w = to - earlier
    BY DEF w
  <2> QED BY <2>1, <2>6, <2>7 DEF Used
<1> QED BY <1>1, <1>2, <1>3

\* A charge is granted out of the tokens.
LEMMA GrantFits ==
  ASSUME LimiterTypes, NEW g \in Book, NEW present \in 0 .. LastTick, NEW c \in 0 .. present,
         NEW s \in Nat, NEW r \in Nat, Fits(g, s, c, r), Used(g, s, c, r, present),
         NEW n \in Nat, n <= r, NEW h, h = Charged(g, c, n)
  PROVE  h \in Book /\ Fits(h, s, c, r - n) /\ Used(h, s, c, r - n, present)
<1>0. LastTick \in Nat /\ Burst \in Nat /\ c \in 0 .. LastTick /\ c \in Nat /\ present \in Nat
  BY DEF LimiterTypes
<1>1. /\ h \in Book
      /\ \A to \in 0 .. LastTick : \A from \in 0 .. to :
           /\ Within(g, from, to) \in Nat
           /\ from <= c /\ c <= to => Within(h, from, to) = Within(g, from, to) + n
           /\ ~ (from <= c /\ c <= to) => Within(h, from, to) = Within(g, from, to)
  <2>1. /\ Charged(g, c, n) \in Book
        /\ \A to \in 0 .. LastTick : \A from \in 0 .. to :
             /\ Within(g, from, to) \in Nat
             /\ from <= c /\ c <= to =>
                  Within(Charged(g, c, n), from, to) = Within(g, from, to) + n
             /\ ~ (from <= c /\ c <= to) =>
                  Within(Charged(g, c, n), from, to) = Within(g, from, to)
    <3>1. g \in Book /\ c \in 0 .. LastTick /\ n \in Nat
      BY <1>0
    <3> QED BY <3>1, WithinGrant
  <2> QED BY <2>1
<1>l. LastTick \in 0 .. LastTick /\ \A from \in 0 .. LastTick : from \in 0 .. LastTick
  BY <1>0
<1>2. ASSUME NEW to \in 0 .. LastTick, NEW from \in 0 .. to
      PROVE  Within(h, from, to) <= Burst + Flow(to - from + s)
  <2>1. CASE ~ (from <= c /\ c <= to)
    BY <1>1, <2>1 DEF Fits
  <2>2. CASE from <= c /\ c <= to
    <3> DEFINE i == c + s - from
               j == to - from + s
    <3>1. i \in Nat /\ j \in Nat /\ i <= j /\ from <= c + s /\ from \in 0 .. LastTick
      BY <1>0, <2>2
    <3>2. Within(g, from, LastTick) + r <= Burst + Flow(i)
      BY <3>1 DEF Fits
    <3>3. /\ Within(g, from, to) \in Nat /\ Within(g, from, LastTick) \in Nat
          /\ Within(g, from, to) <= Within(g, from, LastTick)
      <4>1. LastTick \in to .. LastTick /\ from \in 0 .. from
        BY <1>0
      <4> QED BY <4>1, WithinGrows
    <3>4. Within(h, from, to) = Within(g, from, to) + n
      BY <1>1, <2>2
    <3> HIDE DEF i, j
    <3>5. Flow(i) <= Flow(j) /\ Flow(i) \in Nat /\ Flow(j) \in Nat
      BY <3>1, FlowGrows
    <3>6. Within(h, from, to) <= Burst + Flow(j)
      BY <1>0, <3>2, <3>3, <3>4, <3>5
    <3> QED BY <3>6 DEF j
  <2> QED BY <2>1, <2>2
<1>3. ASSUME NEW from \in 0 .. LastTick, from <= c + s
      PROVE  Within(h, from, LastTick) + (r - n) <= Burst + Flow(c + s - from)
  <2>1. Within(g, from, LastTick) + r <= Burst + Flow(c + s - from) /\ Within(g, from, LastTick) \in Nat
    BY <1>1, <1>3, <1>l DEF Fits
  <2>2. Within(h, from, LastTick) = Within(g, from, LastTick) + n
          \/ Within(h, from, LastTick) = Within(g, from, LastTick)
    BY <1>1, <1>l
  <2> DEFINE i == c + s - from
  <2>3. i \in Nat
    BY <1>0, <1>3
  <2> HIDE DEF i
  <2>4. Flow(i) \in Nat
    BY <2>3, FlowGrows
  <2>5. Within(g, from, LastTick) + r <= Burst + Flow(i)
    BY <2>1 DEF i
  <2>6. Within(h, from, LastTick) + (r - n) <= Burst + Flow(i)
    BY <1>0, <2>1, <2>2, <2>4, <2>5
  <2> QED BY <2>6 DEF i
<1>4. ASSUME NEW from \in 0 .. LastTick, from > c + s PROVE Within(h, from, LastTick) = 0
  <2>1. ~ (from <= c)
    BY <1>0, <1>4
  <2>2. Within(h, from, LastTick) = Within(g, from, LastTick)
    BY <1>1, <1>l, <2>1
  <2> QED BY <1>4, <2>2 DEF Fits
<1>5. r - n <= Burst
  BY <1>0 DEF Fits
<1>6. Fits(h, s, c, r - n)
  BY <1>2, <1>3, <1>4, <1>5 DEF Fits
<1>7. Used(h, s, c, r - n, present)
  <2>1. PICK from \in 0 .. c : \E to \in c .. present :
          Within(g, from, to) + r + Flow(s) >= Burst + Flow(to - from)
    BY DEF Used
  <2>2. PICK to \in c .. present : Within(g, from, to) + r + Flow(s) >= Burst + Flow(to - from)
    BY <2>1
  <2>3. to \in 0 .. LastTick /\ from \in 0 .. to /\ from <= c /\ c <= to
    BY <1>0
  <2>4. Within(h, from, to) = Within(g, from, to) + n /\ Within(g, from, to) \in Nat
    BY <1>1, <2>3
  <2>5. Within(h, from, to) + (r - n) = Within(g, from, to) + r
    BY <2>4
  <2>6. Within(h, from, to) + (r - n) + Flow(s) >= Burst + Flow(to - from)
    BY <2>2, <2>5
  <2> QED BY <2>6 DEF Used
<1> QED BY <1>1, <1>6, <1>7

\* What a call has in hand.
Calls == [key : Keys, count : Charges, current : Nat]

\* What a refusal rests on stays true: later grants only add to the stretch of time.
Exhausted(c) ==
  /\ c \in Calls
  /\ \E from \in 0 .. c.current : \E to \in c.current .. clock :
       Within(granted[c.key], from, to) + c.count + Flow(setback[c.key]) > Burst + Flow(to - from)

\* The bucket of a client and its book agree.
Kept(k) ==
  /\ buckets[k].updated \in 0 .. clock /\ buckets[k].tokens \in Nat
  /\ Fits(granted[k], setback[k], buckets[k].updated, buckets[k].tokens)
  /\ Used(granted[k], setback[k], buckets[k].updated, buckets[k].tokens, clock)

LimiterInv ==
  /\ clock \in 0 .. LastTick
  /\ DOMAIN buckets \subseteq Keys
  /\ granted \in [Keys -> Book]
  /\ setback \in [Keys -> Nat]
  /\ \A k \in Keys \ DOMAIN buckets : setback[k] = 0 /\ \A t \in 0 .. LastTick : granted[k][t] = 0
  /\ \A k \in DOMAIN buckets : Kept(k)
  /\ call \in [Threads -> Calls \cup {Limiter!NoCall}]
  /\ \A t \in Threads : call[t] # Limiter!NoCall => call[t].current <= clock
  /\ \A c \in refused : Exhausted(c)

\* The tokens of a refilled bucket are the smaller of two numbers.
LEMMA SmallerOf ==
  ASSUME NEW a \in Nat, NEW b \in Nat, NEW m, m = Limiter!Min({a, b})
  PROVE  m \in Nat /\ m <= a /\ m <= b /\ (m = a \/ m = b)
<1> DEFINE S == {a, b}
<1>1. \E x \in S : \A y \in S : x <= y
  <2>1. CASE a <= b
    BY <2>1
  <2>2. CASE b <= a
    BY <2>2
  <2> QED BY <2>1, <2>2
<1>2. m = CHOOSE x \in S : \A y \in S : x <= y
  BY DEF Limiter!Min
<1>3. m \in S /\ \A y \in S : m <= y
  BY <1>1, <1>2
<1> QED BY <1>3

\* A call under way and the client it is about.
LEMMA CallTyped ==
  ASSUME LimiterTypes, LimiterInv, NEW c \in Calls, c.current <= clock
  PROVE  /\ c.key \in Keys /\ c.current \in 0 .. clock /\ c.count \in Nat /\ setback[c.key] \in Nat
         /\ granted[c.key] \in Book /\ clock \in Nat /\ clock \in 0 .. LastTick /\ Burst \in Nat
         /\ c.current \in 0 .. LastTick /\ clock \in c.current .. LastTick
<1>1. c.key \in Keys /\ c.count \in Charges /\ c.current \in Nat
  BY DEF Calls
<1>2. c.count \in Nat /\ Burst \in Nat /\ LastTick \in Nat /\ clock \in 0 .. LastTick
  BY <1>1 DEF LimiterTypes, LimiterInv
<1>3. granted[c.key] \in Book /\ setback[c.key] \in Nat
  BY <1>1 DEF LimiterInv
<1>4. /\ clock \in Nat /\ c.current \in 0 .. clock /\ c.current \in 0 .. LastTick
      /\ clock \in c.current .. LastTick
  BY <1>1, <1>2
<1> QED BY <1>1, <1>2, <1>3, <1>4

\* What a call finds in the bucket, and what it sets the bucket back.
LEMMA CallFinds ==
  ASSUME LimiterTypes, LimiterInv, NEW c \in Calls, c.current <= clock
  PROVE  /\ Limiter!Refilled(c.key, c.current) \in Nat /\ Limiter!Refilled(c.key, c.current) <= Burst
         /\ Limiter!Overtaken(c) \in Nat
         /\ Fits(granted[c.key], setback[c.key] + Limiter!Overtaken(c), c.current,
                 Limiter!Refilled(c.key, c.current))
         /\ Used(granted[c.key], setback[c.key] + Limiter!Overtaken(c), c.current,
                 Limiter!Refilled(c.key, c.current), clock)
<1>k. PICK k : k = c.key
  OBVIOUS
<1>c. PICK n : n = c.current
  OBVIOUS
<1>r. PICK r : r = Limiter!Refilled(k, n)
  OBVIOUS
<1>o. PICK o : o = Limiter!Overtaken(c)
  OBVIOUS
<1>1. /\ k \in Keys /\ n \in 0 .. clock /\ n \in 0 .. LastTick /\ clock \in n .. LastTick
      /\ clock \in 0 .. LastTick
      /\ granted[k] \in Book /\ setback[k] \in Nat /\ {Burst, Rate, LastTick} \subseteq Nat
  BY <1>k, <1>c DEF LimiterTypes, LimiterInv, Calls
<1>2. CASE k \notin DOMAIN buckets
  <2>1. r = Burst /\ o = 0
    BY <1>2, <1>r, <1>o, <1>k DEF Limiter!Refilled, Limiter!Overtaken
  <2>2. setback[k] = 0 /\ \A t \in 0 .. LastTick : granted[k][t] = 0
    BY <1>1, <1>2 DEF LimiterInv
  <2>3. Fits(granted[k], 0, n, Burst) /\ Used(granted[k], 0, n, Burst, clock)
    BY <1>1, <2>2, FreshFits
  <2>4. setback[k] + o = 0 /\ r \in Nat /\ r <= Burst /\ o \in Nat
    BY <1>1, <2>1, <2>2
  <2> QED BY <1>k, <1>c, <1>r, <1>o, <2>1, <2>3, <2>4
<1>3. CASE k \in DOMAIN buckets
  <2>u. PICK u : u = buckets[k].updated
    OBVIOUS
  <2>b. PICK b : b = buckets[k].tokens
    OBVIOUS
  <2>s. PICK s : s = setback[k]
    OBVIOUS
  <2>1. /\ u \in 0 .. clock /\ b \in Nat /\ Fits(granted[k], s, u, b)
        /\ Used(granted[k], s, u, b, clock) /\ s \in Nat
    BY <1>1, <1>3, <2>u, <2>b, <2>s DEF LimiterInv, Kept
  <2>n. u \in Nat /\ n \in Nat /\ clock \in Nat
    BY <1>1, <2>1
  <2>2. o = IF u > n THEN u - n ELSE 0
    BY <1>3, <1>o, <1>k, <1>c, <2>u DEF Limiter!Overtaken
  <2> DEFINE gain == IF n > u THEN n - u ELSE 0
  <2>3. gain \in Nat
    BY <2>n
  <2>4. r = Limiter!Min({Burst, b + gain * Rate})
    BY <1>3, <1>r, <2>u, <2>b DEF Limiter!Refilled
  <2> HIDE DEF gain
  <2>5. Flow(gain) \in Nat
    BY <2>3, FlowGrows
  <2>6. b + Flow(gain) \in Nat /\ Burst \in Nat /\ r = Limiter!Min({Burst, b + Flow(gain)})
    BY <1>1, <2>1, <2>4, <2>5 DEF Flow
  <2>7. r \in Nat /\ r <= Burst /\ r <= b + Flow(gain) /\ (r = Burst \/ r = b + Flow(gain))
    <3> DEFINE x == b + Flow(gain)
    <3>1. x \in Nat /\ r = Limiter!Min({Burst, x})
      BY <2>6
    <3> HIDE DEF x
    <3>2. r \in Nat /\ r <= Burst /\ r <= x /\ (r = Burst \/ r = x)
      BY <2>6, <3>1, SmallerOf
    <3> QED BY <3>2 DEF x
  <2>8. o \in Nat /\ s + o \in Nat /\ s <= s + o /\ u + s <= n + (s + o)
        /\ (n + (s + o)) - (u + s) = gain
    BY <2>n, <2>1, <2>2 DEF gain
  <2>9. Fits(granted[k], s + o, n, r)
    <3>1. r <= b + Flow((n + (s + o)) - (u + s))
      BY <2>7, <2>8
    <3> QED BY <1>1, <2>1, <2>n, <2>7, <2>8, <3>1, RefillFits
  <2>10. Used(granted[k], s + o, n, r, clock)
    <3>1. CASE n >= u
      <4>1. gain = n - u /\ s + o = s
        BY <2>n, <2>1, <2>2, <3>1 DEF gain
      <4>2. r = Burst \/ r = b + Flow(n - u)
        BY <2>7, <4>1
      <4> QED BY <1>1, <2>1, <2>7, <2>8, <3>1, <4>1, <4>2, RefillUsed
    <3>2. CASE n < u
      <4>1. gain = 0 /\ s + o = s + (u - n)
        BY <2>n, <2>1, <2>2, <3>2 DEF gain
      <4>2. Flow(0) = 0
        BY <1>1 DEF Flow
      <4>3. r = Burst \/ r = b
        BY <2>1, <2>7, <4>1, <4>2
      <4> QED BY <1>1, <2>1, <2>7, <2>8, <3>2, <4>1, <4>3, RefillUsed
    <3> QED BY <2>n, <3>1, <3>2
  <2> QED BY <1>k, <1>c, <1>r, <1>o, <2>s, <2>7, <2>8, <2>9, <2>10
<1> QED BY <1>2, <1>3

\* The clients not charged keep their buckets.
LEMMA OthersKept ==
  ASSUME LimiterInv, NEW k \in DOMAIN buckets, clock' = clock, setback'[k] = setback[k],
         buckets'[k] = buckets[k], granted'[k] = granted[k]
  PROVE  Kept(k)'
BY DEF LimiterInv, Kept, Fits, Used, Within, Flow

\* A refusal that is on record stays justified while books, set-backs and time only grow.
LEMMA StaysExhausted ==
  ASSUME LimiterTypes, LimiterInv, NEW c, Exhausted(c), clock <= clock', clock' \in 0 .. LastTick,
         setback' \in [Keys -> Nat], setback[c.key] <= setback'[c.key],
         \A to \in 0 .. clock : \A from \in 0 .. to :
           /\ Within(granted'[c.key], from, to) \in Nat
           /\ Within(granted[c.key], from, to) <= Within(granted'[c.key], from, to)
  PROVE  Exhausted(c)'
<1>1. PICK from \in 0 .. c.current : \E to \in c.current .. clock :
        Within(granted[c.key], from, to) + c.count + Flow(setback[c.key]) > Burst + Flow(to - from)
  BY DEF Exhausted
<1>2. PICK to \in c.current .. clock :
        Within(granted[c.key], from, to) + c.count + Flow(setback[c.key]) > Burst + Flow(to - from)
  BY <1>1
<1>3. /\ c.current \in Nat /\ c.count \in Nat /\ c.key \in Keys /\ clock \in Nat /\ clock' \in Nat
      /\ Burst \in Nat /\ setback[c.key] \in Nat /\ setback'[c.key] \in Nat /\ granted[c.key] \in Book
  <2>1. c.current \in Nat /\ c.count \in Charges /\ c.key \in Keys
    BY DEF Exhausted, Calls
  <2>2. c.count \in Nat /\ Burst \in Nat /\ LastTick \in Nat
    BY <2>1 DEF LimiterTypes
  <2>3. clock \in Nat /\ clock' \in Nat
    BY <2>2 DEF LimiterInv
  <2> QED BY <2>1, <2>2, <2>3 DEF LimiterInv
<1>4. to \in 0 .. clock /\ from \in 0 .. to /\ to \in c.current .. clock' /\ to - from \in Nat
      /\ to \in 0 .. LastTick
  BY <1>3 DEF LimiterInv, LimiterTypes
<1>5. Flow(setback[c.key]) <= Flow(setback'[c.key])
      /\ Flow(setback[c.key]) \in Nat /\ Flow(setback'[c.key]) \in Nat
  BY <1>3, FlowGrows
<1>6. Flow(to - from) \in Nat /\ Within(granted[c.key], from, to) \in Nat
  <2>1. Within(granted[c.key], from, to) \in Nat
    BY <1>3, <1>4, WithinGrows
  <2> QED BY <1>4, <2>1, FlowGrows
<1>w. PICK w : w = Within(granted'[c.key], from, to)
  OBVIOUS
<1>7. w \in Nat /\ Within(granted[c.key], from, to) <= w
  BY <1>4, <1>w
<1>8. w + c.count + Flow(setback'[c.key]) > Burst + Flow(to - from)
  BY <1>2, <1>3, <1>5, <1>6, <1>7
<1>9. Within(granted'[c.key], from, to) + c.count + Flow(setback'[c.key]) > Burst + Flow(to - from)
  BY <1>8, <1>w
<1> QED BY <1>4, <1>9 DEF Exhausted, Within, Flow, Calls

\* An empty table.
LEMMA LimiterInit ==
  ASSUME LimiterTypes, Limiter!Init
  PROVE  LimiterInv
<1>1. clock = 0 /\ DOMAIN buckets = {} /\ refused = {} /\ setback = [k \in Keys |-> 0]
  BY DEF Limiter!Init
<1>2. \A k \in Keys : granted[k] = [t \in 0 .. LastTick |-> 0]
  BY DEF Limiter!Init, Limiter!Nothing
<1>3. granted \in [Keys -> Book]
  BY DEF Limiter!Init, Limiter!Nothing, Book
<1>4. call \in [Threads -> {Limiter!NoCall}]
  BY DEF Limiter!Init
<1> QED BY <1>1, <1>2, <1>3, <1>4 DEF LimiterInv, LimiterTypes

\* Time passes: a stretch of time that was used up is still in the past.
LEMMA LimiterTick ==
  ASSUME LimiterTypes, LimiterInv, Limiter!Tick
  PROVE  LimiterInv'
<1>1. /\ clock \in 0 .. LastTick /\ clock' \in 0 .. LastTick /\ clock <= clock'
      /\ buckets' = buckets /\ call' = call /\ granted' = granted /\ refused' = refused
      /\ setback' = setback /\ clock \in Nat /\ clock' \in Nat
  BY DEF Limiter!Tick, LimiterInv, LimiterTypes
<1>2. ASSUME NEW k \in DOMAIN buckets PROVE Kept(k)'
  <2>1. Kept(k)
    BY DEF LimiterInv
  <2>2. buckets[k].updated \in 0 .. clock'
    BY <1>1, <2>1 DEF Kept
  <2>3. \A to : to \in buckets[k].updated .. clock => to \in buckets[k].updated .. clock'
    BY <1>1, <2>1 DEF Kept
  <2> QED BY <1>1, <2>1, <2>2, <2>3 DEF Kept, Used, Fits, Within, Flow
<1>3. ASSUME NEW t \in Threads, call'[t] # Limiter!NoCall PROVE call'[t].current <= clock'
  <2>1. call[t].current <= clock /\ call[t].current \in Nat
    BY <1>1, <1>3 DEF LimiterInv, Calls
  <2> QED BY <1>1, <2>1
<1>4. ASSUME NEW c \in refused PROVE Exhausted(c)'
  <2>1. Exhausted(c) /\ c.key \in Keys
    BY DEF LimiterInv, Exhausted, Calls
  <2>2. setback[c.key] \in Nat /\ granted[c.key] \in Book
    BY <2>1 DEF LimiterInv
  <2>3. ASSUME NEW to \in 0 .. clock, NEW from \in 0 .. to PROVE Within(granted[c.key], from, to) \in Nat
    <3>1. to \in 0 .. LastTick /\ to \in to .. LastTick /\ from \in 0 .. from
      BY <1>1 DEF LimiterTypes
    <3> QED BY <2>2, <3>1, WithinGrows
  <2>4. setback' \in [Keys -> Nat] /\ setback[c.key] <= setback'[c.key]
    BY <1>1, <2>2 DEF LimiterInv
  <2>5. \A to \in 0 .. clock : \A from \in 0 .. to :
          /\ Within(granted'[c.key], from, to) \in Nat
          /\ Within(granted[c.key], from, to) <= Within(granted'[c.key], from, to)
    BY <1>1, <2>3
  <2> QED BY <1>1, <2>1, <2>4, <2>5, StaysExhausted
<1> QED BY <1>1, <1>2, <1>3, <1>4 DEF LimiterInv

\* A call reads the clock.
LEMMA LimiterEnter ==
  ASSUME LimiterTypes, LimiterInv, NEW t \in Threads, NEW k \in Keys, NEW n \in Charges, Limiter!Enter(t, k, n)
  PROVE  LimiterInv'
<1> DEFINE c == [key |-> k, count |-> n, current |-> clock]
<1>1. /\ buckets' = buckets /\ clock' = clock /\ granted' = granted /\ refused' = refused
      /\ setback' = setback /\ call' = [call EXCEPT ![t] = c]
  BY DEF Limiter!Enter
<1>2. c \in Calls /\ c.current <= clock
  BY DEF LimiterInv, LimiterTypes, Calls
<1> HIDE DEF c
<1>3. call' \in [Threads -> Calls \cup {Limiter!NoCall}]
  BY <1>1, <1>2 DEF LimiterInv
<1>4. \A s \in Threads : call'[s] # Limiter!NoCall => call'[s].current <= clock'
  BY <1>1, <1>2 DEF LimiterInv
<1>5. \A x \in DOMAIN buckets : Kept(x)'
  BY <1>1, OthersKept
<1>6. \A x \in refused : Exhausted(x)'
  BY <1>1 DEF LimiterInv, Exhausted, Within, Flow
<1> QED BY <1>1, <1>3, <1>4, <1>5, <1>6 DEF LimiterInv

\* A call ends.
LEMMA CallEnds ==
  ASSUME LimiterInv, NEW t \in Threads, call' = [call EXCEPT ![t] = Limiter!NoCall], clock' = clock
  PROVE  /\ call' \in [Threads -> Calls \cup {Limiter!NoCall}]
         /\ \A s \in Threads : call'[s] # Limiter!NoCall => call'[s].current <= clock'
BY DEF LimiterInv

\* A refusal sets the bucket to what is in it, and rests on a stretch of time that is
\* used up.
LEMMA LimiterRefuse ==
  ASSUME LimiterTypes, LimiterInv, NEW t \in Threads, Limiter!Refuse(t)
  PROVE  LimiterInv'
<1>c. PICK c : c = call[t]
  OBVIOUS
<1>r. PICK r : r = Limiter!Refilled(c.key, c.current)
  OBVIOUS
<1>o. PICK o : o = Limiter!Overtaken(c)
  OBVIOUS
<1>1. /\ c # Limiter!NoCall /\ r < c.count
      /\ buckets' = Limiter!WithBucket(buckets, c.key, r, c.current)
      /\ refused' = refused \cup {c} /\ call' = [call EXCEPT ![t] = Limiter!NoCall]
      /\ clock' = clock /\ granted' = granted
      /\ setback' = [setback EXCEPT ![c.key] = @ + o]
  BY <1>c, <1>r, <1>o DEF Limiter!Refuse
<1>2. c \in Calls /\ c.current <= clock
  BY <1>c, <1>1 DEF LimiterInv
<1>3. /\ c.key \in Keys /\ c.current \in 0 .. clock /\ c.count \in Nat /\ setback[c.key] \in Nat
      /\ granted[c.key] \in Book /\ clock \in Nat /\ clock \in 0 .. LastTick /\ Burst \in Nat
  BY <1>2, CallTyped
<1>4. /\ r \in Nat /\ r <= Burst /\ o \in Nat
      /\ Fits(granted[c.key], setback[c.key] + o, c.current, r)
      /\ Used(granted[c.key], setback[c.key] + o, c.current, r, clock)
  BY <1>r, <1>o, <1>2, CallFinds
<1>5. /\ DOMAIN buckets' = DOMAIN buckets \cup {c.key}
      /\ buckets'[c.key].tokens = r /\ buckets'[c.key].updated = c.current
      /\ \A x \in DOMAIN buckets \ {c.key} : buckets'[x] = buckets[x]
  BY <1>1 DEF Limiter!WithBucket
<1>s. /\ setback' \in [Keys -> Nat] /\ setback'[c.key] = setback[c.key] + o
      /\ \A x \in Keys \ {c.key} : setback'[x] = setback[x]
  BY <1>1, <1>3, <1>4 DEF LimiterInv
<1>6. ASSUME NEW k \in DOMAIN buckets' PROVE Kept(k)'
  <2>1. CASE k = c.key
    <3>1. /\ buckets'[k].updated \in 0 .. clock' /\ buckets'[k].tokens \in Nat
          /\ Fits(granted'[k], setback'[k], buckets'[k].updated, buckets'[k].tokens)
          /\ Used(granted'[k], setback'[k], buckets'[k].updated, buckets'[k].tokens, clock')
      BY <1>1, <1>3, <1>4, <1>5, <1>s, <2>1
    <3> QED BY <3>1 DEF Kept, Fits, Used, Within, Flow
  <2>2. CASE k # c.key
    <3>1. k \in DOMAIN buckets /\ k \in Keys
      BY <1>5, <2>2 DEF LimiterInv
    <3> QED BY <1>1, <1>5, <1>s, <2>2, <3>1, OthersKept
  <2> QED BY <2>1, <2>2
<1>7. ASSUME NEW x \in refused PROVE Exhausted(x)'
  <2>1. Exhausted(x) /\ x.key \in Keys
    BY DEF LimiterInv, Exhausted, Calls
  <2>2. granted[x.key] \in Book /\ setback[x.key] \in Nat /\ setback[x.key] <= setback'[x.key]
    <3>1. setback[x.key] \in Nat /\ granted[x.key] \in Book
      BY <2>1 DEF LimiterInv
    <3> QED BY <1>3, <1>4, <1>s, <2>1, <3>1
  <2>3. ASSUME NEW to \in 0 .. clock, NEW from \in 0 .. to PROVE Within(granted[x.key], from, to) \in Nat
    <3>1. to \in 0 .. LastTick /\ to \in to .. LastTick /\ from \in 0 .. from
      BY <1>3 DEF LimiterTypes
    <3> QED BY <2>2, <3>1, WithinGrows
  <2>4. \A to \in 0 .. clock : \A from \in 0 .. to :
          /\ Within(granted'[x.key], from, to) \in Nat
          /\ Within(granted[x.key], from, to) <= Within(granted'[x.key], from, to)
    BY <1>1, <2>3
  <2>5. clock <= clock' /\ clock' \in 0 .. LastTick
    BY <1>1, <1>3
  <2> QED BY <1>s, <2>1, <2>2, <2>4, <2>5, StaysExhausted
<1>8. Exhausted(c)'
  <2>b. PICK back : back = setback[c.key] + o
    OBVIOUS
  <2>n. back \in Nat
    BY <1>3, <1>4, <2>b
  <2>1. PICK from \in 0 .. c.current : \E to \in c.current .. clock :
          Within(granted[c.key], from, to) + r + Flow(back) >= Burst + Flow(to - from)
    BY <1>4, <2>b DEF Used
  <2>2. PICK to \in c.current .. clock :
          Within(granted[c.key], from, to) + r + Flow(back) >= Burst + Flow(to - from)
    BY <2>1
  <2>3. Within(granted[c.key], from, to) \in Nat /\ Flow(to - from) \in Nat /\ Flow(back) \in Nat
    <3>1. to \in 0 .. LastTick /\ from \in 0 .. to /\ to - from \in Nat
          /\ to \in to .. LastTick /\ from \in 0 .. from
      BY <1>3 DEF LimiterTypes
    <3>2. Within(granted[c.key], from, to) \in Nat
      BY <1>3, <3>1, WithinGrows
    <3> QED BY <2>n, <3>1, <3>2, FlowGrows
  <2>4. Within(granted[c.key], from, to) + c.count + Flow(back) > Burst + Flow(to - from)
    BY <1>1, <1>3, <1>4, <2>2, <2>3
  <2>5. Within(granted'[c.key], from, to) + c.count + Flow(setback'[c.key]) > Burst + Flow(to - from)
    BY <1>1, <1>s, <2>b, <2>4
  <2> QED BY <1>1, <1>2, <2>5 DEF Exhausted, Within, Flow, Calls
<1>9. ASSUME NEW k \in Keys \ DOMAIN buckets'
      PROVE  setback'[k] = 0 /\ \A s \in 0 .. LastTick : granted'[k][s] = 0
  <2>1. k \in Keys \ DOMAIN buckets /\ k # c.key
    BY <1>5
  <2> QED BY <1>1, <1>s, <2>1 DEF LimiterInv
<1>10. DOMAIN buckets' \subseteq Keys /\ granted' \in [Keys -> Book] /\ clock' \in 0 .. LastTick
  BY <1>1, <1>3, <1>5 DEF LimiterInv
<1>11. \A x \in refused' : Exhausted(x)'
  BY <1>1, <1>7, <1>8
<1> QED BY <1>1, <1>s, <1>6, <1>9, <1>10, <1>11, CallEnds DEF LimiterInv

\* With a full table every other client is forgotten, and its refusals with it.
LEMMA LimiterAllow ==
  ASSUME LimiterTypes, LimiterInv, NEW t \in Threads, Limiter!Allow(t)
  PROVE  LimiterInv'
<1>c. PICK c : c = call[t]
  OBVIOUS
<1>r. PICK r : r = Limiter!Refilled(c.key, c.current)
  OBVIOUS
<1>o. PICK o : o = Limiter!Overtaken(c)
  OBVIOUS
<1>1. /\ c # Limiter!NoCall /\ r >= c.count
      /\ buckets' = Limiter!WithBucket(IF Limiter!Full THEN << >> ELSE buckets, c.key, r - c.count, c.current)
      /\ granted' = IF Limiter!Full
                      THEN Limiter!Granting(Limiter!Nothing, c.key, c.current, Burst - r + c.count)
                      ELSE Limiter!Granting(granted, c.key, c.current, c.count)
      /\ refused' = IF Limiter!Full THEN {} ELSE refused
      /\ setback' = IF Limiter!Full THEN [k \in Keys |-> 0] ELSE [setback EXCEPT ![c.key] = @ + o]
      /\ call' = [call EXCEPT ![t] = Limiter!NoCall]
      /\ clock' = clock
  BY <1>c, <1>r, <1>o DEF Limiter!Allow
<1>2. c \in Calls /\ c.current <= clock
  BY <1>c, <1>1 DEF LimiterInv
<1>3. /\ c.key \in Keys /\ c.current \in 0 .. clock /\ c.count \in Nat /\ setback[c.key] \in Nat
      /\ granted[c.key] \in Book /\ clock \in Nat /\ clock \in 0 .. LastTick /\ Burst \in Nat
      /\ c.current \in 0 .. LastTick /\ clock \in c.current .. LastTick
  BY <1>2, CallTyped
<1>4. /\ r \in Nat /\ r <= Burst /\ o \in Nat
      /\ Fits(granted[c.key], setback[c.key] + o, c.current, r)
      /\ Used(granted[c.key], setback[c.key] + o, c.current, r, clock)
  BY <1>r, <1>o, <1>2, CallFinds
<1>5. r - c.count \in Nat /\ granted \in [Keys -> Book]
  BY <1>1, <1>3, <1>4 DEF LimiterInv
<1>6. CASE Limiter!Full
  <2> DEFINE n == Burst - r + c.count
             zero == [s \in 0 .. LastTick |-> 0]
  <2>1. n \in Nat /\ n <= Burst /\ Burst - n = r - c.count
    BY <1>1, <1>3, <1>4, <1>5
  <2>2. /\ DOMAIN buckets' = {c.key}
        /\ buckets'[c.key].tokens = r - c.count /\ buckets'[c.key].updated = c.current
    BY <1>1, <1>6 DEF Limiter!WithBucket
  <2>3. granted' = [x \in Keys |-> [s \in 0 .. LastTick |-> 0 + (IF x = c.key /\ s >= c.current THEN n ELSE 0)]]
    BY <1>1, <1>6 DEF Limiter!Granting, Limiter!Nothing
  <2>4. zero \in Book /\ \A s \in 0 .. LastTick : zero[s] = 0
    BY DEF Book
  <2> HIDE DEF n
  <2>5. granted'[c.key] = [s \in 0 .. LastTick |-> zero[s] + (IF s >= c.current THEN n ELSE 0)]
    BY <1>3, <2>3
  <2>6. \A x \in Keys \ {c.key} : granted'[x] = zero
    BY <2>3
  <2>s. setback' \in [Keys -> Nat] /\ \A x \in Keys : setback'[x] = 0
    BY <1>1, <1>6
  <2> HIDE DEF zero
  <2>7. Fits(zero, 0, c.current, Burst) /\ Used(zero, 0, c.current, Burst, clock)
    BY <1>3, <2>4, FreshFits
  <2>h. PICK h : h = granted'[c.key]
    OBVIOUS
  <2>8. /\ h \in Book /\ Fits(h, 0, c.current, r - c.count)
        /\ Used(h, 0, c.current, r - c.count, clock)
    <3>1. h = Charged(zero, c.current, n)
      BY <2>5, <2>h DEF Charged
    <3>2. h \in Book /\ Fits(h, 0, c.current, Burst - n) /\ Used(h, 0, c.current, Burst - n, clock)
      BY <1>3, <2>1, <2>4, <2>7, <3>1, GrantFits
    <3> QED BY <2>1, <3>2
  <2>9. granted' \in [Keys -> Book]
    BY <2>3, <2>4, <2>6, <2>8, <2>h
  <2>10. Kept(c.key)'
    <3>1. /\ buckets'[c.key].updated \in 0 .. clock' /\ buckets'[c.key].tokens \in Nat
          /\ Fits(granted'[c.key], setback'[c.key], buckets'[c.key].updated, buckets'[c.key].tokens)
          /\ Used(granted'[c.key], setback'[c.key], buckets'[c.key].updated, buckets'[c.key].tokens, clock')
      BY <1>1, <1>3, <1>5, <2>2, <2>8, <2>h, <2>s
    <3> QED BY <3>1 DEF Kept, Fits, Used, Within, Flow
  <2>11. refused' = {} /\ \A x \in Keys \ DOMAIN buckets' : setback'[x] = 0
         /\ \A s \in 0 .. LastTick : granted'[x][s] = 0
    BY <1>1, <1>6, <2>2, <2>4, <2>6, <2>s
  <2>12. clock' \in 0 .. LastTick /\ DOMAIN buckets' \subseteq Keys /\ \A k \in DOMAIN buckets' : Kept(k)'
    BY <1>1, <1>3, <2>2, <2>10 DEF LimiterInv
  <2> QED BY <1>1, <2>9, <2>11, <2>12, <2>s, CallEnds DEF LimiterInv
<1>7. CASE ~Limiter!Full
  <2>1. /\ DOMAIN buckets' = DOMAIN buckets \cup {c.key}
        /\ buckets'[c.key].tokens = r - c.count /\ buckets'[c.key].updated = c.current
        /\ \A x \in DOMAIN buckets \ {c.key} : buckets'[x] = buckets[x]
    BY <1>1, <1>7 DEF Limiter!WithBucket
  <2>2. granted' = [x \in Keys |-> [s \in 0 .. LastTick |->
                       granted[x][s] + (IF x = c.key /\ s >= c.current THEN c.count ELSE 0)]]
    BY <1>1, <1>7 DEF Limiter!Granting
  <2>s. /\ setback' \in [Keys -> Nat] /\ setback'[c.key] = setback[c.key] + o
        /\ \A x \in Keys \ {c.key} : setback'[x] = setback[x]
    BY <1>1, <1>3, <1>4, <1>7 DEF LimiterInv
  <2>h. PICK h : h = granted'[c.key]
    OBVIOUS
  <2>3. h = Charged(granted[c.key], c.current, c.count)
    BY <1>3, <2>2, <2>h DEF Charged
  <2>4. ASSUME NEW x \in Keys \ {c.key} PROVE granted'[x] = granted[x]
    <3>1. granted[x] \in [0 .. LastTick -> Nat]
      BY <1>5 DEF Book
    <3>2. granted'[x] = [s \in 0 .. LastTick |-> granted[x][s] + 0]
      BY <2>2
    <3>3. ASSUME NEW s \in 0 .. LastTick PROVE granted'[x][s] = granted[x][s]
      <4>1. granted[x][s] \in Nat /\ granted'[x][s] = granted[x][s] + 0
        BY <3>1, <3>2
      <4> QED BY <4>1
    <3>4. granted'[x] = [s \in 0 .. LastTick |-> granted'[x][s]]
      BY <3>2
    <3>5. granted[x] = [s \in 0 .. LastTick |-> granted[x][s]]
      BY <3>1
    <3> QED BY <3>3, <3>4, <3>5
  <2>5. /\ h \in Book /\ Fits(h, setback[c.key] + o, c.current, r - c.count)
        /\ Used(h, setback[c.key] + o, c.current, r - c.count, clock)
    <3>1. setback[c.key] + o \in Nat
      BY <1>3, <1>4
    <3> QED BY <1>1, <1>3, <1>4, <2>3, <3>1, GrantFits
  <2>6. granted' \in [Keys -> Book]
    BY <1>5, <2>2, <2>4, <2>5, <2>h
  <2>7. ASSUME NEW k \in DOMAIN buckets' PROVE Kept(k)'
    <3>1. CASE k = c.key
      <4>1. /\ buckets'[k].updated \in 0 .. clock' /\ buckets'[k].tokens \in Nat
            /\ Fits(granted'[k], setback'[k], buckets'[k].updated, buckets'[k].tokens)
            /\ Used(granted'[k], setback'[k], buckets'[k].updated, buckets'[k].tokens, clock')
        BY <1>1, <1>3, <1>5, <2>1, <2>5, <2>h, <2>s, <3>1
      <4> QED BY <4>1 DEF Kept, Fits, Used, Within, Flow
    <3>2. CASE k # c.key
      <4>1. k \in DOMAIN buckets /\ k \in Keys
        BY <2>1, <3>2 DEF LimiterInv
      <4> QED BY <1>1, <2>1, <2>4, <2>s, <3>2, <4>1, OthersKept
    <3> QED BY <3>1, <3>2
  <2>8. ASSUME NEW x \in refused PROVE Exhausted(x)'
    <3>1. Exhausted(x) /\ x.key \in Keys
      BY DEF LimiterInv, Exhausted, Calls
    <3>2. setback[x.key] \in Nat /\ granted[x.key] \in Book /\ setback[x.key] <= setback'[x.key]
      <4>1. setback[x.key] \in Nat /\ granted[x.key] \in Book
        BY <3>1 DEF LimiterInv
      <4> QED BY <1>3, <1>4, <2>s, <3>1, <4>1
    <3>g. PICK g : g = granted'[x.key]
      OBVIOUS
    <3>3. ASSUME NEW to \in 0 .. clock, NEW from \in 0 .. to
          PROVE  Within(g, from, to) \in Nat /\ Within(granted[x.key], from, to) <= Within(g, from, to)
      <4>1. to \in 0 .. LastTick /\ to \in to .. LastTick /\ from \in 0 .. from
        BY <1>3 DEF LimiterTypes
      <4>2. Within(granted[x.key], from, to) \in Nat
        BY <3>2, <4>1, WithinGrows
      <4>3. CASE x.key # c.key
        <5>1. g = granted[x.key]
          BY <2>4, <3>1, <3>g, <4>3
        <5> QED BY <4>2, <5>1
      <4>4. CASE x.key = c.key
        <5>1. g = h /\ granted[x.key] = granted[c.key]
          BY <2>h, <3>g, <4>4
        <5>2. \/ Within(h, from, to) = Within(granted[c.key], from, to) + c.count
              \/ Within(h, from, to) = Within(granted[c.key], from, to)
          <6>1. granted[c.key] \in Book /\ c.current \in 0 .. LastTick /\ c.count \in Nat
            BY <1>3
          <6>2. PICK b : b = granted[c.key]
            OBVIOUS
          <6>3. b \in Book
            BY <6>1, <6>2
          <6>4. \/ Within(Charged(b, c.current, c.count), from, to) = Within(b, from, to) + c.count
                \/ Within(Charged(b, c.current, c.count), from, to) = Within(b, from, to)
            BY <4>1, <6>1, <6>3, WithinGrant
          <6> QED BY <2>3, <6>2, <6>4
        <5> QED BY <1>3, <4>2, <5>1, <5>2
      <4> QED BY <4>3, <4>4
    <3>4. \A to \in 0 .. clock : \A from \in 0 .. to :
            /\ Within(granted'[x.key], from, to) \in Nat
            /\ Within(granted[x.key], from, to) <= Within(granted'[x.key], from, to)
      BY <3>3, <3>g
    <3>5. clock <= clock' /\ clock' \in 0 .. LastTick
      BY <1>1, <1>3
    <3> QED BY <2>s, <3>1, <3>2, <3>4, <3>5, StaysExhausted
  <2>9. ASSUME NEW x \in Keys \ DOMAIN buckets'
        PROVE  setback'[x] = 0 /\ \A s \in 0 .. LastTick : granted'[x][s] = 0
    <3>1. x \in Keys \ DOMAIN buckets /\ x # c.key
      BY <2>1
    <3> QED BY <2>4, <2>s, <3>1 DEF LimiterInv
  <2>10. clock' \in 0 .. LastTick /\ DOMAIN buckets' \subseteq Keys /\ refused' = refused
    BY <1>1, <1>3, <1>7, <2>1 DEF LimiterInv
  <2> QED BY <1>1, <2>6, <2>7, <2>8, <2>9, <2>10, <2>s, CallEnds DEF LimiterInv
<1> QED BY <1>6, <1>7

\* Every step of the limiter.
LEMMA LimiterStep ==
  ASSUME LimiterTypes, LimiterInv, [Limiter!Next]_(Limiter!vars)
  PROVE  LimiterInv'
<1>1. CASE UNCHANGED Limiter!vars
  BY <1>1 DEF Limiter!vars, LimiterInv, Exhausted, Kept, Fits, Used, Within, Flow
<1>2. CASE Limiter!Tick
  BY <1>2, LimiterTick
<1>3. ASSUME NEW t \in Threads, NEW k \in Keys, NEW n \in Charges, Limiter!Enter(t, k, n) PROVE LimiterInv'
  BY <1>3, LimiterEnter
<1>4. ASSUME NEW t \in Threads, Limiter!Refuse(t) PROVE LimiterInv'
  BY <1>4, LimiterRefuse
<1>5. ASSUME NEW t \in Threads, Limiter!Allow(t) PROVE LimiterInv'
  BY <1>5, LimiterAllow
<1> QED BY <1>1, <1>2, <1>3, <1>4, <1>5 DEF Limiter!Next

\* The account says what the limiter promises.
LEMMA LimiterInvSound ==
  ASSUME LimiterTypes, LimiterInv
  PROVE  Limiter!RateBounded /\ Limiter!RefusedForReason
<1>1. Limiter!RateBounded
  <2> SUFFICES ASSUME NEW k \in Keys, NEW to \in 0 .. clock, NEW from \in 0 .. to
               PROVE  Limiter!GrantedIn(k, from, to) <= Burst + (to - from + setback[k]) * Rate
    BY DEF Limiter!RateBounded
  <2>1. to \in 0 .. LastTick /\ from \in 0 .. to /\ Burst \in Nat /\ setback[k] \in Nat
        /\ to - from + setback[k] \in Nat
    BY DEF LimiterInv, LimiterTypes
  <2>2. CASE k \in DOMAIN buckets
    <3>1. Within(granted[k], from, to) <= Burst + Flow(to - from + setback[k])
      BY <2>1, <2>2 DEF LimiterInv, Kept, Fits
    <3> QED BY <3>1 DEF Limiter!GrantedIn, Within, Flow
  <2>3. CASE k \notin DOMAIN buckets
    <3>1. granted[k][to] = 0 /\ (from # 0 => granted[k][from - 1] = 0)
      <4>1. from # 0 => from - 1 \in 0 .. LastTick
        BY <2>1 DEF LimiterTypes
      <4> QED BY <2>1, <2>3, <4>1 DEF LimiterInv
    <3>2. Within(granted[k], from, to) = 0
      BY <3>1 DEF Within
    <3>3. Flow(to - from + setback[k]) \in Nat
      BY <2>1, FlowGrows
    <3>4. Within(granted[k], from, to) <= Burst + Flow(to - from + setback[k])
      BY <2>1, <3>2, <3>3
    <3> QED BY <3>4 DEF Limiter!GrantedIn, Within, Flow
  <2> QED BY <2>2, <2>3
<1>2. Limiter!RefusedForReason
  BY DEF Limiter!RefusedForReason, LimiterInv, Exhausted, Limiter!GrantedIn, Within, Flow
<1> QED BY <1>1, <1>2

\* For any threads, clients, charges, capacity and rate: in no stretch of time is a client
\* granted more than a full bucket and what flows in meanwhile, and a call is refused only
\* if granting it would have broken this; both up to what flows in during the ticks by
\* which calls that were overtaken on the way to the lock set the client's bucket back.
THEOREM LimiterSoundHolds ==
  ASSUME Limiter!LimiterAssumption
  PROVE  Limiter!Spec => [](Limiter!RateBounded /\ Limiter!RefusedForReason)
<1>1. Limiter!Init => LimiterInv
  BY LimiterTyped, LimiterInit
<1>2. LimiterInv /\ [Limiter!Next]_(Limiter!vars) => LimiterInv'
  BY LimiterTyped, LimiterStep
<1>3. LimiterInv => Limiter!RateBounded /\ Limiter!RefusedForReason
  BY LimiterTyped, LimiterInvSound
<1> QED BY <1>1, <1>2, <1>3, PTL DEF Limiter!Spec

\* The clients a refusal put in the table since the last grant are in it.
TableInv ==
  /\ DOMAIN buckets \subseteq Keys
  /\ call \in [Threads -> Calls \cup {Limiter!NoCall}]
  /\ IsFiniteSet(DOMAIN buckets) /\ IsFiniteSet(entered)
  /\ Cardinality(DOMAIN buckets) <= KeyLimit + 1 + Cardinality(entered)
  /\ \A c \in entered : c.key \in DOMAIN buckets /\ c.count > Burst

\* The limiter's Cardinality is the one the library's theorems are about.
LEMMA SameCardinality ==
  ASSUME NEW S
  PROVE  Limiter!Cardinality(S) = Cardinality(S)
BY DEF Limiter!Cardinality, Limiter!IsFiniteSet, Cardinality, IsFiniteSet

\* A client that is not in the table has a full bucket, so it is refused only what no
\* bucket could pay; otherwise the table only grows where its size is checked.
LEMMA TableStep ==
  ASSUME LimiterTypes, KeyLimit \in Nat, TableInv, LimiterInv, [Limiter!Next]_(Limiter!vars)
  PROVE  TableInv'
<1>1. CASE UNCHANGED Limiter!vars
  BY <1>1 DEF Limiter!vars, TableInv
<1>2. CASE Limiter!Tick
  BY <1>2 DEF Limiter!Tick, TableInv
<1>3. ASSUME NEW t \in Threads, NEW k \in Keys, NEW n \in Charges, Limiter!Enter(t, k, n) PROVE TableInv'
  <2> DEFINE c == [key |-> k, count |-> n, current |-> clock]
  <2>1. buckets' = buckets /\ entered' = entered /\ call' = [call EXCEPT ![t] = c]
    BY <1>3 DEF Limiter!Enter
  <2>2. c \in Calls
    BY DEF Calls, LimiterInv, LimiterTypes
  <2> HIDE DEF c
  <2>3. call' \in [Threads -> Calls \cup {Limiter!NoCall}]
    BY <2>1, <2>2 DEF TableInv
  <2> QED BY <2>1, <2>3 DEF TableInv
<1>4. ASSUME NEW t \in Threads, Limiter!Refuse(t) PROVE TableInv'
  <2>1. PICK c : c = call[t]
    OBVIOUS
  <2>2. /\ c # Limiter!NoCall /\ Limiter!Refilled(c.key, c.current) < c.count
        /\ buckets' = Limiter!WithBucket(buckets, c.key, Limiter!Refilled(c.key, c.current), c.current)
        /\ entered' = IF c.key \in DOMAIN buckets THEN entered ELSE entered \cup {c}
        /\ call' = [call EXCEPT ![t] = Limiter!NoCall]
    BY <1>4, <2>1 DEF Limiter!Refuse
  <2>3. c.key \in Keys /\ c.count \in Nat
    BY <2>1, <2>2 DEF TableInv, Calls, LimiterTypes
  <2>4. DOMAIN buckets' = DOMAIN buckets \cup {c.key}
    BY <2>2 DEF Limiter!WithBucket
  <2>5. call' \in [Threads -> Calls \cup {Limiter!NoCall}]
    BY <2>2 DEF TableInv
  <2>6. CASE c.key \in DOMAIN buckets
    <3>1. DOMAIN buckets' = DOMAIN buckets /\ entered' = entered
      BY <2>2, <2>4, <2>6
    <3> QED BY <2>5, <3>1 DEF TableInv
  <2>7. CASE c.key \notin DOMAIN buckets
    <3>1. Limiter!Refilled(c.key, c.current) = Burst
      BY <2>7 DEF Limiter!Refilled
    <3>2. c.count > Burst
      BY <2>2, <2>3, <3>1 DEF LimiterTypes
    <3>3. c \notin entered
      BY <2>7 DEF TableInv
    <3>4. entered' = entered \cup {c}
      BY <2>2, <2>7
    <3>5. /\ IsFiniteSet(entered') /\ Cardinality(entered') = Cardinality(entered) + 1
          /\ Cardinality(entered) \in Nat
      BY <3>3, <3>4, FS_AddElement, FS_CardinalityType DEF TableInv
    <3>6. /\ IsFiniteSet(DOMAIN buckets') /\ Cardinality(DOMAIN buckets) \in Nat
          /\ Cardinality(DOMAIN buckets') = Cardinality(DOMAIN buckets) + 1
      BY <2>4, <2>7, FS_AddElement, FS_CardinalityType DEF TableInv
    <3>7. Cardinality(DOMAIN buckets') <= KeyLimit + 1 + Cardinality(entered')
      BY <3>5, <3>6 DEF TableInv
    <3>8. \A x \in entered' : x.key \in DOMAIN buckets' /\ x.count > Burst
      BY <2>4, <3>2, <3>4 DEF TableInv
    <3>9. DOMAIN buckets' \subseteq Keys
      BY <2>3, <2>4 DEF TableInv
    <3> QED BY <2>5, <3>5, <3>6, <3>7, <3>8, <3>9 DEF TableInv
  <2> QED BY <2>6, <2>7
<1>5. ASSUME NEW t \in Threads, Limiter!Allow(t) PROVE TableInv'
  <2>1. PICK c : c = call[t]
    OBVIOUS
  <2> DEFINE table == IF Limiter!Full THEN << >> ELSE buckets
  <2>2. /\ c # Limiter!NoCall /\ call' = [call EXCEPT ![t] = Limiter!NoCall]
        /\ entered' = {} /\ DOMAIN buckets' = DOMAIN table \cup {c.key}
    BY <1>5, <2>1 DEF Limiter!Allow, Limiter!WithBucket
  <2>3. c.key \in Keys
    BY <2>1, <2>2 DEF TableInv, Calls
  <2>4. IsFiniteSet(DOMAIN table) /\ Cardinality(DOMAIN table) <= KeyLimit /\ DOMAIN table \subseteq Keys
    <3>1. CASE Limiter!Full
      <4>1. DOMAIN table = {}
        BY <3>1
      <4> QED BY <4>1, FS_EmptySet
    <3>2. CASE ~Limiter!Full
      <4>1. Cardinality(DOMAIN buckets) \in Nat /\ table = buckets
        BY <3>2, FS_CardinalityType DEF TableInv
      <4>2. ~(Cardinality(DOMAIN buckets) > KeyLimit)
        BY <3>2, SameCardinality DEF Limiter!Full
      <4> QED BY <4>1, <4>2 DEF TableInv
    <3> QED BY <3>1, <3>2
  <2> HIDE DEF table
  <2>5. /\ IsFiniteSet(DOMAIN buckets') /\ Cardinality(DOMAIN table) \in Nat
        /\ Cardinality(DOMAIN buckets') <= Cardinality(DOMAIN table) + 1
    BY <2>2, <2>4, FS_AddElement, FS_CardinalityType
  <2>6. IsFiniteSet(entered') /\ Cardinality(entered') = 0 /\ \A x \in entered' : FALSE
    BY <2>2, FS_EmptySet
  <2>7. Cardinality(DOMAIN buckets') <= KeyLimit + 1 + Cardinality(entered')
    BY <2>4, <2>5, <2>6, FS_CardinalityType
  <2>8. call' \in [Threads -> Calls \cup {Limiter!NoCall}]
    BY <2>2 DEF TableInv
  <2>9. DOMAIN buckets' \subseteq Keys
    BY <2>2, <2>3, <2>4
  <2> QED BY <2>5, <2>6, <2>7, <2>8, <2>9 DEF TableInv
<1> QED BY <1>1, <1>2, <1>3, <1>4, <1>5 DEF Limiter!Next

\* Whatever threads do, the table of clients holds one more than KeyLimit at most, and the
\* clients that were refused since the last grant for a request no full bucket could pay.
THEOREM LimiterTableHolds ==
  ASSUME Limiter!LimiterAssumption
  PROVE  Limiter!Spec => []Limiter!TableBounded
<1>1. KeyLimit \in Nat /\ LimiterTypes
  BY LimiterTyped DEF Limiter!LimiterAssumption
<1>2. Limiter!Init => TableInv /\ LimiterInv
  <2> SUFFICES ASSUME Limiter!Init PROVE TableInv /\ LimiterInv
    OBVIOUS
  <2>1. DOMAIN buckets = {} /\ entered = {} /\ call = [t \in Threads |-> Limiter!NoCall]
    BY DEF Limiter!Init
  <2>2. /\ IsFiniteSet(DOMAIN buckets) /\ IsFiniteSet(entered)
        /\ Cardinality(DOMAIN buckets) = 0 /\ Cardinality(entered) = 0
    BY <2>1, FS_EmptySet
  <2>3. Cardinality(DOMAIN buckets) <= KeyLimit + 1 + Cardinality(entered)
    BY <1>1, <2>2
  <2> QED BY <1>1, <2>1, <2>2, <2>3, LimiterInit DEF TableInv
<1>3. TableInv /\ LimiterInv /\ [Limiter!Next]_(Limiter!vars) => TableInv' /\ LimiterInv'
  BY <1>1, TableStep, LimiterStep
<1>4. TableInv => Limiter!TableBounded
  <2> SUFFICES ASSUME TableInv PROVE Limiter!TableBounded
    OBVIOUS
  <2>1. /\ Limiter!Cardinality(DOMAIN buckets) = Cardinality(DOMAIN buckets)
        /\ Limiter!Cardinality(entered) = Cardinality(entered)
    BY SameCardinality
  <2> QED BY <2>1 DEF TableInv, Limiter!TableBounded
<1> QED BY <1>2, <1>3, <1>4, PTL DEF Limiter!Spec

\* The endpoint and the limiter, for any addresses, proxies, headers, credentials, threads,
\* clients and charges.
THEOREM ClientsChargedHolds ==
  ASSUME ClientChargeAssumption
  PROVE  Endpoint!Spec /\ Limiter!Spec => []ClientsCharged
<1>1. Endpoint!EndpointAssumption /\ Limiter!LimiterAssumption
  BY DEF ClientChargeAssumption
<1>2. Endpoint!Spec => [](Endpoint!ChargedToLastOutsider /\ Endpoint!BoundedHandling)
  BY <1>1, EndpointSoundHolds
<1>3. Limiter!Spec => [](Limiter!RateBounded /\ Limiter!RefusedForReason)
  BY <1>1, LimiterSoundHolds
<1>4. Limiter!Spec => []Limiter!TableBounded
  BY <1>1, LimiterTableHolds
<1>5. (Endpoint!ChargedToLastOutsider /\ Endpoint!BoundedHandling)
        /\ (Limiter!RateBounded /\ Limiter!RefusedForReason) /\ Limiter!TableBounded
        => ClientsCharged
  BY DEF ClientsCharged
<1> QED BY <1>2, <1>3, <1>4, <1>5, PTL
=============================================================================
