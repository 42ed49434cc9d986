----------------------------- MODULE Collector ------------------------------
(***************************************************************************)
(* One collector process with its in-memory DedupeCache: IngestService's   *)
(* ingest_event and ingest_batch (ingest/service.py) as the threads of the *)
(* HTTP server run them.                                                   *)
(*                                                                         *)
(* A request is one event or a batch.  Validation has been done when the   *)
(* request is received: an item is valid, invalid (validate_batch rejects  *)
(* it) or of a container the endpoint does not allow.  The claim, the call *)
(* of the forwarder and the settlement of an event are steps of their own; *)
(* each call of the cache holds its lock.  PyTagShield is external.        *)
(***************************************************************************)
EXTENDS SeqFilter, Naturals, Sequences, FiniteSets

CONSTANTS
  Workers,       \* request threads
  Events,        \* event ids
  Requests,      \* [single : BOOLEAN, items : Seq(Item)]
  HasForwarder,  \* a PyTagShield forwarder is configured
  Ttl,           \* dedupe_ttl_seconds
  Capacity,      \* dedupe_capacity
  Nobody,        \* an event nobody has claimed
  MaxTime,       \* bound: the clock
  MaxRequests,   \* bound: requests received
  MaxRestarts    \* bound: restarts of the process

Item == [id : Events, is : {"valid", "invalid", "foreign"}]

\* The items validate_batch accepts, in order.
Accepted(items) == Filtered(items, {i \in Elements(items) : i.is # "invalid"})

CollectorAssumption ==
  /\ \A r \in Requests : /\ r.single \in BOOLEAN
                         /\ r.items \in Seq(Item)
                         /\ r.items # <<>>
                         /\ r.single => Len(r.items) = 1
  /\ HasForwarder \in BOOLEAN
  /\ {Ttl, Capacity} \subseteq Nat \ {0}
  /\ {MaxTime, MaxRequests, MaxRestarts} \subseteq Nat
  /\ Nobody \notin Workers

VARIABLES
  now,        \* the monotonic clock
  completed,  \* _completed: [Events -> expiry], 0 where there is none
  inflight,   \* _inflight
  worker,     \* what every thread has in hand
  requests, restarts,
  \* Read by properties only.
  settled,    \* events that had a final outcome
  promised,   \* events a caller was told are taken care of
  vouched,    \* those of them a thread answered 202 for while another handled them
  abandoned   \* events whose handling ended without an outcome

vars == <<now, completed, inflight, worker, requests, restarts, settled, promised,
          vouched, abandoned>>

\* What becomes of one event: status of an IngestResult.
Statuses == {"rejected", "duplicate", "in_progress", "accepted", "forwarded",
             "transient_error"}

NoRequest ==
  [step |-> "idle", request |-> <<>>, todo |-> <<>>, results |-> <<>>, outcome |-> "none"]

Init ==
  /\ now = 0
  /\ completed = [e \in Events |-> 0]
  /\ inflight = {}
  /\ worker = [w \in Workers |-> NoRequest]
  /\ requests = 0 /\ restarts = 0
  /\ settled = {} /\ promised = {} /\ vouched = {} /\ abandoned = {}

Tick ==
  /\ now < MaxTime
  /\ now' = now + 1
  /\ UNCHANGED <<completed, inflight, worker, requests, restarts, settled, promised, vouched, abandoned>>

Receive(w, r) ==
  /\ worker[w].step = "idle"
  /\ requests < MaxRequests
  /\ requests' = requests + 1
  /\ worker' = [worker EXCEPT ![w] =
                  [step |-> "next", request |-> <<r>>, todo |-> Accepted(r.items),
                   results |-> <<>>, outcome |-> "none"]]
  /\ UNCHANGED <<now, completed, inflight, restarts, settled, promised, vouched, abandoned>>

\* The thread goes on to the next event, with this one's status noted.
Noted(w, status) ==
  [worker EXCEPT ![w].step = "next", ![w].todo = Tail(@),
                 ![w].results = Append(@, [id |-> Head(worker[w].todo).id, status |-> status])]

Current(w) == Head(worker[w].todo)

\* An event of a container that is not on the allow list is not claimed.
RejectForeign(w) ==
  /\ worker[w].step = "next" /\ worker[w].todo # <<>>
  /\ Current(w).is = "foreign"
  /\ worker' = Noted(w, "rejected")
  /\ UNCHANGED <<now, completed, inflight, requests, restarts, settled, promised, vouched, abandoned>>

\* _purge: what is left of the completed events at this time.
Purged == [e \in Events |-> IF completed[e] <= now THEN 0 ELSE completed[e]]

\* Mutant of Claim: a claim that is under way does not hold back another.
ClaimAnyway(w) ==
  /\ worker[w].step = "next" /\ worker[w].todo # <<>>
  /\ Current(w).is = "valid"
  /\ completed' = Purged
  /\ LET e == Current(w).id IN
       IF Purged[e] # 0 THEN worker' = Noted(w, "duplicate") /\ UNCHANGED inflight
       ELSE worker' = [worker EXCEPT ![w].step = "claimed"] /\ inflight' = inflight \cup {e}
  /\ UNCHANGED <<now, requests, restarts, settled, promised, vouched, abandoned>>

\* DedupeCache.claim, and the answers it leads to at once.
Claim(w) ==
  /\ worker[w].step = "next" /\ worker[w].todo # <<>>
  /\ Current(w).is = "valid"
  /\ completed' = Purged
  /\ LET e == Current(w).id IN
       CASE Purged[e] # 0 -> worker' = Noted(w, "duplicate") /\ UNCHANGED inflight
         [] Purged[e] = 0 /\ e \in inflight ->
              worker' = Noted(w, "in_progress") /\ UNCHANGED inflight
         [] OTHER -> /\ worker' = [worker EXCEPT ![w].step = "claimed"]
                     /\ inflight' = inflight \cup {e}
  /\ UNCHANGED <<now, requests, restarts, settled, promised, vouched, abandoned>>

\* The forwarder answers or raises; without one the event counts as accepted.
Forward(w, outcome) ==
  /\ worker[w].step = "claimed"
  /\ outcome \in (IF HasForwarder THEN {"forwarded", "rejected", "transient_error"}
                  ELSE {"accepted"})
  /\ worker' = [worker EXCEPT ![w].step = "settle", ![w].outcome = outcome]
  /\ UNCHANGED <<now, completed, inflight, requests, restarts, settled, promised, vouched, abandoned>>

\* DedupeCache.complete: over capacity, one entry that expires first is dropped.
Evicted(table) ==
  LET known == {e \in Events : table[e] # 0} IN
  IF Cardinality(known) <= Capacity THEN table
  ELSE LET oldest == CHOOSE e \in known : \A f \in known : table[e] <= table[f]
       IN [table EXCEPT ![oldest] = 0]

\* A final outcome completes the event.
Complete(w) ==
  /\ worker[w].step = "settle" /\ worker[w].outcome # "transient_error"
  /\ inflight' = inflight \ {Current(w).id}
  /\ completed' = Evicted([completed EXCEPT ![Current(w).id] = now + Ttl])
  /\ settled' = settled \cup {Current(w).id}
  /\ worker' = Noted(w, worker[w].outcome)
  /\ UNCHANGED <<now, requests, restarts, promised, vouched, abandoned>>

\* Mutant of Release: the claim of a failed forward is kept.
ReleaseForgotten(w) ==
  /\ worker[w].step = "settle" /\ worker[w].outcome = "transient_error"
  /\ worker' = Noted(w, "transient_error")
  /\ UNCHANGED <<now, completed, inflight, requests, restarts, settled, promised, vouched, abandoned>>

\* A transient failure, or an exception, releases it.
Release(w) ==
  /\ worker[w].step = "settle" /\ worker[w].outcome = "transient_error"
  /\ inflight' = inflight \ {Current(w).id}
  /\ abandoned' = abandoned \cup {Current(w).id}
  /\ worker' = Noted(w, "transient_error")
  /\ UNCHANGED <<now, completed, requests, restarts, settled, promised, vouched>>

\* IngestResult.accepted and .retryable.
Good == {"duplicate", "in_progress", "accepted", "forwarded"}
Retryable == {"in_progress", "transient_error"}

\* ingest_batch: the status of the whole, also the HTTP status it stands for.
BatchStatus(items, results) ==
  LET rejected == \/ \E i \in DOMAIN items : items[i].is = "invalid"
                  \/ \E i \in DOMAIN results : results[i].status = "rejected"
  IN CASE \E i \in DOMAIN results : results[i].status \in Retryable -> "partial"
       [] OTHER -> CASE rejected -> IF results = <<>> THEN "rejected" ELSE "partial"
                     [] \A i \in DOMAIN results : results[i].status \in Good -> "accepted"
                     [] OTHER -> "partial"

\* The results in the order of the request: a rejected item carries no id.
Ordered(items, results) ==
  [i \in DOMAIN items |->
     IF items[i].is = "invalid" THEN [id |-> Nobody, status |-> "rejected"]
     ELSE results[Cardinality({j \in 1 .. i : items[j].is # "invalid"})]]

\* What the answer says is taken care of: the events of a batch answered 202,
\* and a single event answered 202, which in_progress is as well.
Promised(r, results) ==
  IF r.single THEN {results[i].id : i \in {j \in DOMAIN results : results[j].status \in Good}}
  ELSE IF BatchStatus(r.items, results) = "accepted"
         THEN {results[i].id : i \in DOMAIN results} ELSE {}

\* in_progress says that somebody else is at it, which is no outcome yet.
Vouched(r, results) ==
  IF r.single THEN {results[i].id : i \in {j \in DOMAIN results : results[j].status = "in_progress"}}
  ELSE {}

Answer(w) ==
  /\ worker[w].step = "next" /\ worker[w].todo = <<>>
  /\ promised' = promised \cup Promised(worker[w].request[1], worker[w].results)
  /\ vouched' = vouched \cup Vouched(worker[w].request[1], worker[w].results)
  /\ worker' = [worker EXCEPT ![w] = NoRequest]
  /\ UNCHANGED <<now, completed, inflight, requests, restarts, settled, abandoned>>

\* The process ends and another takes its place: nothing was kept.
Restart ==
  /\ restarts < MaxRestarts
  /\ restarts' = restarts + 1
  /\ completed' = [e \in Events |-> 0] /\ inflight' = {}
  /\ worker' = [w \in Workers |-> NoRequest]
  /\ abandoned' = abandoned \cup inflight
  /\ UNCHANGED <<now, requests, settled, promised, vouched>>

Next ==
  \/ \E w \in Workers :
       \/ \E r \in Requests : Receive(w, r)
       \/ RejectForeign(w)
       \/ Claim(w)
       \/ \E outcome \in Statuses : Forward(w, outcome)
       \/ Complete(w)
       \/ Release(w)
       \/ Answer(w)
  \/ Tick
  \/ Restart

Spec == Init /\ [][Next]_vars

-----------------------------------------------------------------------------
(* Properties.                                                             *)

Handles(w, e) == worker[w].step \in {"claimed", "settle"} /\ Current(w).id = e

Handlers(e) == {w \in Workers : Handles(w, e)}

\* The cache implements exclusive claims, although nothing in it names who
\* claimed an event: also for one id twice in a batch or in two requests.
TheOnly(S) == IF S = {} THEN Nobody ELSE CHOOSE w \in S : TRUE
Claimant == [e \in Events |-> TheOnly(Handlers(e))]

Remembered == {e \in Events : completed[e] # 0}

Claims == INSTANCE EventClaims WITH claimant <- Claimant, remembered <- Remembered

ClaimState == <<Claimant, Remembered>>

\* An event is claimed by one thread at a time, never while it is remembered, and
\* every claim ends.
ImplementsClaims == Claims!Spec

\* An id is in flight exactly while a thread handles it.  A claim in memory never
\* expires: one left behind would answer in_progress until the process ends.
NoClaimLeftBehind == \A e \in Events : e \in inflight <=> \E w \in Workers : Handles(w, e)

\* The cache never remembers more events than its capacity.
CacheBounded == Cardinality({e \in Events : completed[e] # 0}) <= Capacity

\* The results of a batch are those of its items, in the order of the request,
\* however invalid items, duplicates and claims of other threads are mixed in.
AnswersInOrder ==
  \A w \in Workers :
    worker[w].step = "next" /\ worker[w].todo = <<>> =>
      LET items == worker[w].request[1].items
          answer == Ordered(items, worker[w].results)
      IN /\ Len(answer) = Len(items)
         /\ \A i \in DOMAIN items :
              IF items[i].is = "invalid" THEN answer[i].status = "rejected"
              ELSE answer[i].id = items[i].id

\* "never claims delivery without a forwarding outcome" (docs/architecture/
\* multiplatform-extension.md): an event whose sender got 202 had a final outcome.
\* One exception is in the code: a single event that another thread handles is
\* answered 202 too, and is left without an outcome when that thread's forward
\* fails or the process ends.  No other answer goes ahead of the outcome.
PromisedIsSettled ==
  \A e \in promised \ settled : e \in vouched /\ e \in inflight \cup abandoned

\* An id is in flight exactly while a thread handles it, the cache stays within its
\* capacity, the results of a batch come in the order of its items, and an event
\* whose sender was told it is taken care of had a final outcome, or was a single one
\* in the hands of a thread whose attempt is not over or failed.
CollectorSafe == NoClaimLeftBehind /\ CacheBounded /\ AnswersInOrder /\ PromisedIsSettled
=============================================================================
