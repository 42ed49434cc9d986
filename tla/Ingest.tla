------------------------------- MODULE Ingest -------------------------------
(***************************************************************************)
(* The collection service with its durable idempotency store:              *)
(* IngestService._process_validated (ingest/service.py) over               *)
(* SQLiteDedupeStore (ingest/dedupe.py), with the PyTagShield forwarder    *)
(* (ingest/pytagshield.py).                                                *)
(*                                                                         *)
(* Workers are the request threads of every collector process on the host: *)
(* they share nothing but the SQLite table.  claim, complete and release   *)
(* are each one transaction (BEGIN IMMEDIATE, or one autocommitted         *)
(* DELETE), hence one step; the forward between them is not, and another   *)
(* worker, the clock or a crash can come in between.  Nothing in a row     *)
(* names the worker that claimed it.  A transaction reads the clock before *)
(* it waits for the write lock, so the time it works with (at) may be old. *)
(*                                                                         *)
(* PyTagShield is external: it may take an event and still let the answer  *)
(* be lost.  A worker's handling of one event, from claim to settlement,   *)
(* takes at most MaxHandling time units: the forwarder's socket timeouts   *)
(* plus the store's busy timeouts, when no thread is suspended for longer. *)
(***************************************************************************)
EXTENDS Naturals, FiniteSets

CONSTANTS
  Workers,      \* request threads, over all collector processes
  Events,       \* event ids
  Forwarding,   \* the workers of processes configured with a PyTagShield forwarder
  Ttl,          \* dedupe_ttl_seconds
  ClaimTtl,     \* dedupe_claim_ttl_seconds
  Capacity,     \* dedupe_capacity
  MaxHandling,  \* the longest a worker holds a claim
  MaxWait,      \* the longest a transaction waits for the write lock (busy_timeout)
  NoRow,        \* no row for the event id
  Nobody,       \* an idle worker
  MaxTime,      \* bound: the clock
  MaxCrashes    \* bound: worker deaths

ASSUME IngestAssumption ==
  /\ Forwarding \subseteq Workers
  /\ Ttl \in Nat \ {0} /\ ClaimTtl \in Nat \ {0} /\ Capacity \in Nat \ {0}
  /\ MaxHandling \in Nat /\ MaxTime \in Nat /\ MaxCrashes \in Nat
  /\ MaxWait \in 0 .. MaxHandling
  /\ IsFiniteSet(Events) /\ Nobody \notin Events
  /\ NoRow \notin [state : {"inflight", "completed"}, expires : Nat, updated : Nat]

VARIABLES
  now,       \* the clock the store reads
  rows,      \* table event_dedupe: [Events -> row or NoRow]
  worker,    \* [Workers -> [step, event, since]]
  crashes,
  \* What PyTagShield has seen: read by properties only.
  fresh,     \* events for which a delivery would not be a repetition the store
             \* is there to prevent
  repeated   \* events delivered although they were not fresh

vars == <<now, rows, worker, crashes, fresh, repeated>>

\* forwarded, rejected, transient: what the forwarder returned, not yet settled.
Settling == {"forwarded", "rejected", "transient"}

Step == {"idle", "claimed"} \cup Settling

Row == [state : {"inflight", "completed"}, expires : Nat, updated : Nat]

IdleWorker == [step |-> "idle", event |-> Nobody, since |-> 0]

Active(w) == worker[w].step # "idle"

-----------------------------------------------------------------------------
(* Transactions of the store *)

\* self._clock(), read before BEGIN IMMEDIATE waits for the write lock.
ClockRead == {at \in 0 .. now : now <= at + MaxWait}

\* Mutant of Purged: rows disappear one time unit early.
PurgedEarly(table, at) ==
  [e \in Events |-> IF table[e] # NoRow /\ table[e].expires <= at + 1 THEN NoRow ELSE table[e]]

\* _purge: rows whose expires_at has passed, inflight and completed alike.
Purged(table, at) ==
  [e \in Events |-> IF table[e] # NoRow /\ table[e].expires <= at THEN NoRow ELSE table[e]]

CompletedIn(table) == {e \in Events : table[e] # NoRow /\ table[e].state = "completed"}

\* Mutants of Pruned: the limit counts and evicts claims too; one row too many stays.
PrunedClaimsToo(table) ==
  LET all    == {e \in Events : table[e] # NoRow}
      excess == Cardinality(all) - Capacity
  IN  IF Cardinality(all) <= Capacity THEN {table}
      ELSE {[e \in Events |-> IF e \in gone THEN NoRow ELSE table[e]] :
              gone \in {g \in SUBSET all : Cardinality(g) = excess}}

PrunedLate(table) ==
  IF Cardinality(CompletedIn(table)) <= Capacity + 1 THEN {table}
  ELSE {[table EXCEPT ![e] = NoRow] : e \in CompletedIn(table)}

\* _prune_capacity: the results of deleting the excess completed rows with the
\* smallest updated_at; SQLite may take rows with equal times in any order.
Pruned(table) ==
  LET done   == CompletedIn(table)
      excess == Cardinality(done) - Capacity
  IN  IF Cardinality(done) <= Capacity THEN {table}
      ELSE {[e \in Events |-> IF e \in gone THEN NoRow ELSE table[e]] :
              gone \in {g \in SUBSET done :
                          /\ Cardinality(g) = excess
                          /\ \A x \in g, y \in done \ g : table[x].updated <= table[y].updated}}

\* The upsert of complete: it overwrites whatever row the event has.
Upserted(table, e, at) ==
  [table EXCEPT ![e] = [state |-> "completed", expires |-> at + Ttl, updated |-> at]]

\* The completed events that may be forgotten at that time: the store does not
\* claim to prevent another forward of them, so they are fresh again.
Expired(at) == {e \in CompletedIn(rows) : rows[e].expires <= at}

-----------------------------------------------------------------------------
(* _process_validated *)

\* claim finds no live row: the worker owns the event and goes on to forward it.
Claim(w, e, at) ==
  /\ ~Active(w)
  /\ Purged(rows, at)[e] = NoRow
  /\ rows' = [Purged(rows, at) EXCEPT
                ![e] = [state |-> "inflight", expires |-> at + ClaimTtl, updated |-> at]]
  /\ worker' = [worker EXCEPT ![w] = [step |-> "claimed", event |-> e, since |-> at]]
  /\ fresh' = fresh \cup Expired(at)
  /\ UNCHANGED <<now, crashes, repeated>>

\* claim finds a completed or an inflight row: the worker answers duplicate or
\* in_progress at once; what it has purged stays purged.
ClaimTaken(w, e, at) ==
  /\ ~Active(w)
  /\ Purged(rows, at)[e] # NoRow
  /\ rows' = Purged(rows, at)
  /\ fresh' = fresh \cup Expired(at)
  /\ UNCHANGED <<now, worker, crashes, repeated>>

\* Without a forwarder a claimed event is completed and acknowledged.
SkipForward(w) ==
  /\ w \notin Forwarding
  /\ worker[w].step = "claimed"
  /\ worker' = [worker EXCEPT ![w].step = "forwarded"]
  /\ UNCHANGED <<now, rows, crashes, fresh, repeated>>

\* forward returns.  accepted and partially_accepted count as forwarded; a
\* rejection is final; backpressure, 408, 425, 429, 5xx and network errors are
\* transient.  A timeout can hide a delivery (took): the event then stays fresh.
Forward(w, outcome, took) ==
  LET e == worker[w].event IN
  /\ w \in Forwarding
  /\ worker[w].step = "claimed"
  /\ outcome = "forwarded" => took
  /\ outcome = "rejected" => ~took
  /\ worker' = [worker EXCEPT ![w].step = outcome]
  /\ fresh' = IF outcome = "forwarded" THEN fresh \ {e} ELSE fresh
  /\ repeated' = IF took /\ e \notin fresh THEN repeated \cup {e} ELSE repeated
  /\ UNCHANGED <<now, rows, crashes>>

\* complete, and the answer to the client.  What the prune evicts is fresh again.
Complete(w, at) ==
  LET full == Upserted(Purged(rows, at), worker[w].event, at) IN
  /\ worker[w].step \in {"forwarded", "rejected"}
  /\ \E table \in Pruned(full) :
       /\ rows' = table
       /\ fresh' = fresh \cup Expired(at) \cup (CompletedIn(full) \ CompletedIn(table))
  /\ worker' = [worker EXCEPT ![w] = IdleWorker]
  /\ UNCHANGED <<now, crashes, repeated>>

\* release: DELETE ... WHERE event_id = ? AND state = 'inflight', whoever claimed.
Release(w) ==
  LET e == worker[w].event IN
  /\ worker[w].step = "transient"
  /\ rows' = [rows EXCEPT ![e] =
                IF rows[e] # NoRow /\ rows[e].state = "inflight" THEN NoRow ELSE rows[e]]
  /\ worker' = [worker EXCEPT ![w] = IdleWorker]
  /\ UNCHANGED <<now, crashes, fresh, repeated>>

\* The worker dies, or its settling transaction raises (database is locked), with
\* its claim in the table; if PyTagShield has already taken the event, it will be
\* forwarded again once the claim expires.
Crash(w) ==
  LET e == worker[w].event IN
  /\ Active(w)
  /\ crashes < MaxCrashes
  /\ crashes' = crashes + 1
  /\ worker' = [worker EXCEPT ![w] = IdleWorker]
  /\ fresh' = IF worker[w].step = "forwarded" THEN fresh \cup {e} ELSE fresh
  /\ UNCHANGED <<now, rows, repeated>>

\* Time passes, but no worker is kept busy longer than MaxHandling.
Tick ==
  /\ now < MaxTime
  /\ \A w \in Workers : Active(w) => now < worker[w].since + MaxHandling
  /\ now' = now + 1
  /\ UNCHANGED <<rows, worker, crashes, fresh, repeated>>

-----------------------------------------------------------------------------

Init ==
  /\ now = 0
  /\ rows = [e \in Events |-> NoRow]
  /\ worker = [w \in Workers |-> IdleWorker]
  /\ crashes = 0
  /\ fresh = Events
  /\ repeated = {}

Handle(w) ==
  \/ SkipForward(w)
  \/ \E outcome \in Settling, took \in BOOLEAN : Forward(w, outcome, took)
  \/ \E at \in ClockRead : Complete(w, at)
  \/ Release(w)

Next ==
  \/ \E w \in Workers :
       \/ \E e \in Events, at \in ClockRead : Claim(w, e, at) \/ ClaimTaken(w, e, at)
       \/ Handle(w)
       \/ Crash(w)
  \/ Tick

Spec == Init /\ [][Next]_vars

-----------------------------------------------------------------------------
(* Properties *)

\* The table holds rows in the two states its schema allows, and a worker that is
\* not idle has the event it claimed, through every purge, prune, settlement and crash.
TypeOK ==
  /\ now \in Nat
  /\ rows \in [Events -> Row \cup {NoRow}]
  /\ worker \in [Workers -> [step : Step, event : Events \cup {Nobody}, since : Nat]]
  /\ \A w \in Workers : Active(w) => worker[w].event \in Events
  /\ crashes \in Nat
  /\ fresh \subseteq Events /\ repeated \subseteq Events

\* No event id is being handled by two workers at once, in whatever processes, as
\* long as a claim outlives the handling it protects (ClaimTtl > MaxHandling):
\* expiry, purges, capacity pruning and releases never take a live claim away.
SingleHandler ==
  ClaimTtl > MaxHandling =>
    \A v, w \in Workers :
      Active(v) /\ Active(w) /\ worker[v].event = worker[w].event => v = w

\* PyTagShield takes an event more than once only for a reason the store cannot
\* remove: a timeout that hid a delivery, a crash before completion, or a completed
\* row that expired or was evicted.
NoUnexcusedRedelivery == ClaimTtl > MaxHandling => repeated = {}

\* The table never holds more than Capacity completed rows, whatever mix of
\* upserts over live claims, purges and prunes produced it.
CapacityRespected == Cardinality(CompletedIn(rows)) <= Capacity

\* The table and the workers are well typed and the table keeps to its capacity.
TableSound == TypeOK /\ CapacityRespected
=============================================================================
