---------------------------- MODULE IngestProofs ----------------------------
(***************************************************************************)
(* Proofs about Ingest, for every set of workers and events and every      *)
(* choice of the time-outs and of the capacity.                            *)
(*                                                                         *)
(* SingleHandler is not inductive: it needs to know that the row of every  *)
(* event being handled is a claim that has not expired (ClaimsHeld), which *)
(* in turn rests on the bound on a worker's handling time.                 *)
(* NoUnexcusedRedelivery needs, besides, that every event that is not      *)
(* fresh is remembered, by the table or by the worker that is about to     *)
(* complete it (DeliveriesRemembered).                                     *)
(***************************************************************************)
EXTENDS Ingest, FiniteSetTheorems, TLAPS

\* The row of an event being handled is the handler's own claim, still alive.
ClaimsHeld ==
  \A w \in Workers : Active(w) =>
    /\ worker[w].event \in Events
    /\ now <= worker[w].since + MaxHandling
    /\ rows[worker[w].event] \in Row
    /\ rows[worker[w].event].state = "inflight"
    /\ rows[worker[w].event].expires = worker[w].since + ClaimTtl

Unshared ==
  \A v, w \in Workers :
    Active(v) /\ Active(w) /\ worker[v].event = worker[w].event => v = w

\* An event that is not fresh is in a completed row or about to be completed.
DeliveriesRemembered ==
  \A e \in Events \ fresh :
    \/ e \in CompletedIn(rows)
    \/ \E w \in Workers : worker[w].step = "forwarded" /\ worker[w].event = e

Inv ==
  /\ TypeOK
  /\ ClaimsHeld
  /\ Unshared
  /\ DeliveriesRemembered
  /\ repeated = {}

-----------------------------------------------------------------------------
(* What the transactions of the store do to the table *)

\* A prune removes completed rows and touches nothing else.
LEMMA PrunedRemovesCompleted ==
  ASSUME NEW table \in [Events -> Row \cup {NoRow}], NEW result \in Pruned(table)
  PROVE  /\ result \in [Events -> Row \cup {NoRow}]
         /\ \A e \in Events : \/ result[e] = table[e]
                              \/ e \in CompletedIn(table) /\ result[e] = NoRow
<1>1. CASE Cardinality(CompletedIn(table)) <= Capacity
  BY <1>1 DEF Pruned
<1>2. CASE ~(Cardinality(CompletedIn(table)) <= Capacity)
  <2>1. PICK gone \in SUBSET CompletedIn(table) :
          result = [e \in Events |-> IF e \in gone THEN NoRow ELSE table[e]]
    BY <1>2 DEF Pruned
  <2> QED BY <2>1
<1> QED BY <1>1, <1>2

\* A purge keeps the type of the table and removes only rows that have expired.
LEMMA PurgedRemovesExpired ==
  ASSUME NEW table \in [Events -> Row \cup {NoRow}], NEW at \in Nat
  PROVE  /\ Purged(table, at) \in [Events -> Row \cup {NoRow}]
         /\ \A e \in Events :
              \/ Purged(table, at)[e] = table[e]
              \/ /\ Purged(table, at)[e] = NoRow
                 /\ table[e] # NoRow /\ table[e].expires <= at
BY DEF Purged

-----------------------------------------------------------------------------
(* Type correctness *)

\* Every step of the collector keeps the table, the workers and the clock well typed.
THEOREM TypeCorrect == Spec => []TypeOK
<1>1. Init => TypeOK
  BY IngestAssumption DEF Init, TypeOK, IdleWorker, Step, Active
<1>2. TypeOK /\ [Next]_vars => TypeOK'
  <2> SUFFICES ASSUME TypeOK, [Next]_vars PROVE TypeOK'
    OBVIOUS
  <2> USE IngestAssumption
  <2>1. ASSUME NEW w \in Workers, NEW e \in Events, NEW at \in ClockRead, Claim(w, e, at)
        PROVE  TypeOK'
    <3>1. at \in Nat BY DEF ClockRead, TypeOK
    <3>2. Purged(rows, at) \in [Events -> Row \cup {NoRow}]
      BY <3>1, PurgedRemovesExpired DEF TypeOK
    <3>3. Expired(at) \subseteq Events BY DEF Expired, CompletedIn
    <3>4. rows' \in [Events -> Row \cup {NoRow}] BY <2>1, <3>1, <3>2 DEF Claim, Row
    <3> QED BY <2>1, <3>1, <3>3, <3>4 DEF Claim, TypeOK, Step, Active
  <2>2. ASSUME NEW w \in Workers, NEW e \in Events, NEW at \in ClockRead,
               ClaimTaken(w, e, at)
        PROVE  TypeOK'
    <3>1. at \in Nat BY DEF ClockRead, TypeOK
    <3>2. Purged(rows, at) \in [Events -> Row \cup {NoRow}]
      BY <3>1, PurgedRemovesExpired DEF TypeOK
    <3>3. Expired(at) \subseteq Events BY DEF Expired, CompletedIn
    <3> QED BY <2>2, <3>2, <3>3 DEF ClaimTaken, TypeOK, Active
  <2>3. ASSUME NEW w \in Workers, SkipForward(w) PROVE TypeOK'
    BY <2>3 DEF SkipForward, TypeOK, Step, Settling, Active
  <2>4. ASSUME NEW w \in Workers, NEW outcome \in Settling, NEW took \in BOOLEAN,
               Forward(w, outcome, took)
        PROVE  TypeOK'
    BY <2>4 DEF Forward, TypeOK, Step, Settling, Active
  <2>5. ASSUME NEW w \in Workers, NEW at \in ClockRead, Complete(w, at) PROVE TypeOK'
    <3>1. at \in Nat BY DEF ClockRead, TypeOK
    <3>2. Purged(rows, at) \in [Events -> Row \cup {NoRow}]
      BY <3>1, PurgedRemovesExpired DEF TypeOK
    <3> DEFINE full == Upserted(Purged(rows, at), worker[w].event, at)
    <3>3. full \in [Events -> Row \cup {NoRow}]
      <4>1. [state |-> "completed", expires |-> at + Ttl, updated |-> at] \in Row
        BY <3>1 DEF Row
      <4> QED BY <3>2, <4>1 DEF Upserted
    <3>4. PICK table \in Pruned(full) :
            /\ rows' = table
            /\ fresh' = fresh \cup Expired(at) \cup (CompletedIn(full) \ CompletedIn(table))
      BY <2>5 DEF Complete
    <3>5. rows' \in [Events -> Row \cup {NoRow}]
      BY <3>3, <3>4, PrunedRemovesCompleted
    <3>6. fresh' \subseteq Events BY <3>4 DEF Expired, CompletedIn, TypeOK
    <3> QED BY <2>5, <3>5, <3>6 DEF Complete, TypeOK, IdleWorker, Step, Active
  <2>6. ASSUME NEW w \in Workers, Release(w) PROVE TypeOK'
    BY <2>6 DEF Release, TypeOK, IdleWorker, Step, Active
  <2>7. ASSUME NEW w \in Workers, Crash(w) PROVE TypeOK'
    BY <2>7 DEF Crash, TypeOK, IdleWorker, Step, Active
  <2>8. CASE Tick
    BY <2>8 DEF Tick, TypeOK, Active
  <2>9. CASE UNCHANGED vars
    BY <2>9 DEF vars, TypeOK, Active
  <2> QED BY <2>1, <2>2, <2>3, <2>4, <2>5, <2>6, <2>7, <2>8, <2>9 DEF Next, Handle
<1> QED BY <1>1, <1>2, PTL DEF Spec

-----------------------------------------------------------------------------
(* One handler per event, and no delivery repeated without a reason *)

\* The row of an event being handled outlives every purge: it has not expired.
LEMMA LiveClaimSurvivesPurge ==
  ASSUME ClaimTtl > MaxHandling, TypeOK, ClaimsHeld,
         NEW at \in ClockRead, NEW w \in Workers, Active(w)
  PROVE  /\ worker[w].event \in Events
         /\ Purged(rows, at)[worker[w].event] = rows[worker[w].event]
         /\ rows[worker[w].event] # NoRow
<1>1. at \in Nat /\ at <= now BY DEF ClockRead, TypeOK
<1>2. /\ worker[w].event \in Events /\ worker[w].since \in Nat
      /\ now <= worker[w].since + MaxHandling
      /\ rows[worker[w].event] \in Row
      /\ rows[worker[w].event].expires = worker[w].since + ClaimTtl
  BY DEF ClaimsHeld, TypeOK
<1>3. ~(rows[worker[w].event].expires <= at)
  BY <1>1, <1>2, IngestAssumption DEF TypeOK
<1> QED BY <1>2, <1>3, IngestAssumption DEF Purged, Row

\* A completed row that has not expired outlives a purge.
LEMMA CompletedSurvivesPurge ==
  ASSUME TypeOK, NEW at \in Nat, NEW e \in CompletedIn(rows) \ Expired(at)
  PROVE  e \in CompletedIn(Purged(rows, at)) /\ Purged(rows, at)[e] = rows[e]
BY DEF CompletedIn, Expired, Purged

\* An empty table satisfies the inductive invariant.
LEMMA InitEstablishesInv == Init => Inv
BY IngestAssumption
   DEF Init, Inv, TypeOK, ClaimsHeld, Unshared, DeliveriesRemembered, IdleWorker, Step, Active

\* claim gives an event to one worker, and takes no other worker's claim away.
LEMMA ClaimPreservesInv ==
  ASSUME ClaimTtl > MaxHandling, Inv, TypeOK',
         NEW w \in Workers, NEW e \in Events, NEW at \in ClockRead, Claim(w, e, at)
  PROVE  Inv'
<1> USE IngestAssumption
<1>1. at \in Nat /\ at <= now /\ now <= at + MaxHandling
  BY DEF ClockRead, Inv, TypeOK
<1>2. \A v \in Workers : Active(v) =>
        /\ worker[v].event \in Events
        /\ Purged(rows, at)[worker[v].event] = rows[worker[v].event]
        /\ worker[v].event # e
  BY LiveClaimSurvivesPurge DEF Inv, Claim
<1>3. /\ rows' = [Purged(rows, at) EXCEPT
                   ![e] = [state |-> "inflight", expires |-> at + ClaimTtl, updated |-> at]]
      /\ worker' = [worker EXCEPT ![w] = [step |-> "claimed", event |-> e, since |-> at]]
      /\ now' = now /\ repeated' = repeated /\ fresh' = fresh \cup Expired(at)
  BY DEF Claim
<1>4. /\ rows'[e] = [state |-> "inflight", expires |-> at + ClaimTtl, updated |-> at]
      /\ \A x \in Events : x # e => rows'[x] = Purged(rows, at)[x]
      /\ worker'[w] = [step |-> "claimed", event |-> e, since |-> at]
      /\ \A v \in Workers : v # w => worker'[v] = worker[v]
  BY <1>3 DEF Inv, TypeOK, Purged
<1>5. ClaimsHeld'
  <2> SUFFICES ASSUME NEW v \in Workers, Active(v)'
               PROVE  /\ worker'[v].event \in Events
                      /\ now' <= worker'[v].since + MaxHandling
                      /\ rows'[worker'[v].event] \in Row
                      /\ rows'[worker'[v].event].state = "inflight"
                      /\ rows'[worker'[v].event].expires = worker'[v].since + ClaimTtl
    BY DEF ClaimsHeld
  <2>1. CASE v = w
    BY <1>1, <1>3, <1>4, <2>1 DEF Row
  <2>2. CASE v # w
    BY <1>2, <1>3, <1>4, <2>2 DEF Inv, ClaimsHeld, Active
  <2> QED BY <2>1, <2>2
<1>6. Unshared'
  BY <1>2, <1>4 DEF Inv, Unshared, Active
<1>7. DeliveriesRemembered'
  <2> SUFFICES ASSUME NEW x \in Events, x \notin fresh'
               PROVE  \/ x \in CompletedIn(rows')
                      \/ \E v \in Workers : worker'[v].step = "forwarded" /\ worker'[v].event = x
    BY DEF DeliveriesRemembered, CompletedIn
  <2>1. CASE x \in CompletedIn(rows)
    <3>1. x \in CompletedIn(Purged(rows, at))
      BY <1>1, <1>3, <2>1, CompletedSurvivesPurge DEF Inv
    <3>2. x # e BY <3>1 DEF CompletedIn, Claim
    <3> QED BY <1>4, <3>1, <3>2 DEF CompletedIn
  <2>2. CASE \E v \in Workers : worker[v].step = "forwarded" /\ worker[v].event = x
    BY <1>4, <2>2 DEF Claim, Active
  <2> QED BY <1>3, <2>1, <2>2 DEF Inv, DeliveriesRemembered
<1> QED BY <1>3, <1>5, <1>6, <1>7 DEF Inv

\* A claim that finds the event taken only purges.
LEMMA ClaimTakenPreservesInv ==
  ASSUME ClaimTtl > MaxHandling, Inv, TypeOK',
         NEW w \in Workers, NEW e \in Events, NEW at \in ClockRead, ClaimTaken(w, e, at)
  PROVE  Inv'
<1> USE IngestAssumption
<1>1. at \in Nat BY DEF ClockRead, Inv, TypeOK
<1>2. \A v \in Workers : Active(v) =>
        /\ worker[v].event \in Events
        /\ Purged(rows, at)[worker[v].event] = rows[worker[v].event]
  BY LiveClaimSurvivesPurge DEF Inv
<1>3. /\ rows' = Purged(rows, at) /\ worker' = worker /\ now' = now
      /\ repeated' = repeated /\ fresh' = fresh \cup Expired(at)
  BY DEF ClaimTaken
<1>4. ClaimsHeld'
  BY <1>2, <1>3 DEF Inv, ClaimsHeld, Active
<1>5. Unshared'
  BY <1>3 DEF Inv, Unshared, Active
<1>6. DeliveriesRemembered'
  <2> SUFFICES ASSUME NEW x \in Events, x \notin fresh'
               PROVE  \/ x \in CompletedIn(rows')
                      \/ \E v \in Workers : worker'[v].step = "forwarded" /\ worker'[v].event = x
    BY DEF DeliveriesRemembered, CompletedIn
  <2>1. CASE x \in CompletedIn(rows)
    BY <1>1, <1>3, <2>1, CompletedSurvivesPurge DEF Inv
  <2> QED BY <1>3, <2>1 DEF Inv, DeliveriesRemembered
<1> QED BY <1>3, <1>4, <1>5, <1>6 DEF Inv

\* A worker that forwards an event is its only handler, and the event is fresh.
LEMMA ForwardPreservesInv ==
  ASSUME ClaimTtl > MaxHandling, Inv, TypeOK', NEW w \in Workers,
         NEW outcome \in Settling, NEW took \in BOOLEAN,
         SkipForward(w) \/ Forward(w, outcome, took)
  PROVE  Inv'
<1>1. PICK next \in Settling :
        /\ worker[w].step = "claimed"
        /\ worker' = [worker EXCEPT ![w].step = next]
        /\ now' = now /\ rows' = rows
        /\ fresh' = fresh \/ (fresh' = fresh \ {worker[w].event} /\ next = "forwarded")
  BY DEF SkipForward, Forward, Settling
<1>2. worker[w].event \in Events \cup {Nobody} /\ Active(w)
  BY <1>1 DEF Inv, TypeOK, Active
<1>3. /\ worker'[w].step = next /\ worker'[w].event = worker[w].event
      /\ worker'[w].since = worker[w].since
      /\ \A v \in Workers : v # w => worker'[v] = worker[v]
  BY <1>1 DEF Inv, TypeOK
<1>4. \A v \in Workers : /\ Active(v)' <=> Active(v)
                         /\ worker'[v].event = worker[v].event
                         /\ worker'[v].since = worker[v].since
  BY <1>1, <1>2, <1>3 DEF Active, Settling
<1>5. ClaimsHeld' BY <1>1, <1>4 DEF Inv, ClaimsHeld
<1>6. Unshared' BY <1>4 DEF Inv, Unshared
<1>7. worker[w].event \in fresh
  <2> SUFFICES ASSUME worker[w].event \notin fresh PROVE FALSE OBVIOUS
  <2>1. worker[w].event \in Events /\ rows[worker[w].event].state = "inflight"
    BY <1>2 DEF Inv, ClaimsHeld
  <2>2. PICK v \in Workers : worker[v].step = "forwarded" /\ worker[v].event = worker[w].event
    BY <2>1 DEF Inv, DeliveriesRemembered, CompletedIn
  <2> QED BY <1>1, <1>2, <2>2 DEF Inv, Unshared, Active
<1>8. repeated' = {} BY <1>7 DEF Inv, SkipForward, Forward
<1>9. DeliveriesRemembered'
  <2> SUFFICES ASSUME NEW x \in Events, x \notin fresh'
               PROVE  \/ x \in CompletedIn(rows')
                      \/ \E v \in Workers : worker'[v].step = "forwarded" /\ worker'[v].event = x
    BY DEF DeliveriesRemembered, CompletedIn
  <2>1. CASE x \in fresh BY <1>1, <1>3, <2>1
  <2>2. CASE x \in CompletedIn(rows) BY <1>1, <2>2
  <2>3. CASE \E v \in Workers : worker[v].step = "forwarded" /\ worker[v].event = x
    BY <1>1, <1>3, <2>3
  <2> QED BY <2>1, <2>2, <2>3 DEF Inv, DeliveriesRemembered
<1> QED BY <1>5, <1>6, <1>8, <1>9 DEF Inv

\* complete remembers the event, and the prune evicts no claim.
LEMMA CompletePreservesInv ==
  ASSUME ClaimTtl > MaxHandling, Inv, TypeOK',
         NEW w \in Workers, NEW at \in ClockRead, Complete(w, at)
  PROVE  Inv'
<1> USE IngestAssumption
<1> DEFINE e == worker[w].event
           full == Upserted(Purged(rows, at), e, at)
<1>1. at \in Nat BY DEF ClockRead, Inv, TypeOK
<1>2. Active(w) /\ e \in Events BY DEF Complete, Active, Inv, TypeOK
<1>3. \A v \in Workers : Active(v) =>
        /\ worker[v].event \in Events
        /\ Purged(rows, at)[worker[v].event] = rows[worker[v].event]
  BY LiveClaimSurvivesPurge DEF Inv
<1>4. /\ full \in [Events -> Row \cup {NoRow}]
      /\ full[e] \in Row /\ full[e].state = "completed"
      /\ \A x \in Events : x # e => full[x] = Purged(rows, at)[x]
  <2>1. Purged(rows, at) \in [Events -> Row \cup {NoRow}]
    BY <1>1, PurgedRemovesExpired DEF Inv, TypeOK
  <2>2. [state |-> "completed", expires |-> at + Ttl, updated |-> at] \in Row
    BY <1>1 DEF Row
  <2> QED BY <1>2, <2>1, <2>2 DEF Upserted
<1>5. PICK table \in Pruned(full) :
        /\ rows' = table
        /\ fresh' = fresh \cup Expired(at) \cup (CompletedIn(full) \ CompletedIn(table))
  BY DEF Complete
<1>6. \A x \in Events : x \in CompletedIn(full) \/ rows'[x] = full[x]
  BY <1>4, <1>5, PrunedRemovesCompleted
<1>7. /\ worker' = [worker EXCEPT ![w] = IdleWorker]
      /\ now' = now /\ repeated' = repeated
      /\ ~Active(w)'
      /\ \A v \in Workers : v # w => worker'[v] = worker[v]
  BY DEF Complete, Active, IdleWorker, Inv, TypeOK
<1>8. \A v \in Workers : Active(v)' => /\ v # w /\ Active(v)
                                       /\ worker'[v] = worker[v]
                                       /\ worker[v].event # e
  BY <1>2, <1>7 DEF Inv, Unshared, Active
<1>9. ClaimsHeld'
  <2> SUFFICES ASSUME NEW v \in Workers, Active(v)'
               PROVE  /\ worker[v].event \in Events
                      /\ now <= worker[v].since + MaxHandling
                      /\ rows'[worker[v].event] = rows[worker[v].event]
    BY <1>7, <1>8 DEF Inv, ClaimsHeld
  <2>1. /\ worker[v].event \in Events /\ now <= worker[v].since + MaxHandling
        /\ rows[worker[v].event].state = "inflight"
        /\ full[worker[v].event] = rows[worker[v].event]
    BY <1>3, <1>4, <1>8 DEF Inv, ClaimsHeld
  <2> QED BY <1>6, <2>1 DEF CompletedIn
<1>10. Unshared' BY <1>8 DEF Inv, Unshared
<1>11. DeliveriesRemembered'
  <2> SUFFICES ASSUME NEW x \in Events, x \notin fresh'
               PROVE  \/ x \in CompletedIn(rows')
                      \/ \E v \in Workers : worker'[v].step = "forwarded" /\ worker'[v].event = x
    BY DEF DeliveriesRemembered, CompletedIn
  <2>1. CASE x = e
    BY <1>4, <1>5, <2>1 DEF CompletedIn, Row
  <2>2. CASE x # e /\ x \in CompletedIn(rows)
    <3>1. x \in CompletedIn(Purged(rows, at))
      BY <1>1, <1>5, <2>2, CompletedSurvivesPurge DEF Inv
    <3> QED BY <1>4, <1>5, <2>2, <3>1 DEF CompletedIn
  <2>3. CASE x # e /\ \E v \in Workers : worker[v].step = "forwarded" /\ worker[v].event = x
    BY <1>7, <2>3
  <2> QED BY <1>5, <2>1, <2>2, <2>3 DEF Inv, DeliveriesRemembered
<1> QED BY <1>7, <1>9, <1>10, <1>11 DEF Inv

\* release deletes the releasing worker's own claim and nothing else.
LEMMA ReleasePreservesInv ==
  ASSUME Inv, TypeOK', NEW w \in Workers, Release(w)
  PROVE  Inv'
<1>1. Active(w) /\ worker[w].event \in Events
  BY DEF Release, Active, Inv, TypeOK
<1>2. /\ now' = now /\ repeated' = repeated /\ fresh' = fresh
      /\ ~Active(w)'
      /\ \A v \in Workers : v # w => worker'[v] = worker[v]
      /\ \A x \in Events : x # worker[w].event => rows'[x] = rows[x]
      /\ rows[worker[w].event].state = "inflight"
  BY <1>1 DEF Release, Active, IdleWorker, Inv, TypeOK, ClaimsHeld
<1>3. \A v \in Workers : Active(v)' => /\ v # w /\ Active(v)
                                       /\ worker'[v] = worker[v]
                                       /\ worker[v].event # worker[w].event
  BY <1>1, <1>2 DEF Inv, Unshared, Active
<1>4. ClaimsHeld' BY <1>2, <1>3 DEF Inv, ClaimsHeld
<1>5. Unshared' BY <1>3 DEF Inv, Unshared
<1>6. DeliveriesRemembered'
  <2> SUFFICES ASSUME NEW x \in Events, x \notin fresh'
               PROVE  \/ x \in CompletedIn(rows')
                      \/ \E v \in Workers : worker'[v].step = "forwarded" /\ worker'[v].event = x
    BY DEF DeliveriesRemembered, CompletedIn
  <2>1. CASE x \in CompletedIn(rows) BY <1>2, <2>1 DEF CompletedIn
  <2>2. CASE \E v \in Workers : worker[v].step = "forwarded" /\ worker[v].event = x
    BY <1>2, <2>2 DEF Release
  <2> QED BY <1>2, <2>1, <2>2 DEF Inv, DeliveriesRemembered
<1> QED BY <1>2, <1>4, <1>5, <1>6 DEF Inv

\* A worker that dies leaves its claim, which protects nobody any more.
LEMMA CrashPreservesInv ==
  ASSUME Inv, TypeOK', NEW w \in Workers, Crash(w)
  PROVE  Inv'
<1>1. /\ now' = now /\ repeated' = repeated /\ rows' = rows
      /\ ~Active(w)'
      /\ \A v \in Workers : v # w => worker'[v] = worker[v]
      /\ fresh \subseteq fresh'
      /\ worker[w].step = "forwarded" => worker[w].event \in fresh'
  BY DEF Crash, Active, IdleWorker, Inv, TypeOK
<1>2. \A v \in Workers : Active(v)' => Active(v) /\ worker'[v] = worker[v]
  BY <1>1 DEF Active
<1>3. ClaimsHeld' BY <1>1, <1>2 DEF Inv, ClaimsHeld
<1>4. Unshared' BY <1>2 DEF Inv, Unshared
<1>5. DeliveriesRemembered'
  BY <1>1 DEF Inv, DeliveriesRemembered, CompletedIn
<1> QED BY <1>1, <1>3, <1>4, <1>5 DEF Inv

\* Time does not pass a worker's limit.
LEMMA TickPreservesInv ==
  ASSUME Inv, TypeOK', Tick
  PROVE  Inv'
<1>1. /\ rows' = rows /\ worker' = worker /\ fresh' = fresh /\ repeated' = repeated
      /\ now' = now + 1
      /\ \A w \in Workers : Active(w) => now < worker[w].since + MaxHandling
  BY DEF Tick
<1>2. ClaimsHeld'
  BY <1>1, IngestAssumption DEF Inv, TypeOK, ClaimsHeld, Active
<1>3. Unshared' /\ DeliveriesRemembered'
  BY <1>1 DEF Inv, Unshared, Active, DeliveriesRemembered, CompletedIn
<1> QED BY <1>1, <1>2, <1>3 DEF Inv

\* A claim outlives the handling it protects.
ClaimsLongEnough == ClaimTtl > MaxHandling

\* The inductive invariant holds throughout, if a claim outlives its handling.
THEOREM InvHolds == Spec => [](ClaimsLongEnough => Inv)
<1>1. Init => (ClaimsLongEnough => Inv)
  BY InitEstablishesInv
<1>2. (ClaimsLongEnough => Inv) /\ TypeOK' /\ [Next]_vars => (ClaimsLongEnough => Inv)'
  <2> SUFFICES ASSUME ClaimTtl > MaxHandling, Inv, TypeOK', [Next]_vars PROVE Inv'
    BY DEF ClaimsLongEnough
  <2>1. CASE UNCHANGED vars
    BY <2>1 DEF vars, Inv, ClaimsHeld, Unshared, Active, DeliveriesRemembered, CompletedIn
  <2> QED BY <2>1, ClaimPreservesInv, ClaimTakenPreservesInv, ForwardPreservesInv,
             CompletePreservesInv, ReleasePreservesInv, CrashPreservesInv, TickPreservesInv
          DEF Next, Handle, Settling
<1> QED BY <1>1, <1>2, TypeCorrect, PTL DEF Spec

\* No event id is handled by two workers at once: no purge, prune, release or expiry
\* in dedupe.py takes a live claim away, if dedupe_claim_ttl_seconds exceeds the
\* longest handling time.
THEOREM SingleHandlerHolds == Spec => []SingleHandler
<1>1. (ClaimsLongEnough => Inv) => SingleHandler
  BY DEF ClaimsLongEnough, Inv, Unshared, SingleHandler
<1> QED BY <1>1, InvHolds, PTL

\* PyTagShield gets an event twice only after a hidden delivery, a crash, an expiry
\* or an eviction: _process_validated never forwards an event the table remembers.
THEOREM NoUnexcusedRedeliveryHolds == Spec => []NoUnexcusedRedelivery
<1>1. (ClaimsLongEnough => Inv) => NoUnexcusedRedelivery
  BY DEF ClaimsLongEnough, Inv, NoUnexcusedRedelivery
<1> QED BY <1>1, InvHolds, PTL

-----------------------------------------------------------------------------
(* Capacity *)

\* A prune leaves at most Capacity completed rows.
LEMMA PrunedFits ==
  ASSUME NEW table \in [Events -> Row \cup {NoRow}], NEW result \in Pruned(table)
  PROVE  Cardinality(CompletedIn(result)) <= Capacity
<1> DEFINE done == CompletedIn(table)
<1>1. IsFiniteSet(done)
  BY IngestAssumption, FS_Subset DEF CompletedIn
<1>2. CASE Cardinality(done) <= Capacity
  BY <1>2 DEF Pruned
<1>3. CASE ~(Cardinality(done) <= Capacity)
  <2>1. PICK gone \in SUBSET done :
          /\ Cardinality(gone) = Cardinality(done) - Capacity
          /\ result = [e \in Events |-> IF e \in gone THEN NoRow ELSE table[e]]
    BY <1>3 DEF Pruned
  <2>2. CompletedIn(result) = done \ gone
    BY <2>1 DEF CompletedIn
  <2>3. done \cap gone = gone /\ IsFiniteSet(gone)
    BY <1>1, <2>1, FS_Subset
  <2>4. Cardinality(done \ gone) = Cardinality(done) - Cardinality(gone)
    <3> HIDE DEF done
    <3>1. Cardinality(done \ gone) = Cardinality(done) - Cardinality(done \cap gone)
      BY <1>1, <2>3, FS_Difference
    <3> QED BY <2>3, <3>1
  <2>5. Cardinality(done) \in Nat BY <1>1, FS_CardinalityType
  <2>6. Capacity \in Nat BY IngestAssumption
  <2>7. Cardinality(done \ gone) = Capacity
    <3> HIDE DEF done
    <3> QED BY <2>1, <2>4, <2>5, <2>6
  <2> QED BY <2>2, <2>6, <2>7
<1> QED BY <1>2, <1>3

\* A step that completes nothing leaves at most as many completed rows.
LEMMA FewerCompleted ==
  ASSUME NEW table, CompletedIn(table) \subseteq CompletedIn(rows), CapacityRespected
  PROVE  Cardinality(CompletedIn(table)) <= Capacity
<1>1. IsFiniteSet(CompletedIn(rows))
  BY IngestAssumption, FS_Subset DEF CompletedIn
<1>2. /\ IsFiniteSet(CompletedIn(table))
      /\ Cardinality(CompletedIn(table)) <= Cardinality(CompletedIn(rows))
  BY <1>1, FS_Subset
<1>3. Cardinality(CompletedIn(table)) \in Nat /\ Cardinality(CompletedIn(rows)) \in Nat
  BY <1>1, <1>2, FS_CardinalityType
<1> QED BY <1>2, <1>3, IngestAssumption DEF CapacityRespected

\* The table never holds more than dedupe_capacity completed rows, between any two
\* transactions of any workers.
THEOREM CapacityHolds == Spec => []CapacityRespected
<1>1. Init => CapacityRespected
  <2> SUFFICES ASSUME Init PROVE CapacityRespected OBVIOUS
  <2>1. CompletedIn(rows) = {} BY DEF Init, CompletedIn
  <2>2. Cardinality(CompletedIn(rows)) = 0 BY <2>1, FS_EmptySet
  <2> QED BY <2>2, IngestAssumption DEF CapacityRespected
<1>2. TypeOK /\ TypeOK' /\ CapacityRespected /\ [Next]_vars => CapacityRespected'
  <2> SUFFICES ASSUME TypeOK, TypeOK', CapacityRespected, [Next]_vars
               PROVE  Cardinality(CompletedIn(rows')) <= Capacity
    BY DEF CapacityRespected, CompletedIn
  <2>1. ASSUME NEW w \in Workers, NEW e \in Events, NEW at \in ClockRead,
               Claim(w, e, at) \/ ClaimTaken(w, e, at)
        PROVE  CompletedIn(rows') \subseteq CompletedIn(rows)
    <3>1. CompletedIn(Purged(rows, at)) \subseteq CompletedIn(rows)
      BY DEF CompletedIn, Purged
    <3>2. CASE Claim(w, e, at)
      <4>1. \A x \in Events : \/ x = e /\ rows'[x].state = "inflight"
                              \/ x # e /\ rows'[x] = Purged(rows, at)[x]
        BY <3>2 DEF Claim, Purged
      <4> QED BY <3>1, <4>1 DEF CompletedIn
    <3>3. CASE ClaimTaken(w, e, at) BY <3>1, <3>3 DEF ClaimTaken
    <3> QED BY <2>1, <3>2, <3>3
  <2>2. ASSUME NEW w \in Workers, NEW at \in ClockRead, Complete(w, at)
        PROVE  Cardinality(CompletedIn(rows')) <= Capacity
    <3> DEFINE full == Upserted(Purged(rows, at), worker[w].event, at)
    <3>1. at \in Nat BY DEF ClockRead, TypeOK
    <3>2. Purged(rows, at) \in [Events -> Row \cup {NoRow}]
      BY <3>1, PurgedRemovesExpired DEF TypeOK
    <3>3. [state |-> "completed", expires |-> at + Ttl, updated |-> at] \in Row
      BY <3>1, IngestAssumption DEF Row
    <3>4. full \in [Events -> Row \cup {NoRow}] BY <3>2, <3>3 DEF Upserted
    <3>5. rows' \in Pruned(full) BY <2>2 DEF Complete
    <3> QED BY <3>4, <3>5, PrunedFits
  <2>3. ASSUME NEW w \in Workers, Release(w)
        PROVE  CompletedIn(rows') \subseteq CompletedIn(rows)
    BY <2>3 DEF Release, CompletedIn, TypeOK
  <2>4. ASSUME rows' = rows PROVE Cardinality(CompletedIn(rows')) <= Capacity
    BY <2>4, FewerCompleted
  <2>5. (\E w \in Workers : SkipForward(w) \/ Crash(w)) \/ Tick \/ UNCHANGED vars => rows' = rows
    BY DEF SkipForward, Crash, Tick, vars
  <2>6. (\E w \in Workers, outcome \in Settling, took \in BOOLEAN : Forward(w, outcome, took))
          => rows' = rows
    BY DEF Forward
  <2>7. CompletedIn(rows') \subseteq CompletedIn(rows)
          => Cardinality(CompletedIn(rows')) <= Capacity
    BY FewerCompleted
  <2>8. CASE \E w \in Workers : \E e \in Events, at \in ClockRead :
               Claim(w, e, at) \/ ClaimTaken(w, e, at)
    BY <2>1, <2>7, <2>8
  <2>9. CASE \E w \in Workers : Handle(w)
    BY <2>2, <2>3, <2>4, <2>5, <2>6, <2>7, <2>9 DEF Handle
  <2> QED BY <2>4, <2>5, <2>8, <2>9 DEF Next
<1> QED BY <1>1, <1>2, TypeCorrect, PTL DEF Spec

\* Both together: whatever mix of claims, purges, prunes and settlements the table has
\* seen, its rows are in their two states and the completed ones within the capacity.
THEOREM TableSoundHolds == Spec => []TableSound
<1>1. TypeOK /\ CapacityRespected => TableSound
  BY DEF TableSound
<1> QED BY <1>1, TypeCorrect, CapacityHolds, PTL
=============================================================================
