---------------------------- MODULE RateLimiter -----------------------------
(***************************************************************************)
(* TokenBucketLimiter of ingest/service.py, as the request threads of the  *)
(* collector call it.  allow_many reads the clock before it takes the      *)
(* lock, so a call can be overtaken: it then sets the bucket's time back,  *)
(* and the next one refills what was refilled before.  Time is counted in  *)
(* ticks and tokens in whole numbers, Rate of them per tick.               *)
(***************************************************************************)
EXTENDS Naturals, FiniteSets, FiniteSetsExt

CONSTANTS
  Threads,   \* request threads
  Keys,      \* client addresses
  Charges,   \* what a request may cost: 1, or the events of a batch
  Capacity,  \* tokens of a full bucket
  Rate,      \* tokens per tick
  KeyLimit,  \* 10_000
  MaxTime,   \* bound: the clock
  MaxCalls   \* bound: calls made

LimiterAssumption ==
  /\ Charges \subseteq Nat \ {0}
  /\ {Capacity, Rate, KeyLimit} \subseteq Nat \ {0}
  /\ {MaxTime, MaxCalls} \subseteq Nat

VARIABLES
  clock,    \* time.monotonic()
  buckets,  \* _buckets: known keys to [tokens, updated]
  call,     \* [Threads -> the call under way]
  calls,
  \* Read by properties only, since the table was last emptied.
  granted,  \* [Keys -> [ticks -> charges granted to calls begun by then]]
  refused,  \* calls refused
  setback,  \* [Keys -> ticks by which overtaken calls set the bucket back]
  entered   \* calls refused since the last grant that put their key in the table

vars == <<clock, buckets, call, calls, granted, refused, setback, entered>>

NoCall == [key |-> "none", count |-> 0, current |-> 0]
Nothing == [k \in Keys |-> [t \in 0 .. MaxTime |-> 0]]

Init ==
  /\ clock = 0
  /\ buckets = <<>>
  /\ call = [t \in Threads |-> NoCall]
  /\ calls = 0
  /\ granted = Nothing /\ refused = {}
  /\ setback = [k \in Keys |-> 0] /\ entered = {}

Tick ==
  /\ clock < MaxTime
  /\ clock' = clock + 1
  /\ UNCHANGED <<buckets, call, calls, granted, refused, setback, entered>>

\* allow_many up to the lock.
Enter(t, k, n) ==
  /\ call[t] = NoCall
  /\ calls < MaxCalls
  /\ calls' = calls + 1
  /\ call' = [call EXCEPT ![t] = [key |-> k, count |-> n, current |-> clock]]
  /\ UNCHANGED <<clock, buckets, granted, refused, setback, entered>>

\* The tokens of a key at the time the call read: time never runs backwards.
Refilled(k, current) ==
  IF k \notin DOMAIN buckets THEN Capacity
  ELSE Min({Capacity, buckets[k].tokens
         + (IF current > buckets[k].updated THEN current - buckets[k].updated ELSE 0) * Rate})

\* The table with a key's bucket set.
WithBucket(table, k, tokens, current) ==
  [x \in DOMAIN table \cup {k} |->
     IF x = k THEN [tokens |-> tokens, updated |-> current] ELSE table[x]]

\* The ticks by which a call that was overtaken sets its bucket's time back.
Overtaken(c) ==
  IF c.key \in DOMAIN buckets /\ buckets[c.key].updated > c.current
    THEN buckets[c.key].updated - c.current ELSE 0

Refuse(t) ==
  LET c == call[t] IN
  /\ c # NoCall
  /\ Refilled(c.key, c.current) < c.count
  /\ buckets' = WithBucket(buckets, c.key, Refilled(c.key, c.current), c.current)
  /\ refused' = refused \cup {c}
  /\ setback' = [setback EXCEPT ![c.key] = @ + Overtaken(c)]
  /\ entered' = IF c.key \in DOMAIN buckets THEN entered ELSE entered \cup {c}
  /\ call' = [call EXCEPT ![t] = NoCall]
  /\ UNCHANGED <<clock, calls, granted>>

\* More keys than the table is meant for: all are forgotten.
Full == Cardinality(DOMAIN buckets) > KeyLimit

\* The books with n more for a key from a tick on.
Granting(books, k, current, n) ==
  [x \in Keys |-> [t \in 0 .. MaxTime |-> books[x][t] + (IF x = k /\ t >= current THEN n ELSE 0)]]

Allow(t) ==
  LET c == call[t] IN
  /\ c # NoCall
  /\ Refilled(c.key, c.current) >= c.count
  /\ buckets' = WithBucket(IF Full THEN <<>> ELSE buckets, c.key,
                           Refilled(c.key, c.current) - c.count, c.current)
  /\ granted' = IF Full
                  THEN Granting(Nothing, c.key, c.current, Capacity - Refilled(c.key, c.current) + c.count)
                  ELSE Granting(granted, c.key, c.current, c.count)
  /\ refused' = IF Full THEN {} ELSE refused
  /\ setback' = IF Full THEN [k \in Keys |-> 0] ELSE [setback EXCEPT ![c.key] = @ + Overtaken(c)]
  /\ entered' = {}
  /\ call' = [call EXCEPT ![t] = NoCall]
  /\ UNCHANGED <<clock, calls>>

Next ==
  \/ Tick
  \/ \E t \in Threads :
       \/ \E k \in Keys, n \in Charges : Enter(t, k, n)
       \/ Refuse(t)
       \/ Allow(t)

Spec == Init /\ [][Next]_vars

-----------------------------------------------------------------------------
(* Properties.                                                             *)

\* What a key was granted in a stretch of time.
GrantedIn(k, from, to) == granted[k][to] - (IF from = 0 THEN 0 ELSE granted[k][from - 1])

\* What a token bucket promises: in any stretch of time a client is granted at
\* most a full bucket and what flows in meanwhile.  The code keeps to it exactly
\* as long as no call is overtaken, and exceeds it at most by what flows in
\* during the ticks the bucket was set back.
RateBounded ==
  \A k \in Keys : \A to \in 0 .. clock : \A from \in 0 .. to :
    GrantedIn(k, from, to) <= Capacity + (to - from + setback[k]) * Rate

\* And the other half: a call is refused only if granting it would have broken
\* that bound for a stretch of time it lies in, up to the same ticks.  No client is
\* held back by other clients, or by its refusals.
RefusedForReason ==
  \A c \in refused : \E from \in 0 .. c.current : \E to \in c.current .. clock :
    GrantedIn(c.key, from, to) + c.count + setback[c.key] * Rate > Capacity + (to - from) * Rate

\* "bounded abuse controls" (docstring of ingest/service.py): the table of
\* clients outgrows its limit only by clients refused since the last grant, each of
\* them for a request that no full bucket could pay; the next grant empties it.
TableBounded ==
  /\ Cardinality(DOMAIN buckets) <= KeyLimit + 1 + Cardinality(entered)
  /\ \A c \in entered : c.count > Capacity
=============================================================================
