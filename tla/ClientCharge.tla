---------------------------- MODULE ClientCharge ----------------------------
(***************************************************************************)
(* What protects the collector from its clients: the endpoint finds out    *)
(* whom a request is charged to (HttpEndpoint), and the rate limiter keeps *)
(* the bucket of that client (RateLimiter).  The key is all that one hands *)
(* the other, and each keeps its state to itself.                          *)
(***************************************************************************)
EXTENDS Naturals

CONSTANTS
  Addresses, Trusted, Junk, MaxForged, MaxHops, HasToken, MaxBody,   \* the endpoint
  Threads, Keys, Charges, Burst, Rate, KeyLimit, LastTick, MaxCalls  \* the limiter

VARIABLES
  path, header, forged, request, step, body, charged, answer,        \* the endpoint
  clock, buckets, call, calls, granted, refused, setback, entered    \* the limiter

Endpoint == INSTANCE HttpEndpoint

Limiter == INSTANCE RateLimiter WITH Capacity <- Burst, MaxTime <- LastTick

endpointVars == <<path, header, forged, request, step, body, charged, answer>>
limiterVars == <<clock, buckets, call, calls, granted, refused, setback, entered>>

ClientChargeAssumption == Endpoint!EndpointAssumption /\ Limiter!LimiterAssumption

\* A client gets at most its rate and is refused only for it, up to what calls that
\* overtake each other set a bucket back; the table of clients outgrows its limit only
\* by refused requests no full bucket could pay; a request is charged to the last hop outside the trusted networks,
\* and nothing of a body is read for a request that is refused by its headers.
ClientsCharged ==
  /\ Limiter!RateBounded /\ Limiter!RefusedForReason /\ Limiter!TableBounded
  /\ Endpoint!ChargedToLastOutsider /\ Endpoint!BoundedHandling
=============================================================================
