---------------------------- MODULE MCCollection ----------------------------
(***************************************************************************)
(* The collection process for TLC: the collector with its in-memory cache, *)
(* the rate limiter and the HTTP endpoint, side by side.  part says which  *)
(* of them a behaviour is about: each keeps its state to itself, and what  *)
(* one hands the next (a client key, a charge, a list of items) is an      *)
(* input of the next that is enumerated here.  While a behaviour is about  *)
(* another part, a part stays in an initial state.                         *)
(***************************************************************************)
EXTENDS Collector, ClientCharge, TLC

CONSTANTS e1, e2

VARIABLE part

AnItem(e, kind) == [id |-> e, is |-> kind]
BatchOf(items) == [single |-> FALSE, items |-> items]

SingleOf(item) == [single |-> TRUE, items |-> <<item>>]

\* Batches with invalid and foreign items between others and one id twice, and an
\* event sent alone.
SomeRequests ==
  {SingleOf(AnItem(e1, "valid")),
   BatchOf(<<AnItem(e1, "valid"), AnItem(e2, "valid")>>),
   BatchOf(<<AnItem(e2, "invalid"), AnItem(e1, "valid"), AnItem(e1, "valid")>>),
   BatchOf(<<AnItem(e1, "foreign"), AnItem(e2, "invalid"), AnItem(e2, "valid")>>),
   BatchOf(<<AnItem(e1, "invalid")>>)}

\* Threads, clients of the limiter and addresses outside the trusted networks.
Interchangeable ==
  Permutations(Workers) \cup Permutations(Threads) \cup Permutations(Keys)
    \cup Permutations(Addresses \ Trusted)

ASSUME Parameters == CollectorAssumption /\ ClientChargeAssumption

allVars == <<part, vars, limiterVars, endpointVars>>

NoEndpoint == /\ path = <<CHOOSE a \in Addresses : TRUE>> /\ header = <<>>
              /\ request = CHOOSE r \in Endpoint!Request : TRUE
              /\ Endpoint!Init

PartsInit ==
  /\ Init
  /\ Limiter!Init
  /\ \/ part \in {"collector", "limiter"} /\ NoEndpoint
     \/ part = "endpoint" /\ Endpoint!Init

PartsNext ==
  \/ part = "collector" /\ Next /\ UNCHANGED <<part, limiterVars, endpointVars>>
  \/ part = "limiter" /\ Limiter!Next /\ UNCHANGED <<part, vars, endpointVars>>
  \/ part = "endpoint" /\ Endpoint!Next /\ UNCHANGED <<part, vars, limiterVars>>

PartsSpec == PartsInit /\ [][PartsNext]_allVars
=============================================================================
