---------------------------- MODULE HttpEndpoint ----------------------------
(***************************************************************************)
(* The collection endpoint (ingest/http.py): a request travels from its    *)
(* sender through proxies to the handler, which checks it step by step,    *)
(* finds the client it is charged to and answers.                          *)
(*                                                                         *)
(* A proxy appends the address it was reached from to the real-ip header   *)
(* (external: how reverse proxies behave).  What the sender itself put in  *)
(* the header is any list of addresses and of items no address parses      *)
(* from.  IngestService is modelled by the results it may return; see      *)
(* Collector for how it comes to them.                                     *)
(***************************************************************************)
EXTENDS Naturals, Sequences, SequencesExt

CONSTANTS
  Addresses,   \* addresses of senders and proxies
  Trusted,     \* those inside trusted_proxy_cidrs
  Junk,        \* a header item that is no address
  MaxForged,   \* bound: items the sender puts in the header
  MaxHops,     \* bound: proxies on the way
  HasToken,    \* an api token is configured
  MaxBody      \* max_body_bytes

EndpointAssumption ==
  /\ Trusted \subseteq Addresses
  /\ Junk \notin Addresses
  /\ {MaxForged, MaxHops} \subseteq Nat
  /\ HasToken \in BOOLEAN
  /\ MaxBody \in Nat \ {0}

VARIABLES
  path,    \* addresses the request came through, the sender first
  header,  \* the items of the real-ip header
  forged,  \* how many of them the sender wrote
  request, \* what the checks look at
  step,    \* how far the request is
  body,    \* bytes the handler has asked the socket for
  charged, \* the key the limiter is asked about, or "none"
  answer   \* the HTTP status, 0 before there is one

vars == <<path, header, forged, request, step, body, charged, answer>>

\* What a request can carry: the credential in Authorization and X-API-Key
\* ("right" or "wrong" token), the declared length and what the body holds.
Request ==
  [known : BOOLEAN, bearer : {"none", "right", "wrong"},
   key : {"none", "right", "wrong"}, json : BOOLEAN,
   declared : {"no length", "no number", "length"}, length : 0 .. MaxBody + 1,
   complete : BOOLEAN,
   holds : {"garbage", "array", "event", "batch"}]

Init ==
  /\ path \in {<<a>> : a \in Addresses}
  /\ header \in SeqOf(Addresses \cup {Junk}, MaxForged)
  /\ forged = Len(header)
  /\ request \in Request
  /\ step = "travels" /\ body = 0 /\ charged = "none" /\ answer = 0

\* A proxy passes the request on, with the address it got it from.
Hop(p) ==
  /\ step = "travels" /\ Len(path) <= MaxHops
  /\ path' = Append(path, p)
  /\ header' = Append(header, Last(path))
  /\ UNCHANGED <<forged, request, step, body, charged, answer>>

Arrive ==
  /\ step = "travels"
  /\ step' = "headers"
  /\ UNCHANGED <<path, header, forged, request, body, charged, answer>>

\* Mutant of ClientIp: the header is read from the left.
ClientIpLeftmost(peer, items) ==
  IF peer \notin Trusted \/ items = <<>> THEN peer
  ELSE LET seen == {i \in DOMAIN items : items[i] \notin Trusted}
           first == CHOOSE i \in seen : \A j \in seen : i <= j
       IN IF seen = {} \/ items[first] = Junk THEN peer ELSE items[first]

\* _client_ip: from the right, the first address that is no trusted proxy; an item
\* that is no address, or none left, means the peer.
ClientIp(peer, items) ==
  IF peer \notin Trusted \/ items = <<>> THEN peer
  ELSE LET seen == {i \in DOMAIN items : items[i] \notin Trusted}
           last == CHOOSE i \in seen : \A j \in seen : j <= i
       IN IF seen = {} \/ items[last] = Junk THEN peer ELSE items[last]

\* _authorized: a bearer token goes before X-API-Key.
Authorized(r) ==
  \/ ~HasToken
  \/ r.bearer = "right"
  \/ r.bearer = "none" /\ r.key = "right"

\* do_POST up to the body: the status of the first check that fails, 0 for none.
HeaderStatus(r) ==
  CASE ~r.known -> 404
    [] r.known /\ ~Authorized(r) -> 401
    [] OTHER -> CASE ~r.json -> 415
                  [] r.json /\ r.declared = "no length" -> 411
                  [] r.json /\ r.declared = "no number" -> 400
                  [] r.json /\ r.declared = "length" /\ (r.length < 1 \/ r.length > MaxBody) -> 413
                  [] OTHER -> 0

RefuseHeaders ==
  /\ step = "headers" /\ HeaderStatus(request) # 0
  /\ answer' = HeaderStatus(request)
  /\ step' = "done"
  /\ UNCHANGED <<path, header, forged, request, body, charged>>

ReadBody ==
  /\ step = "headers" /\ HeaderStatus(request) = 0
  /\ body' = request.length
  /\ step' = "body"
  /\ UNCHANGED <<path, header, forged, request, charged, answer>>

RefuseBody ==
  /\ step = "body"
  /\ ~request.complete \/ request.holds \in {"garbage", "array"}
  /\ answer' = 400
  /\ step' = "done"
  /\ UNCHANGED <<path, header, forged, request, body, charged>>

\* The service is called with the client's address.
Ingest ==
  /\ step = "body"
  /\ request.complete /\ request.holds \in {"event", "batch"}
  /\ charged' = ClientIp(Last(path), header)
  /\ step' = "ingest"
  /\ UNCHANGED <<path, header, forged, request, body, answer>>

\* _status_for, and the statuses of a batch.
StatusFor(result) ==
  CASE result.status \in {"accepted", "forwarded", "duplicate", "in_progress"} -> 202
    [] result.status = "rate_limited" -> 429
    [] result.status \notin {"accepted", "forwarded", "duplicate", "in_progress", "rate_limited"} ->
         IF result.retryable THEN 503 ELSE 422

BatchStatusFor(status, results) ==
  CASE status = "accepted" -> 202
    [] status = "rate_limited" -> 429
    [] status = "rejected" -> IF results = 0 THEN 400 ELSE 422
    [] status = "partial" -> 207

\* What ingest_event and ingest_batch return: [status, retryable].
EventResults ==
  {[status |-> s, retryable |-> FALSE] : s \in {"accepted", "forwarded", "duplicate", "rejected"}}
    \cup {[status |-> s, retryable |-> TRUE] : s \in {"rate_limited", "in_progress", "transient_error"}}

BatchResults ==
  {[status |-> "accepted", results |-> 1], [status |-> "partial", results |-> 1],
   [status |-> "rejected", results |-> 0], [status |-> "rate_limited", results |-> 0]}

AnswerEvent(result) ==
  /\ step = "ingest" /\ request.holds = "event"
  /\ answer' = StatusFor(result)
  /\ step' = "done"
  /\ UNCHANGED <<path, header, forged, request, body, charged>>

AnswerBatch(result) ==
  /\ step = "ingest" /\ request.holds = "batch"
  /\ answer' = BatchStatusFor(result.status, result.results)
  /\ step' = "done"
  /\ UNCHANGED <<path, header, forged, request, body, charged>>

Next ==
  \/ \E p \in Addresses : Hop(p)
  \/ Arrive
  \/ RefuseHeaders
  \/ ReadBody
  \/ RefuseBody
  \/ Ingest
  \/ \E result \in EventResults : AnswerEvent(result)
  \/ \E result \in BatchResults : AnswerBatch(result)

Spec == Init /\ [][Next]_vars

-----------------------------------------------------------------------------
(* Properties.                                                             *)

\* A request is charged to the last hop outside the trusted networks, whatever
\* its sender wrote into the header: nobody can be charged for another's requests
\* or escape its own limit.
ChargedToLastOutsider ==
  charged # "none" /\ (\E i \in DOMAIN path : path[i] \notin Trusted) =>
    charged = path[CHOOSE i \in DOMAIN path :
                     path[i] \notin Trusted /\ \A j \in i + 1 .. Len(path) : path[j] \in Trusted]

\* "bounded request handling" (docstring of ingest/http.py): no byte of a body is
\* read, and no token of the limiter spent, for a request that is unauthorised,
\* too large or without a length.
BoundedHandling ==
  /\ body <= MaxBody
  /\ body # 0 => request.known /\ Authorized(request)
  /\ charged # "none" => body # 0
=============================================================================
