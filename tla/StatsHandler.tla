---------------------------- MODULE StatsHandler -----------------------------
(***************************************************************************)
(* One request through the apx_stats handler: the chain below it sets      *)
(* variables, proxies with retries, writes through the recorder and        *)
(* returns; the handler then derives status, origin, disposition and       *)
(* domain-health evidence from what all of that left behind.               *)
(***************************************************************************)
EXTENDS Integers, FiniteSets

CONSTANTS
    Code,           \* statuses of responses
    MaxAttempts     \* bound on the upstream attempts of a request

(* What the bounds of the model are. *)
StatsHandlerAssumption == Code \subseteq 200..599 /\ MaxAttempts \in Nat

VARIABLES
    modeV2,         \* request events in mode v2
    skip,           \* a holder-only handler, or a monitor's probe
    exempt,         \* the request's frozen defense evidence
    requestVars,    \* its variables: vhost, health key, block reason, outcomes
    repl, before,   \* reverse_proxy placeholders, and their snapshot
    recorder,       \* the response writer wrapped around the chain
    gone,           \* the client cancelled
    try,            \* the current upstream attempt: none, selected or answered
    attempts, code, \* how many there were; what the last answer's status was
    wire,           \* the status the client got, 0 while none
    servErr,        \* what the chain returned; "" while it runs
    out             \* what the handler recorded, <<>> if nothing

chain == <<modeV2, skip, exempt, requestVars, before, gone>>
vars == <<chain, repl, recorder, try, attempts, code, wire, servErr, out>>

Placeholder == [address : BOOLEAN, latency : 0..2, status : {0, 101} \union Code]

(* A pass over a proxy before this handler may have left its answer. *)
Init ==
    /\ modeV2 \in BOOLEAN /\ skip \in BOOLEAN /\ exempt \in BOOLEAN
    /\ requestVars \in [vhost : 0..1, key : BOOLEAN, reason : {""}, outcome : {"", "issued", "passed"}, verify : BOOLEAN]
    /\ repl \in {p \in Placeholder : p.latency \in {0, 1} /\ p.status \in {0, 200}
                                     /\ (p.latency = 0 <=> p.status = 0) /\ (p.address <=> p.status # 0)}
    /\ before = repl.latency
    /\ recorder = [status |-> 200, wrote |-> FALSE, hijacked |-> FALSE]
    /\ gone = FALSE /\ try = "none" /\ attempts = 0 /\ code = 0
    /\ wire = 0 /\ servErr = "" /\ out = <<>>

Running == servErr = ""

-----------------------------------------------------------------------------

Informational(c) == c \in 100..199 /\ c # 101

(* recorder.WriteHeader over a writer that itself ignores a second status. *)
WriteHeader(c) ==
    IF recorder.wrote \/ Informational(c) THEN recorder
    ELSE [recorder EXCEPT !.status = c, !.wrote = TRUE]

OnWire(c) == IF wire = 0 /\ ~(c \in 100..199 /\ c # 101) THEN c ELSE wire

(* A handler of the chain writes a status: early hints, its own response, the
   upstream's, or what a response handler made of it ... *)
Respond(c) ==
    /\ Running /\ try # "selected"
    /\ recorder' = WriteHeader(c)
    /\ wire' = OnWire(c)
    /\ UNCHANGED <<chain, repl, try, attempts, code, servErr, out>>

(* ... or a body without one. *)
Write ==
    /\ Running /\ try # "selected"
    /\ recorder' = [recorder EXCEPT !.wrote = TRUE]
    /\ wire' = OnWire(200)
    /\ UNCHANGED <<chain, repl, try, attempts, code, servErr, out>>

Hijack ==
    /\ Running /\ try = "answered" /\ code = 101
    /\ recorder' = [recorder EXCEPT !.wrote = TRUE, !.hijacked = TRUE]
    /\ UNCHANGED <<chain, repl, try, attempts, code, wire, servErr, out>>

(* reverse_proxy selects an upstream, again when the last attempt failed or
   its response is one to retry, ... *)
Attempt ==
    /\ Running /\ ~recorder.wrote /\ attempts < MaxAttempts
    /\ attempts' = attempts + 1 /\ try' = "selected"
    /\ repl' = [repl EXCEPT !.address = TRUE]
    /\ UNCHANGED <<chain, recorder, code, wire, servErr, out>>

(* ... and an answer sets latency and status together. *)
Answer(c, latency) ==
    /\ Running /\ try = "selected"
    /\ try' = "answered" /\ code' = c
    /\ repl' = [repl EXCEPT !.latency = latency, !.status = c]
    /\ UNCHANGED <<chain, recorder, attempts, wire, servErr, out>>

Cancel ==
    /\ Running /\ gone' = TRUE
    /\ UNCHANGED <<modeV2, skip, exempt, requestVars, before, repl, recorder, try, attempts, code, wire, servErr, out>>

(* A blocking handler may name its reason. *)
SetReason(reason) ==
    /\ Running /\ attempts = 0 /\ requestVars.reason = ""
    /\ requestVars' = [requestVars EXCEPT !.reason = reason]
    /\ UNCHANGED <<modeV2, skip, exempt, before, gone, repl, recorder, try, attempts, code, wire, servErr, out>>

(* The errors the chain can return here; "nil" for none. *)
Returnable ==
    (IF try = "selected" /\ ~gone THEN {} ELSE {"nil"}) \union
    (IF attempts = 0 THEN {"waf", "rate_limit", "noUpstreams", "early"} ELSE {}) \union
    (IF try = "selected" THEN {"proxy"} ELSE {}) \union
    (IF try = "answered" THEN {"local"} ELSE {}) \union
    (IF try = "answered" /\ ~recorder.wrote /\ code >= 500 THEN {"retried"} ELSE {})

(* The status of a caddyhttp.HandlerError. *)
StatusCode(e) ==
    CASE e = "waf" -> 403 [] e = "rate_limit" -> 429 [] e = "noUpstreams" -> 503 [] e = "early" -> 404
      [] e = "proxy" -> 502 [] e = "local" -> 500 [] e = "retried" -> code

-----------------------------------------------------------------------------
blockReason(e) ==
    IF requestVars.reason # "" THEN requestVars.reason ELSE IF e \in {"waf", "rate_limit"} THEN e ELSE ""

(* A response handler's own error, told from a transport's by its trace. *)
localResponseHandlerError(e) == repl.latency # 0 /\ e \in {"local", "early"}

noAvailableUpstreams(e) == e = "noUpstreams"
retriedUpstreamResponse(e) == e = "retried"

classifyOrigin(e) ==
    IF blockReason(e) # "" THEN "cluster_blocked"
    ELSE IF noAvailableUpstreams(e) THEN "cluster_proxy_error"
    ELSE IF ~repl.address THEN "cluster"
    ELSE IF e = "nil" \/ retriedUpstreamResponse(e) THEN "upstream"
    ELSE IF localResponseHandlerError(e) THEN "cluster" ELSE "cluster_proxy_error"

deriveDisposition(reason, outcome) ==
    CASE reason = "waf" -> "waf_blocked" [] reason = "rate_limit" -> "rate_limited"
      [] outcome = "issued" -> "challenge_issued" [] outcome = "passed" -> "challenge_passed" [] OTHER -> "served"

finalStatus(e) == IF recorder.wrote \/ e = "nil" THEN recorder.status ELSE StatusCode(e)

(* Faulty: whatever placeholders are there count. *)
AnyAnswer(e) == classifyOrigin(e) = "upstream" /\ repl.latency > 0

(* domainHealthUpstreamStatus: the answer must be the final attempt's. *)
Observed(e) ==
    /\ classifyOrigin(e) = "upstream"
    /\ recorder.wrote \/ retriedUpstreamResponse(e)
    /\ repl.latency > 0 /\ repl.latency # before

Bit(b) == IF b THEN 1 ELSE 0

Health(e) ==
    LET origin == classifyOrigin(e) IN
    [routing   |-> Bit(\/ Observed(e)
                       \/ /\ e = "nil" /\ origin # "cluster_proxy_error"
                          /\ recorder.wrote \/ (origin # "upstream" /\ ~gone)),
     upstream  |-> Bit(Observed(e)),
     successes |-> Bit(Observed(e) /\ repl.status \in 200..399),
     fails     |-> Bit(Observed(e) /\ repl.status \in 500..599),
     proxy     |-> Bit(origin = "cluster_proxy_error")]

NoRow == [kind |-> "none"]
Row(e, vhost) == [kind |-> "event", vhost |-> vhost, status |-> finalStatus(e), origin |-> classifyOrigin(e),
                  disposition |-> deriveDisposition(blockReason(e), requestVars.outcome), exempt |-> exempt]

(* record: attempts first, then what depends on a vhost. *)
record(e) ==
    [attempt |-> requestVars.outcome # "" /\ ~exempt,
     verify  |-> requestVars.verify,
     unique  |-> requestVars.vhost # 0,
     counter |-> IF requestVars.vhost = 0 THEN NoRow
                 ELSE [kind |-> "counter", status |-> finalStatus(e), origin |-> classifyOrigin(e), exempt |-> exempt],
     health  |-> IF requestVars.vhost # 0 /\ requestVars.key THEN Health(e) ELSE NoRow,
     event   |-> IF modeV2 /\ (requestVars.vhost # 0 \/ requestVars.outcome # "") THEN Row(e, requestVars.vhost)
                 ELSE IF ~modeV2 /\ requestVars.vhost # 0 /\ blockReason(e) = "" THEN Row(e, requestVars.vhost) ELSE NoRow]

(* ServeHTTP: the chain returns, the handler records, and the server answers
   for an error nobody has answered. *)
ServeHTTP(e) ==
    /\ Running
    /\ servErr' = e
    /\ out' = IF skip THEN <<>> ELSE record(e)
    /\ wire' = IF recorder.hijacked THEN wire ELSE OnWire(IF e = "nil" THEN 200 ELSE StatusCode(e))
    /\ UNCHANGED <<chain, repl, recorder, try, attempts, code>>

Next ==
    \/ \E c \in Code \union {101, 103} : Respond(c)
    \/ Write \/ Hijack \/ Attempt \/ Cancel
    \/ \E c \in Code \union {101}, latency \in 1..2 : Answer(c, latency)
    \/ \E reason \in {"waf", "rate_limit", "other"} : SetReason(reason)
    \/ \E e \in Returnable : ServeHTTP(e)

Spec == Init /\ [][Next]_vars

-----------------------------------------------------------------------------
Counted == out # <<>> /\ out.counter # NoRow


(* What is said of the upstream is said of the last attempt.  Only an answer
   to it is evidence, and its own status decides: neither an earlier retry,
   nor an earlier pass, nor a cancelled wait, nor a rewritten status
   (domain_health.go:41).  And a proxy error is counted exactly when the last
   attempt failed or none was possible, and no block came first: an answer to
   an earlier retry does not hide it, and a response handler's error is not
   one (handler.go:525). *)
LastAttemptDecides ==
    Counted =>
        /\ out.health # NoRow =>
              /\ out.health.upstream = 1 => try = "answered"
              /\ out.health.successes = 1 => code \in 200..399
              /\ out.health.fails = 1 => code \in 500..599
        /\ out.counter.origin = "cluster_proxy_error" <=>
              servErr \in {"proxy", "noUpstreams"} /\ requestVars.reason = ""
=============================================================================
