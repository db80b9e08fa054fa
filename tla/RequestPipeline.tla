---------------------------- MODULE RequestPipeline ----------------------------
(***************************************************************************)
(* Requests on their way through one service: the observation middleware,  *)
(* the throttler, the guard, validation, the handler, the error filter and *)
(* the answer, with clients that hang up and processes that restart, and   *)
(* the counters the operators read of it all.                              *)
(***************************************************************************)
EXTENDS Credentials, FiniteSets, FiniteSetsExt

CONSTANTS
    Requests,      \* requests that may be made
    Calls,         \* what they may be: records of client, route and token
    Configured,    \* the tokens of the service
    Limit,         \* requests of one client to one route in a window
    WriteLimit,    \* the same for a route with WriteRateLimit
    MaxRestarts    \* bound: restarts of the process

PipelineAssumption ==
    /\ IsFiniteSet(Requests)
    /\ Configured \in Configurations /\ Limit \in Nat /\ WriteLimit \in Nat /\ MaxRestarts \in Nat

VARIABLES
    stage,       \* of each request: where it is in the pipeline
    call,        \* what it is
    status,      \* res.statusCode
    committed,   \* its handler's transaction is in the database
    outage,      \* its handler failed because the database did not answer
    open,        \* its connection
    reported,    \* the flag of its observer
    sent,        \* the status its client was sent; 0 for none
    process,     \* the process that took it
    restarts,    \* of the service so far
    hits,        \* the throttler's: requests of a client to a route in this window
    requestsTotal,        \* http_requests_total, by status
    dependencyFailures    \* dependency_failures_total

request == <<stage, call, status, committed, outage, open, reported, sent, process>>
counters == <<requestsTotal, dependencyFailures>>
vars == <<request, restarts, hits, counters>>

Statuses == {200, 400, 401, 403, 404, 409, 422, 429, 500, 503}
NoCall == [client |-> "none", route |-> "none", token |-> NoToken]
Keys == {<<c.client, c.route>> : c \in Calls}

\* The decorators of a route.
Required(route) ==
    CASE route = "settle" -> "internal-service" [] route = "recalculate" -> "operator"
      [] OTHER -> "anyone"
Limited(route) == route # "ready"
LimitOf(route) == IF route = "recalculate" THEN WriteLimit ELSE Limit

Init ==
    /\ stage = [r \in Requests |-> "idle"]
    /\ call = [r \in Requests |-> NoCall]
    /\ status = [r \in Requests |-> 200]
    /\ committed = [r \in Requests |-> FALSE]
    /\ outage = [r \in Requests |-> FALSE]
    /\ open = [r \in Requests |-> TRUE]
    /\ reported = [r \in Requests |-> FALSE]
    /\ sent = [r \in Requests |-> 0]
    /\ process = [r \in Requests |-> 0]
    /\ restarts = 0
    /\ hits = [k \in Keys |-> 0]
    /\ requestsTotal = [s \in Statuses |-> 0]
    /\ dependencyFailures = 0

Alive(r) == stage[r] \notin {"idle", "lost"}

Arrive(r, c) ==
    /\ stage[r] = "idle"
    /\ stage' = [stage EXCEPT ![r] = "arrived"]
    /\ call' = [call EXCEPT ![r] = c]
    /\ process' = [process EXCEPT ![r] = restarts]
    /\ UNCHANGED <<status, committed, outage, open, reported, sent, restarts, hits, counters>>

Answer(r, s) ==
    /\ stage' = [stage EXCEPT ![r] = "answered"]
    /\ status' = [status EXCEPT ![r] = s]

Go(r, next) ==
    /\ stage' = [stage EXCEPT ![r] = next]
    /\ UNCHANGED status

Exempt(c) ==
    \/ ~Limited(c.route)
    \/ Identify(Configured, c.token) = "internal-service"

\* The throttler is the global guard, so it counts before anyone is identified.
Throttle(r) ==
    LET c == call[r]
        key == <<c.client, c.route>>
    IN
    /\ stage[r] = "arrived"
    /\ IF Exempt(c)
       THEN Go(r, "admitted") /\ UNCHANGED hits
       ELSE /\ hits' = [hits EXCEPT ![key] = IF @ > LimitOf(c.route) THEN @ ELSE @ + 1]
            /\ IF hits'[key] > LimitOf(c.route) THEN Answer(r, 429) ELSE Go(r, "admitted")
    /\ UNCHANGED <<call, committed, outage, open, reported, sent, process, restarts, counters>>

\* The client's window, and the block with it, has run out.
WindowEnds(key) ==
    /\ hits[key] > 0
    /\ hits' = [hits EXCEPT ![key] = 0]
    /\ UNCHANGED <<request, restarts, counters>>

\* PrincipalGuard.canActivate
Authorise(r) ==
    LET required == Required(call[r].route)
        principal == Identify(Configured, call[r].token)
    IN
    /\ stage[r] = "admitted"
    /\ CASE required = "anyone" \/ principal = required -> Go(r, "authorised")
         [] required # "anyone" /\ principal = Nobody   -> Answer(r, 401)
         [] OTHER                                       -> Answer(r, 403)
    /\ UNCHANGED <<call, committed, outage, open, reported, sent, process, restarts, hits, counters>>

\* The ValidationPipe, on what the request holds.
Validate(r, valid) ==
    /\ stage[r] = "authorised"
    /\ IF valid THEN Go(r, "handling") ELSE Answer(r, 400)
    /\ UNCHANGED <<call, committed, outage, open, reported, sent, process, restarts, hits, counters>>

\* What a handler may throw. "down" is what happened, the rest is what the filter sees:
\* the class of the error, its code or status, and whether its wording is of an outage.
Thrown(name, codes, wording, down) ==
    {[name |-> name, code |-> c, wording |-> wording, down |-> down] : c \in codes}
KnownError == "PrismaClientKnownRequestError"
Refusals ==
    Thrown("HttpException", {"400", "404", "409", "422"}, FALSE, FALSE)
        \cup Thrown(KnownError, {"P2002", "P2025", "P2003", "P2000"}, FALSE, FALSE)
Faults ==
    Thrown(KnownError, {"P1001", "P1017", "P2024"}, FALSE, TRUE)
        \cup Thrown("PrismaClientInitializationError", {"none"}, FALSE, TRUE)
        \cup Thrown("PrismaClientUnknownRequestError", {"none"}, TRUE, TRUE)
        \cup Thrown("PrismaClientUnknownRequestError", {"none"}, FALSE, FALSE)
        \cup Thrown(KnownError, {"P2028"}, FALSE, FALSE)
        \cup Thrown("HttpException", {"503"}, FALSE, FALSE)
        \cup Thrown("Error", {"none"}, TRUE, FALSE)

PrismaClients ==
    {KnownError, "PrismaClientUnknownRequestError", "PrismaClientInitializationError"}

IsDatabaseUnavailable(e) ==
    \/ e.name = "PrismaClientInitializationError"
    \/ /\ e.name \in PrismaClients
       /\ e.code \in {"P1001", "P1002", "P1008", "P1017", "P2024"} \/ e.wording

\* Mutant of MapPrismaError: what is not listed is a conflict of the request.
MapPrismaErrorToConflict(code) ==
    CASE code = "P2025" -> 404 [] code = "P2003" -> 422
      [] code \in {"P2000", "P2006"} -> 400 [] OTHER -> 409

MapPrismaError(code) ==
    CASE code = "P2002" -> 409 [] code = "P2025" -> 404 [] code = "P2003" -> 422
      [] code \in {"P2000", "P2006"} -> 400 [] OTHER -> 500

HttpStatus == [c \in {"400", "404", "409", "422", "503"} |->
    CASE c = "400" -> 400 [] c = "404" -> 404 [] c = "409" -> 409 [] c = "422" -> 422
      [] OTHER -> 503]

ToErrorBody(e) ==
    IF IsDatabaseUnavailable(e) THEN 503
    ELSE CASE e.name = "HttpException" -> HttpStatus[e.code]
           [] e.name = KnownError      -> MapPrismaError(e.code)
           [] OTHER                    -> 500

Succeed(r) ==
    /\ stage[r] = "handling"
    /\ committed' = [committed EXCEPT ![r] = call[r].route # "read"]
    /\ Answer(r, 200)
    /\ UNCHANGED <<call, outage, open, reported, sent, process, restarts, hits, counters>>

\* The handler throws and the filter answers. A refusal has rolled back what it did;
\* a fault may come after the commit, as when the connection goes during it.
Fail(r, e, done) ==
    /\ stage[r] = "handling"
    /\ done => e \in Faults /\ call[r].route # "read"
    /\ committed' = [committed EXCEPT ![r] = done]
    /\ outage' = [outage EXCEPT ![r] = e.down]
    /\ dependencyFailures' = dependencyFailures + IF IsDatabaseUnavailable(e) THEN 1 ELSE 0
    /\ Answer(r, ToErrorBody(e))
    /\ UNCHANGED <<call, open, reported, sent, process, restarts, hits, requestsTotal>>

\* The observer's report, and MetricsRegistry.observeRequest with it.
Report(r) ==
    /\ reported' = [reported EXCEPT ![r] = TRUE]
    /\ requestsTotal' =
        IF reported[r] THEN requestsTotal ELSE [requestsTotal EXCEPT ![status[r]] = @ + 1]

\* "finish": the answer has left the service.
Finish(r) ==
    /\ stage[r] = "answered" /\ open[r] /\ sent[r] = 0
    /\ sent' = [sent EXCEPT ![r] = status[r]]
    /\ Report(r)
    /\ UNCHANGED <<stage, call, status, committed, outage, open, process, restarts, hits,
                   dependencyFailures>>

\* "close": after the answer, or before it when the client has hung up.
Close(r) ==
    /\ Alive(r) /\ open[r]
    /\ open' = [open EXCEPT ![r] = FALSE]
    /\ Report(r)
    /\ UNCHANGED <<stage, call, status, committed, outage, sent, process, restarts, hits,
                   dependencyFailures>>

\* The throttler and the counters are in memory: a new process has neither.
Restart ==
    /\ restarts < MaxRestarts
    /\ restarts' = restarts + 1
    /\ stage' = [r \in Requests |-> IF Alive(r) THEN "lost" ELSE stage[r]]
    /\ hits' = [k \in Keys |-> 0]
    /\ requestsTotal' = [s \in Statuses |-> 0]
    /\ dependencyFailures' = 0
    /\ UNCHANGED <<call, status, committed, outage, open, reported, sent, process>>

Next ==
    \/ \E r \in Requests :
        \/ \E c \in Calls : Arrive(r, c)
        \/ Throttle(r)
        \/ Authorise(r)
        \/ \E valid \in BOOLEAN : Validate(r, valid)
        \/ Succeed(r)
        \/ \E e \in Refusals \cup Faults, done \in BOOLEAN : Fail(r, e, done)
        \/ Finish(r)
        \/ Close(r)
    \/ \E key \in Keys : WindowEnds(key)
    \/ Restart

Spec == Init /\ [][Next]_vars
--------------------------------------------------------------------------------
\* The dashboard's reading of the counters.
CountOf(class) == MapThenSumSet(LAMBDA s : requestsTotal[s], {s \in Statuses : s \div 100 \in class})

HttpSummary ==
    [requests |-> CountOf(1..5), succeeded |-> CountOf(1..3),
     refused |-> CountOf({4}), failed |-> CountOf({5})]

\* The row of the service on the dashboard's page for engineers.
EngineeringDiagnostics ==
    LET http == HttpSummary IN
    [Requests |-> http.requests, Answered |-> http.succeeded,
     Refused |-> http.refused, Failed |-> http.failed,
     DatabaseUnavailable |-> dependencyFailures]
--------------------------------------------------------------------------------
(* Every answer has one of the statuses, and only an answered request has one sent. *)
TypeOK ==
    /\ \A r \in Requests :
        /\ stage[r] \in {"idle", "arrived", "admitted", "authorised", "handling", "answered", "lost"}
        /\ status[r] \in Statuses /\ sent[r] \in Statuses \cup {0}
        /\ call[r] \in Calls \cup {NoCall}
    /\ \A k \in Keys : hits[k] \in 0..(Limit + WriteLimit + 1)

\* So it is in production (ServiceStartup): no other role has the token.
ServiceIsToldApart ==
    Configured["internal-service"] # NoToken =>
        Identify(Configured, Configured["internal-service"]) = "internal-service"

(* trade-matching settling with billing never meets the rate limit, however busy the
   other callers behind the same address and on the same route are, if the service
   tells it apart. *)
SettlementIsNeverThrottled ==
    ServiceIsToldApart =>
        \A r \in Requests :
            call[r].token # NoToken /\ call[r].token = Configured["internal-service"]
                => status[r] # 429

(* An answer of 4xx means that nothing was recorded: trade-matching takes billing's
   for a definite refusal and gives the reserved energy back. A request that failed
   after its commit, or during it, is answered with something else. *)
RefusedMeansNothingDone ==
    \A r \in Requests : status[r] \in 400..499 => ~committed[r]

CurrentlyTaken == {r \in Requests : stage[r] # "idle" /\ process[r] = restarts}
SentStatus(class) == {r \in CurrentlyTaken : sent[r] \div 100 = class}

(* Each request that is over is counted once, whether its answer was finished, its
   connection closed or both, and every refusal and failure a client was sent is
   among those the dashboard shows. *)
EveryAnswerIsCounted ==
    LET page == EngineeringDiagnostics IN
    /\ page.Requests = Cardinality({r \in CurrentlyTaken : sent[r] # 0 \/ ~open[r]})
    /\ page.Refused >= Cardinality(SentStatus(4))
    /\ page.Failed >= Cardinality(SentStatus(5))

(* A request the database failed is answered 503, to be tried again, and counted as
   a failure of the database, and nothing else is counted as one. *)
OutagesAreCounted ==
    /\ EngineeringDiagnostics.DatabaseUnavailable = Cardinality({r \in CurrentlyTaken : outage[r]})
    /\ \A r \in Requests : outage[r] => status[r] = 503

(* SystemViews.tsx:380: the column "Answered (2xx/3xx)" counts the requests that were
   answered so. *)
AnsweredMeansAnswered == EngineeringDiagnostics.Answered = Cardinality(SentStatus(2))
================================================================================
