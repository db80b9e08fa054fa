------------------------------ MODULE MCServices ------------------------------
(***************************************************************************)
(* The parts of the services that have no behaviour in common, side by     *)
(* side: a behaviour belongs to one of them, chosen at the start, and the  *)
(* others do nothing.  Each part has variables of its own, so that what    *)
(* holds here of a part holds of the part by itself.                       *)
(*                                                                         *)
(*   "outbox pair", "outbox alone"   OutboxPublisher, two instances or one *)
(*   "lifecycle"                     ServiceLifecycle                      *)
(*   "startup"                       ServiceStartup                        *)
(*   "pipeline"                      RequestPipeline                       *)
(*   "seeding", "prices", "price readers"     Pricing                      *)
(*   "event counts", "trade counts"  OperationsCounters                    *)
(***************************************************************************)
EXTENDS OutboxPublisher, TLC

CONSTANTS i1, i2, q1, q2, e1, e2, t1, t2, database, rabbitmq,
          short, default, internal, operator, metrics, other, None

CONSTANTS
    ServerRequests, Deliveries, Probes, Dependencies, Critical, MaxSignals, MaxChanges,
    Tokens, ShortTokens, DefaultTokens, PasswordKinds,
    HttpRequests, Calls, Presented, Configured, Limit, WriteLimit, MaxProcesses,
    CountedEvents, CountedTrades, MaxRetries, MaxLost, MaxRuns, MaxRestarts,
    Engines, Recalculations, Markets, OneKwh, DefaultRule, HistoryPage, MaxDeaths, MaxTime

VARIABLE part

-----------------------------------------------------------------------------
VARIABLES closing, shuttingDown, inProgress, deadline, exitCode, working, up, probe,
          down, told, repeated, signals, changes
lifecycleVars == <<closing, shuttingDown, inProgress, deadline, exitCode,
                   working, up, probe, down, told, repeated, signals, changes>>

Lifecycle == INSTANCE ServiceLifecycle WITH stage <- closing, Requests <- ServerRequests
ASSUME LifecycleConstants == Lifecycle!LifecycleAssumption

-----------------------------------------------------------------------------
VARIABLES environment, uses, tokens, urls, role, starting, warned
startupVars == <<environment, uses, tokens, urls, role, starting, warned>>

Startup == INSTANCE ServiceStartup WITH stage <- starting, NoToken <- None
ASSUME StartupConstants == Startup!TokensAssumption

\* Of the many ways to be configured, one when the startup is not looked at.
SomeConfiguration ==
    /\ environment = "production" /\ uses = Startup!Roles
    /\ tokens = [r \in Startup!Roles |-> None]
    /\ urls = [name \in {"DATABASE_URL", "RABBITMQ_URL"} |-> "good"]
    /\ role = [found |-> FALSE, superuser |-> FALSE, ownsDatabase |-> FALSE, ownsTables |-> FALSE]
    /\ starting = "created" /\ warned = {}

-----------------------------------------------------------------------------
(* Callers of every kind behind one address: another service, the          *)
(* operator, a scraper that has lost its way, somebody without a token.    *)
VARIABLES serving, call, status, committed, outage, open, reported, sent, process,
          processes, hits, requestsTotal, dependencyFailures
pipelineVars == <<serving, call, status, committed, outage, open, reported,
                  sent, process, processes, hits, requestsTotal,
                  dependencyFailures>>

Caller(route, token) == [client |-> "gateway", route |-> route, token |-> token]
Callers == {Caller("settle", internal), Caller("settle", other), Caller("recalculate", operator),
            Caller("recalculate", metrics), Caller("read", None), Caller("ready", None)}

ThreeConfigured == [r \in {"internal-service", "operator", "metrics"} |->
    CASE r = "internal-service" -> internal [] r = "operator" -> operator [] OTHER -> metrics]

Pipeline == INSTANCE RequestPipeline WITH
    stage <- serving, restarts <- processes, Requests <- HttpRequests, Tokens <- Presented,
    ShortTokens <- {}, DefaultTokens <- {}, NoToken <- None, MaxRestarts <- MaxProcesses
ASSUME PipelineConstants == Pipeline!PipelineAssumption

\* Two requests at once are of a kind, or one of them settles a trade; the first to
\* come is called q1.
TwoOfAKind ==
    /\ call'[q1] = Pipeline!NoCall => call'[q2] = Pipeline!NoCall
    /\ \A q, r \in HttpRequests :
           \/ call'[q] = call'[r] \/ Pipeline!NoCall \in {call'[q], call'[r]}
           \/ Caller("settle", internal) \in {call'[q], call'[r]}

-----------------------------------------------------------------------------
(* Prices in units, energy in half kilowatt hours: no supply, less than a  *)
(* kilowatt hour, a tie, thirds either side of it, and ratios beyond both  *)
(* ends of the band.                                                       *)
VARIABLES rules, snapshots, now, instance, recalc, current, history, summary, crashes
pricesVars == <<rules, snapshots, now, instance, recalc, current, history,
                summary, crashes>>

EightMarkets == {<<0, 3>>, <<1, 3>>, <<2, 2>>, <<3, 2>>, <<3, 4>>, <<8, 5>>, <<9, 0>>, <<2, 9>>}
TwoToSeven == [basePrice |-> 4, minPrice |-> 2, maxPrice |-> 7]

Engine == INSTANCE Pricing WITH
    Instances <- Engines, Requests <- Recalculations, Inputs <- Markets,
    PageSize <- HistoryPage, MaxCrashes <- MaxDeaths
ASSUME PricingConstants == Engine!PricingAssumption

\* Two processes start, die and start again, and recalculate once; or one process
\* and two recalculations of any market while it keeps dying, nobody reads; or one
\* and three of one market while the history or the summary is read.
OnlyOneStarts == \A i, j \in Engines : instance'[i] # "off" /\ instance'[j] # "off" => i = j
Seeding ==
    /\ UNCHANGED <<now, current, history, summary>>
    /\ recalc'[1].at = "priced" => recalc'[1].supply = 2 /\ recalc'[1].demand = 2
    /\ recalc'[2] = recalc[2] /\ recalc'[3] = recalc[3]
TwoOfAny == OnlyOneStarts /\ recalc'[3] = recalc[3] /\ UNCHANGED <<current, history, summary>>
ThreeOfOne ==
    /\ OnlyOneStarts
    /\ \A r \in Recalculations : recalc'[r].at = "priced" => recalc'[r].supply = 2 /\ recalc'[r].demand = 2
    /\ crashes' = 0
    /\ history'.at # "none" => summary'.at = "none"

-----------------------------------------------------------------------------
VARIABLES row, queued, hand, toCount, offers, run, asking, tradeRow, entries, meter, messages,
          market, settlements, restarts, lost, runs, again, unseen, rolledBack, unheard
countersVars == <<row, queued, hand, toCount, offers, run, asking, tradeRow,
                  entries, meter, messages, market, settlements, restarts,
                  lost, runs, again, unseen, rolledBack, unheard>>

Counters == INSTANCE OperationsCounters WITH
    faults <- lost, trade <- tradeRow, ledger <- entries,
    Events <- CountedEvents, Trades <- CountedTrades, Nothing <- None, MaxFaults <- MaxLost
ASSUME CountersConstants == Counters!CountersAssumption

\* Two events and no operator; or one event, never retried, and an operator's run.
\* There is one fault or one restart.
OneMishap == lost' + restarts'["trading"] + restarts'["billing"] <= 1
EventCounts == OneMishap /\ runs' = 0 /\ tradeRow'[t2] = tradeRow[t2]
TradeCounts == OneMishap /\ row'[e2] = row[e2] /\ messages'.retry_scheduled = 0

-----------------------------------------------------------------------------
Parts == {"outbox pair", "outbox alone", "lifecycle", "startup", "pipeline", "seeding",
          "prices", "price readers", "event counts", "trade counts"}

(* Only one of the two publishers does anything, or they both do, are not  *)
(* stopped, and one thing goes wrong at most.                              *)
Touched(i) == \/ pass[i] # NoPass \/ mode[i] # "running"
              \/ orphans[i] # {} \/ returned[i] # {}
Alone == Cardinality({i \in Instances : Touched(i)'}) <= 1
Together == stops' = 0 /\ faults' + outages' <= 1

MCInit ==
    /\ part \in Parts
    /\ Init /\ Lifecycle!Init /\ Pipeline!Init /\ Engine!Init /\ Counters!Init
    /\ part \notin {"seeding", "prices", "price readers"} => rules = <<>>
    /\ IF part = "startup" THEN Startup!Init ELSE SomeConfiguration

OutboxSteps ==
    /\ \/ part = "outbox pair" /\ Next /\ Together
       \/ part = "outbox alone" /\ Next /\ Alone
    /\ UNCHANGED <<lifecycleVars, startupVars, pipelineVars, pricesVars, countersVars>>
LifecycleSteps ==
    /\ part = "lifecycle" /\ Lifecycle!Next
    /\ UNCHANGED <<vars, startupVars, pipelineVars, pricesVars, countersVars>>
StartupSteps ==
    /\ part = "startup" /\ Startup!Next
    /\ UNCHANGED <<vars, lifecycleVars, pipelineVars, pricesVars, countersVars>>
PipelineSteps ==
    /\ part = "pipeline" /\ Pipeline!Next /\ TwoOfAKind
    /\ UNCHANGED <<vars, lifecycleVars, startupVars, pricesVars, countersVars>>
PricesSteps ==
    /\ \/ part = "seeding" /\ Engine!Next /\ Seeding
       \/ part = "prices" /\ Engine!Next /\ TwoOfAny
       \/ part = "price readers" /\ Engine!Next /\ ThreeOfOne
    /\ UNCHANGED <<vars, lifecycleVars, startupVars, pipelineVars, countersVars>>
CountersSteps ==
    /\ \/ part = "event counts" /\ Counters!Next /\ EventCounts
       \/ part = "trade counts" /\ Counters!Next /\ TradeCounts
    /\ UNCHANGED <<vars, lifecycleVars, startupVars, pipelineVars, pricesVars>>
MCNext ==
    /\ \/ OutboxSteps \/ LifecycleSteps \/ StartupSteps \/ PipelineSteps
       \/ PricesSteps \/ CountersSteps
    /\ part' = part

allVars == <<vars, lifecycleVars, startupVars, pipelineVars, pricesVars, countersVars>>
MCSpec == MCInit /\ [][MCNext]_<<allVars, part>>

-----------------------------------------------------------------------------
(* A stop leaves nothing in progress behind when the connections close,    *)
(* and probes on the way are told the truth, of the dependencies and of    *)
(* the stop; with one probe at a time the log tells of changes only.       *)
(* (installGracefulShutdown, evaluateReadiness, HealthController)          *)
StopsInOrder ==
    part = "lifecycle" =>
        /\ Lifecycle!TypeOK
        /\ Lifecycle!ConnectionsCloseLast /\ Lifecycle!LateProbesSeeTheStop
        /\ Lifecycle!OnlyCriticalCounts
        /\ Lifecycle!OneProbe => Lifecycle!OnlyChangesAreLogged

(* In production a service that runs tells the roles of its callers apart, *)
(* and one that listens has no more rights than it needs and no password   *)
(* anybody would try.  (configureHttpApp, VerifyRuntimeDatabaseRole)       *)
ListensWhenSafe ==
    part = "startup" =>
        Startup!TypeOK /\ Startup!RolesAreToldApart /\ Startup!ListensAsRuntimeRole

(* Settling never meets the rate limit, an answer of 4xx means that        *)
(* nothing was recorded, an outage is answered 503, and the counters agree *)
(* with what was answered, also after a restart.                           *)
(* (the guards, the exception filter and the request observer)             *)
AnswersAreTrue ==
    part = "pipeline" =>
        /\ Pipeline!TypeOK
        /\ Pipeline!SettlementIsNeverThrottled /\ Pipeline!RefusedMeansNothingDone
        /\ Pipeline!EveryAnswerIsCounted /\ Pipeline!OutagesAreCounted

(* Prices are the clamped ratio, rounded once, and monotone in scarcity;   *)
(* every process that serves has a rule, and processes that start at once  *)
(* make no more of them than they are; the current price never goes back;  *)
(* the history skips nothing and the summary's latest price is no older    *)
(* than its averages.                                                      *)
(* (PricesService, StatsService)                                           *)
PricesHold ==
    /\ [](part \in {"seeding", "prices", "price readers"} =>
             /\ Engine!TypeOK
             /\ Engine!PriceIsTheClampedRatio /\ Engine!ScarcerIsNotCheaper
             /\ Engine!NoRequestFindsNoRule /\ Engine!OneRulePerProcess
             /\ Engine!PagesSkipNothing /\ Engine!LatestCoversAverages)
    /\ Engine!CurrentNeverGoesBack

(* The figures of the dashboard's system page account for every event and  *)
(* trade, whatever is retried, repeated, lost or restarted.                *)
(* (the services' metrics, SystemViews)                                    *)
FiguresAddUp ==
    part \in {"event counts", "trade counts"} =>
        /\ Counters!TypeOK
        /\ Counters!StagesAddUp /\ Counters!TradesAreAccountedFor
        /\ Counters!LedgerExplainsSettled
=============================================================================
