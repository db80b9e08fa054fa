------------------------------- MODULE MCProgress -------------------------------
(***************************************************************************)
(* What must happen in the end, part by part.  A behaviour belongs to one  *)
(* part, chosen at the start; the others do nothing.  The fairness of a    *)
(* part is its module's; where it is strong, the actions of different      *)
(* parts take turns in the same conjunct, of which a behaviour only ever   *)
(* sees its own part's.                                                    *)
(*                                                                         *)
(*   "ledger"              BillingLedger                                   *)
(*   "meters"              MeterReadings                                   *)
(*   "publisher"           OutboxPublisher with a broker that comes back   *)
(*   "stopping publisher"  OutboxPublisher with one that may not           *)
(*   "queue"               EnergyEvents                                    *)
(*   "process"             ServiceLifecycle                                *)
(*   "engine"              Pricing                                         *)
(*   "session"             DashboardSession                                *)
(*   "grid"                Attention                                       *)
(*   "browser"             HouseholdBrowser                                *)
(***************************************************************************)
EXTENDS OutboxPublisher, TLC

CONSTANTS p1, k1, k2, nothing, c1, c2, ann, bob, database, rabbitmq, charts, diagnosis, w1, w2,
          meterService, pricingService, matchingService, billingService, trading

VARIABLE part

-----------------------------------------------------------------------------
(* Two requests for trades in opposite directions. *)
VARIABLES pc, request, claimed, reply, completed, keyRow, credit, debit, balance
ledgerVars == <<pc, request, claimed, reply, completed, keyRow, credit, debit, balance>>

Trade(trade, seller, buyer, price, total) ==
    [trade |-> trade, seller |-> seller, buyer |-> buyer,
     energy |-> 1, price |-> price, total |-> total]
Opposite == {Trade(1, 1, 2, 50000, 1), Trade(2, 2, 1, 150000, 2)}
Books == INSTANCE BillingLedger WITH
    Keys <- {k1, k2}, NTrades <- 2, NHouseholds <- 2, Handlers <- {c1, c2},
    Payloads <- Opposite, Requests <- [key : {k1, k2}, payload : Opposite],
    None <- nothing, Earlier <- [t \in 1 .. 2 |-> nothing]

-----------------------------------------------------------------------------
(* Readings of one time from two households, and a later one. *)
VARIABLES now, readings, status, written, call, posted, answer, failures
metersVars == <<now, readings, status, written, call, posted, answer, failures>>

Reading(household, time, production, consumption) ==
    [household |-> household, time |-> time, production |-> production,
     consumption |-> consumption]
Meters == INSTANCE MeterReadings WITH
    pc <- call, outbox <- written, Households <- {ann, bob}, Times <- {1, 2},
    Posted <- {Reading(ann, 1, 3, 1), Reading(ann, 2, 1, 2), Reading(bob, 1, 5, 0)},
    Handlers <- {c1, c2}, MaxSkew <- 1, MaxFailures <- 1
ASSUME Meters!ReadingAssumption

-----------------------------------------------------------------------------
(* One event, retried once; one crash, one drop and one stop. *)
VARIABLES published, ready, delayed, parked, stored, matched, handler, consumer, mishaps
queueVars == <<published, ready, delayed, parked, stored, matched, handler, consumer, mishaps>>

Queue == INSTANCE EnergyEvents WITH
    mode <- consumer, faults <- mishaps, Events <- {1}, Instances <- {"consumer"}, Handlers <- {c1, c2},
    Body <- <<[object |-> TRUE, eventId |-> TRUE, correlationId |-> TRUE,
               householdId |-> TRUE, version |-> 1, type |-> "surplus", positive |-> TRUE]>>,
    MaxRetries <- 1, Prefetch <- 1, MaxPublished <- 1, MaxCopies <- 2,
    MaxCrashes <- 1, MaxDrops <- 1, MaxStops <- 1

-----------------------------------------------------------------------------
VARIABLES stage, shuttingDown, inProgress, deadline, exitCode, working, up, probe,
          down, told, repeated, signals, upsAndDowns
processVars == <<stage, shuttingDown, inProgress, deadline, exitCode, working,
                 up, probe, down, told, repeated, signals, upsAndDowns>>

Process == INSTANCE ServiceLifecycle WITH
    changes <- upsAndDowns, Requests <- {"request"}, Deliveries <- {"message"},
    Probes <- {"probe"}, Dependencies <- {database, rabbitmq}, Critical <- {database},
    MaxSignals <- 2, MaxChanges <- 1

-----------------------------------------------------------------------------
VARIABLES rules, snapshots, engineNow, instance, recalc, current, history, summary, crashes
engineVars == <<rules, snapshots, engineNow, instance, recalc, current,
                history, summary, crashes>>

Engine == INSTANCE Pricing WITH
    now <- engineNow, Instances <- {"first", "second"}, Requests <- {1},
    Inputs <- {<<2, 2>>}, OneKwh <- 2,
    DefaultRule <- [basePrice |-> 4, minPrice |-> 2, maxPrice |-> 7],
    PageSize <- 1, MaxCrashes <- 1, MaxTime <- 0

-----------------------------------------------------------------------------
VARIABLES valid, token, login, app, want, rendered, settled, requests, auto, hidden,
          refreshedBy, starts, rotations
sessionVars == <<valid, token, login, app, want, rendered, settled, requests,
                 auto, hidden, refreshedBy, starts, rotations>>

Session == INSTANCE DashboardSession WITH
    running <- rendered, Resources <- {charts, diagnosis}, Periodic <- {charts},
    Public <- {}, Gathers <- {diagnosis}, Parts <- 1, Windows <- {w1, w2}, FirstWindow <- w1,
    Tokens <- {k1}, None <- nothing, Services <- 1, MaxStarts <- 2, MaxRotations <- 0, MaxRefreshes <- 1

-----------------------------------------------------------------------------
VARIABLES report, facts, health, section, counters, changes
gridVars == <<report, facts, health, section, counters, changes>>

Grid == INSTANCE Attention WITH
    ServiceNames <- <<matchingService, billingService>>, smartMeter <- meterService,
    pricing <- pricingService, tradeMatching <- matchingService, billing <- billingService,
    None <- nothing, MaxChanges <- 1

-----------------------------------------------------------------------------
(* One tab with four households, one on a page. *)
VARIABLES lists, listChanges, view, page, filter, problem, asked, table,
          selected, opener, panel, panelAsked, focus
browserVars == <<lists, listChanges, view, page, filter, problem, asked,
                 table, selected, opener, panel, panelAsked, focus>>

Browser == INSTANCE HouseholdBrowser WITH
    changes <- listChanges, Views <- <<trading>>, Households <- {ann, bob, c1, c2},
    InitialLists <- (trading :> <<c2, ann, bob, c1>>), Limit <- 1, MaxChanges <- 0,
    None <- nothing

-----------------------------------------------------------------------------
Parts == {"ledger", "meters", "publisher", "stopping publisher", "queue", "process",
          "engine", "session", "grid", "browser"}

MCInit ==
    /\ part \in Parts
    /\ Init /\ Books!Init /\ Meters!Init /\ Queue!Init /\ Process!Init
    /\ Session!Init /\ Grid!Init /\ Browser!Init
    /\ Engine!Init /\ (part # "engine" => rules = <<>>)

ledgerOnly == UNCHANGED <<metersVars, vars, queueVars, processVars, engineVars,
                          sessionVars, gridVars, browserVars>>
metersOnly == UNCHANGED <<ledgerVars, vars, queueVars, processVars, engineVars,
                          sessionVars, gridVars, browserVars>>
publisherOnly == UNCHANGED <<ledgerVars, metersVars, queueVars, processVars, engineVars,
                             sessionVars, gridVars, browserVars>>
queueOnly == UNCHANGED <<ledgerVars, metersVars, vars, processVars, engineVars,
                         sessionVars, gridVars, browserVars>>
processOnly == UNCHANGED <<ledgerVars, metersVars, vars, queueVars, engineVars,
                           sessionVars, gridVars, browserVars>>
engineOnly == UNCHANGED <<ledgerVars, metersVars, vars, queueVars, processVars,
                          sessionVars, gridVars, browserVars>>
sessionOnly == UNCHANGED <<ledgerVars, metersVars, vars, queueVars, processVars,
                           engineVars, gridVars, browserVars>>
gridOnly == UNCHANGED <<ledgerVars, metersVars, vars, queueVars, processVars,
                        engineVars, sessionVars, browserVars>>
browserOnly == UNCHANGED <<ledgerVars, metersVars, vars, queueVars, processVars,
                           engineVars, sessionVars, gridVars>>

OutboxPart == part \in {"publisher", "stopping publisher"}
TwoMishaps == mishaps'.crashes + mishaps'.drops + mishaps'.stops <= 2
(* The operator of WalkSpec, who only goes on. *)
Walk == \/ Browser!PressNext \/ Browser!TableAnswers \/ Browser!TableFails \/ Browser!Refresh
        \/ Browser!OpenFromTable \/ Browser!CloseDrawer \/ Browser!PanelAnswers({})

MCNext ==
    /\ \/ part = "ledger" /\ Books!Next /\ ledgerOnly
       \/ part = "meters" /\ Meters!Next /\ metersOnly
       \/ OutboxPart /\ Next /\ publisherOnly
       \/ part = "queue" /\ Queue!Next /\ TwoMishaps /\ queueOnly
       \/ part = "process" /\ Process!Next /\ processOnly
       \/ part = "engine" /\ Engine!Next /\ engineOnly
       \/ part = "session" /\ Session!Next /\ sessionOnly
       \/ part = "grid" /\ Grid!Next /\ gridOnly
       \/ part = "browser" /\ Walk /\ browserOnly
    /\ part' = part

allVars == <<ledgerVars, metersVars, vars, queueVars, processVars, engineVars,
             sessionVars, gridVars, browserVars>>

-----------------------------------------------------------------------------
(* The strong fairness of the modules' specifications. *)
FirstTurn ==
    \/ part = "ledger" /\ Books!Work(c1) /\ ledgerOnly
    \/ part = "meters" /\ Meters!Work(c1) /\ metersOnly
    \/ part = "publisher" /\ Send(p1) /\ publisherOnly
    \/ /\ part = "queue" /\ queueOnly
       /\ \E h \in {c1, c2} : Queue!Deliver(h, "consumer", [event |-> 1, retries |-> 0])
    \/ part = "browser" /\ Browser!PressNext /\ browserOnly
SecondTurn ==
    \/ part = "ledger" /\ Books!Work(c2) /\ ledgerOnly
    \/ part = "meters" /\ Meters!Work(c2) /\ metersOnly
    \/ part = "publisher" /\ Confirm(p1) /\ publisherOnly
    \/ /\ part = "queue" /\ queueOnly
       /\ \E h \in {c1, c2} : Queue!Deliver(h, "consumer", [event |-> 1, retries |-> 1])
    \/ part = "browser" /\ Browser!TableAnswers /\ browserOnly

PublisherFairness ==
    /\ WF_vars(OutboxPart /\ (\/ StartPass(p1) \/ FinishPass(p1)
                              \/ PublishOne(p1) \/ MarkPublished(p1)))
    /\ WF_vars(OutboxPart /\ (Send(p1) \/ Confirm(p1) \/ Deadline(p1)))
    /\ WF_vars(OutboxPart /\ CloseAfterPass(p1))
    /\ WF_vars(OutboxPart /\ Start(p1))
    /\ WF_vars(part = "publisher" /\ ComeBack)
    /\ WF_vars(part = "publisher" /\ BindQueue)
QueueFairness ==
    /\ \A h \in {c1, c2} : WF_queueVars(part = "queue" /\ Queue!Handle(h))
    /\ \A n \in 0..1 : WF_queueVars(part = "queue" /\ Queue!Expire([event |-> 1, retries |-> n]))
    /\ WF_queueVars(part = "queue" /\ Queue!Start("consumer"))
    /\ WF_queueVars(part = "queue" /\ Queue!CloseAfterDrain("consumer"))
ProcessFairness ==
    /\ WF_processVars(part = "process" /\ Process!DeadlinePasses)
    /\ WF_processVars(part = "process" /\ Process!ExitAfterClose)
EngineFairness ==
    \A i \in {"first", "second"} :
        /\ WF_engineVars(part = "engine" /\ Engine!CountRules(i))
        /\ WF_engineVars(part = "engine" /\ Engine!CreateRule(i))
SessionFairness ==
    /\ WF_sessionVars(part = "session" /\ Session!Commit)
    /\ WF_sessionVars(part = "session" /\ Session!Answer)
GridFairness ==
    /\ WF_gridVars(part = "grid" /\ Grid!HealthAnswers)
    /\ \A s \in {matchingService, billingService} :
          WF_gridVars(part = "grid" /\ Grid!SectionAnswers(s))
    /\ <>[][\A s \in {matchingService, billingService} :
              report[s] # "none" => ~ Grid!SectionFails(s)]_gridVars
BrowserFairness ==
    /\ WF_browserVars(part = "browser" /\ Browser!Refresh)
    /\ WF_browserVars(part = "browser" /\ Browser!CloseDrawer)

MCSpec ==
    /\ MCInit /\ [][MCNext]_<<part, allVars>>
    /\ SF_allVars(FirstTurn) /\ SF_allVars(SecondTurn)
    /\ PublisherFairness /\ QueueFairness /\ ProcessFairness /\ EngineFairness
    /\ SessionFairness /\ GridFairness /\ BrowserFairness

-----------------------------------------------------------------------------
(* What is waited for and what it waits for, all parts in one leads-to, of *)
(* which a behaviour sees its own.  Handlers are alike, and so are price   *)
(* engines: one stands for both.                                           *)
Sent == \/ part = "meters" /\ call[c1] = "received"
        \/ part = "publisher" /\ outbox[2] = "PENDING"
        \/ part = "queue" /\ published[1] > 0
Arrived == \/ part = "meters" /\ call[c1] \in {"answered", "idle"}
           \/ part = "publisher" /\ outbox[2] = "PUBLISHED"
           \/ part = "queue" /\ (1 \in stored \/ Queue!IsParked(1))

Changing == \/ part = "process" /\ inProgress
            \/ OutboxPart /\ mode[p1] = "stopping"
            \/ part = "queue" /\ consumer["consumer"] = "stopping"
            \/ part = "engine" /\ instance["first"] # "ready"
Changed == \/ part = "process" /\ ~ Process!Alive
           \/ OutboxPart /\ mode[p1] = "down"
           \/ part = "queue" /\ consumer["consumer"] = "down"
           \/ part = "engine" /\ instance["first"] = "ready"

Behind == \/ part = "session" /\ app = "open" /\ Session!Busy
          \/ part = "browser" /\ table.items = <<>>
Caught == \/ part = "session" /\ (app # "open" \/ ~ Session!Busy)
          \/ part = "browser" /\ c1 \in {table.items[i] : i \in DOMAIN table.items}

(* Every request to the ledger is answered unless its handler fails: the   *)
(* rows two trades in opposite directions lock are let go.  (recordTrade)  *)
EveryRequestEnds == pc[c1] = "received" ~> pc[c1] \in {"answered", "idle"}

(* A reading that is posted is answered, its event reaches a queue, also   *)
(* from behind another in the outbox, and ends stored or parked: nothing   *)
(* on the way waits for ever, whatever fails a bounded number of times.    *)
(* (createReading, OutboxPublisher, EnergyEventsConsumer)                  *)
EveryReadingArrives == Sent ~> Arrived

(* A process that is told to stop is gone in the end, with work that hangs *)
(* and a broker that is away; price engines that start together all serve. *)
(* (installGracefulShutdown, beforeApplicationShutdown, seedDefaultRule)   *)
ServicesStartAndStop == Changing ~> Changed

(* The dashboard does not wait for ever, a fault that stays is listed, and *)
(* paging on reaches the last household.  (useAutoRefresh, findIssues)     *)
DashboardCatchesUp ==
    /\ Behind ~> Caught
    /\ part = "grid" => Grid!LastingFaultsAreListed
=============================================================================
