# Solar Grid: formal models

TLA+ modules for Solar Grid: meter readings and their events, the delivery of events, the market, the ledger,
prices, the life of a service process, and what the dashboard makes of it all. TLC checks small instances;
TLAPS proves the properties that matter most for every size.

- [The system](#the-system) - the inventory: parts, state, operations, hard behaviours
- [Modules](#modules) - what models what, state and actions against the code
- [Runs](#runs), [Bounds](#bounds), [Fairness](#fairness)
- [What the runs found](#what-the-runs-found), [Where code and documents part](#where-code-and-documents-part)
- [Proofs](#proofs)
- [Not modelled](#not-modelled)
- [Plan](#plan)

Running them:

    tlc -config MCRacingRuns_race.cfg MCRacingRuns.tla
    tlapm TradeMatchingProofs.tla

## The system

Four NestJS services, each with a PostgreSQL database of its own, one RabbitMQ broker and a React dashboard.
A meter reading becomes a surplus or demand event, the event becomes a sell offer or a buy request, a matching
run turns offers and requests into trades, and billing records each trade in a ledger.

    meter -> smart-meter-service --outbox--> RabbitMQ --> trade-matching-service --HTTP--> billing-ledger-service
                                                          trade-matching-service --HTTP--> pricing-engine-service
    dashboard --HTTP--> all four

| Component | State | Operations | What is hard | What makes it correct | Module |
|---|---|---|---|---|---|
| **Matching planner** `matching.planner.ts` | copies of the open orders' amounts | `planTrades` | loop indices and breaks, partial fills, self-matches | first come, first served; everything that can trade is planned | `MatchingPlanner` |
| **Matching runs** `matching.service.ts` | `sell_offers`, `buy_requests`, `trade_matches` | settle pending trades, plan, reserve, bill, confirm or release | runs of many triggers and instances against one database; calls between transactions; lost and late answers; crashes | no energy lost, held twice or billed twice; definite answers are final; pending trades get settled | `TradeMatching` |
| **Energy event consumer** `energy-events.consumer.ts` | queue, retry queues, dead letter queue | insert order, run matching, retry, park, drain at shutdown | redelivery, copies, retry budget, broker reconnects | every event is stored or parked, with a true reason; what was stored is matched | `EnergyEvents` |
| **Market queries and statistics** `market-queries.service.ts`, `stats.service.ts` | - | summary, trend, households, lists | several statements that are no snapshot | figures beside each other fit together; pages skip nothing | `MarketStatistics` |
| **Billing trades** `trades.service.ts` | `completed_trades`, `idempotency_keys`, `ledger_entries`, `household_balances` | `createTrade` | two requests with one key, one trade id with two keys, row locks | a trade is recorded once, replayed otherwise; the books balance | `BillingLedger`, `ExactlyOnceLedger` |
| **Ledger and balance queries** | - | summary, trend, entries | trades recorded between statements; two dates | the books never look unbalanced | `BooksStatistics` |
| **Readings** `readings.service.ts` | `meter_readings`, `household_energy_status`, `outbox_events` | `createReading` | concurrent duplicates, readings out of order | one reading per household and time, one event per reading, status never rewinds | `MeterReadings` |
| **Households, energy statistics** | - | lists, summary, trend | lists ordered by what the next reading changes | aggregates agree; the quiet are listed | `EnergyStatistics` |
| **Outbox publisher** `outbox-publisher.service.ts` | outbox rows, returned ids, the pass in progress | `drain`, shutdown | deadline against late confirm, returned messages, crash between publish and mark | no event is lost; a published row has reached a queue | `OutboxPublisher` |
| **Pricing engine and its statistics** `prices.service.ts` | rules, snapshots | seed, recalculate, current price, history, summary | concurrent start-up, snapshots of one millisecond | price is the clamped ratio, a rule when serving, readings never go back | `Pricing` |
| **Graceful shutdown, readiness** `graceful-shutdown.ts`, `health.module.ts` | signal, deadline, flag, known faults | close, probe | second signal, hanging work, probes in flight | stops once, in order; probes tell the truth | `ServiceLifecycle` |
| **Start of a service** `runtime-safety.ts`, `credentials.ts` | - | checks before listening | combinations of roles and tokens | listens only with tokens that tell roles apart and a runtime role | `ServiceStartup`, `Credentials` |
| **Authentication, rate limit, errors, request metrics** | throttler, counters | middleware, guards, filter | failures after a commit, hang-ups, restarts | 4xx means nothing was done; every answer is counted | `RequestPipeline` |
| **Operations counters** | counters of three services | counted where things happen | retries, lost answers, restarts | the system page's figures add up | `OperationsCounters` |
| **Amounts** `decimal.util.ts`, `decimal-amount.ts`, `request-fingerprint.ts` | - | round, bound, fingerprint | the same figure computed in two services | no trade of measured energy is refused | `TradeAmounts`, `Decimals` |
| **Analytics ranges** `stats-range.ts`, `time-range.ts` | - | windows and buckets | week starts, limits, defaults | a bucket for every moment; no offered period refused | `StatsRange` |
| **Frontend hooks and session** `use-resource.ts`, `auth-context.tsx` | settled resources, token | load, cancel, refresh, sign in and out | answers of cancelled requests, of earlier sessions | what is shown belongs to the current key | `DashboardSession` |
| **What needs attention** `attention.ts`, `system-status.ts` | answers received | banner, issues, badges | some requests fail while others answer | every fault named once | `Attention` |
| **Household lists and panel** | tab, page, filter, panel | search, page, open, close | answers to earlier questions | rows answer the question asked | `HouseholdBrowser` |
| Other components, logging, Swagger, infrastructure | - | layout, wording, set-up | - | - | [not modelled](#not-modelled) |

The consumer (one message at a time by default, but any number of instances) inserts an order and
calls `runMatching`; an operator calls the same through `POST /matching/run`. Every run works on the shared
tables through transactions of its own. The only serialised one is the reservation, which takes a PostgreSQL
advisory lock; reading for a plan, confirming and releasing take no lock. Between a run's transactions are HTTP
calls to pricing and billing, each with a deadline. Readings and trades reach the dashboard through read-only
routes whose answers are put together from several statements.

`PROJECT.json` lists under `hazards` each place where one of these behaviours bites, with the properties that
would catch it.

## Modules

| Module | Models | Notes |
|---|---|---|
| `FifoMatching`, `FifoPlanning` | what first come, first served means; the abstract planner | a plan is the sequence of next trades until none is possible |
| `MatchingPlanner` | `planTrades` | one action per turn of the inner loop; refines `FifoPlanning` |
| `TradeMatching` | `matching.service.ts`, billing as its client sees it | one action per database transaction or end of an HTTP call |
| `MarketStatistics` | `stats.service.ts`, `market-queries.service.ts` of trade matching | one action per SQL statement, over `TradeMatching` |
| `LedgerRequests`, `ExactlyOnceLedger` | what billing is asked and answers; the abstract ledger | every request answered in one step, or abandoned without effect |
| `BillingLedger` | `createTrade` | one action per look-up, claimed row, commit; refines `ExactlyOnceLedger` |
| `BooksStatistics` | billing's statistics, ledger lists, the dashboard's verdict on the books | over `BillingLedger` |
| `MeterReadings` | `createReading` | one action per look-up, claimed row, commit |
| `EnergyStatistics` | the smart meter's statistics and household lists | over `MeterReadings` |
| `OutboxPublisher` | `drain`, `publishOne`, the AMQP library's buffer, stop | any number of instances |
| `EnergyEvents` | deliveries, retry queues, dead letters, shutdown of the consumer | any number of instances |
| `DeliveryHistory` | what has already been done with an event | history variables over `EnergyEvents`, for two of its properties |
| `Pricing` | `prices.service.ts`, pricing's summary | one action per statement |
| `ServiceLifecycle` | signal handler, Nest's close, probes | one process |
| `Credentials`, `ServiceStartup` | roles and tokens; what is checked before a service listens | |
| `RequestPipeline` | middleware, throttler, guard, handler, filter, metrics | uses `Credentials` |
| `OperationsCounters` | where the services count, what `SystemViews` derives | |
| `Decimals`, `TradeAmounts` | decimal amounts; an amount's way from meter to ledger | |
| `StatsRange`, `QueryWindows` | windows, buckets, periods; rows of a window and pages | |
| `DashboardSession`, `Attention`, `HouseholdBrowser` | the dashboard's hooks, its issues, its households page | |
| `Totals` | sums | a recursive function, so that it can be proved about |
| `MC...` | instances for TLC | see [Runs](#runs) |
| `...Proofs` | theorems | see [Proofs](#proofs) |

Definitions whose name says what goes wrong (`PushToOwn`, `TakenByKeyOnly`, ...) stand before the definition they
would replace: they are the deliberate bugs with which each property was tried, listed under `mutants` in
`PROJECT.json`.

### MatchingPlanner

`offer` and `request` are the positions of the two `for` loops, `offerLeft` and `requestLeft` the two copies
with `remaining`, `planned` the `trades` array. `NextOffer` is the `break` of line 64 and the end of the inner
loop, `SkipFilledRequest` and `SkipOwnRequest` the two `continue`s, `PushTrade` the rest of the body.
The refinement maps `offerLeft`, `requestLeft` and `planned` to the abstract planner's variables of the same
names: a push is the next first-come-first-served trade, everything else a stutter.

### TradeMatching

| Variables | Code |
|---|---|
| `available`, `offerStatus`, `requested`, `requestStatus` | `sell_offers`, `buy_requests` (`ABSENT` before the row is inserted) |
| `trades` | `trade_matches`; ids in `createdAt` order |
| `pc`, `batch`, `current`, `offerLeft`, `requestLeft`, `answer` | the local state of one `runMatching` call: `pending`, the trade being billed, what is left of its plan, the answer received |
| `late`, `recorded`, `credentialsValid` | billing: requests whose caller is gone, trades in the ledger, whether this service's token is accepted |

A run goes `idle -> settle/await ... -> plan -> offersRead or requestsRead -> price -> reserve/bill/await ... ->
idle`. Each arrow is one transaction or one end of a call, so anything can happen in between:

- `BeginRun` reads the batch of oldest pending trades; `BillPending` sends one; the answer is handled as below.
- `ReadOneSide` and `PlanTrades` are the two `findMany` queries of one `Promise.all`, in either order. They are
  no snapshot: another transaction may commit between them. A run's plan is kept as what is left of the amounts
  it read: `IsNextTrade` then names the next planned trade, which is exactly what `planTrades` produces
  (`MatchingPlanner`, proved), so the plan need not be stored as a list.
- `Reserve` is the reservation transaction: the amount checks of both updates (`StillThere`), both decrements,
  both status columns, the new trade. `SkipReservation` is its `count === 0` on either side, which rolls back.
- `BillReserved`/`BillPending` send the request, `BillingAnswers` is billing's transaction and answer,
  `Complete`, `Release` and `OutcomeUnknown` are the three outcomes of `billAndSettle`. None of them looks at
  the trade's present status, as the code does not.
- `OutcomeUnknown` may happen before billing handles the request (which then stays in `late` and may be handled
  at any time), or after, when the answer was lost or could not be stored.
- `ReleaseViolatesCheck` is the row constraint `availableKwh <= originalKwh` rolling the release back.
- `Crash` ends a run at any point, also between its transactions.
- `acceptable` in a trade is billing's verdict on its payload. It is chosen when the trade is made and never
  changes, because the payload never does. `ChangeCredentials` makes billing refuse (401) for a reason that is
  not about the trade.

Left out: prices and totals (`TradeAmounts` has them; no branch of a run depends on them), `billingAttempts`,
`failureReason`, the counts of the result. Decimal amounts are natural numbers: the code adds, subtracts and
compares them exactly. `CANCELLED` orders: the enum has the value and no code writes it. Two orders with the same
`createdAt`: the code leaves their order to the database, the models number orders. Reservation and release both
lock the offer row before the request row, so they cannot deadlock, and their updates are conditional or
relative, so each is one action.

### MarketStatistics

Extends `TradeMatching` by readers. `hour` and `createdAt` date the rows. A `summary` goes through the statements
of `StatsService.summary` (trades, then the two books, then parties), each taking what has committed by then;
`ranking` is the two statements of the households' trading; `listing` reads a list page by page, rows and count in
two statements. `NewestFirst` is the order of every list, `PageOf` its offset and limit. Sums of money take the
same rows as the sums of energy and are left out, as are the lists of offers and requests, which read as the list
of trades does.

### BillingLedger and ExactlyOnceLedger

| Variables | Code |
|---|---|
| `completed`, `keyRow` | `completed_trades`, `idempotency_keys` with its `requestHash` (`None` in rows from before the column) |
| `credit`, `debit`, `balance` | `ledger_entries` by household and trade, `household_balances` |
| `pc`, `request`, `claimed`, `reply` | one `createTrade` call: where it is, its body, how many rows its open transaction has claimed, its answer |

A handler goes `idle -> received -> recording -> answered -> idle`, or `recording -> raced -> answered` when it
meets a unique violation. `FindReplay` is the look-up before the transaction and again after a lost race.
`Rows` lists what the transaction claims in the order of its statements: the two unique values of
`completed_trades`, the key, the two balances sorted by household. `Claim` takes the next one, `WaitsFor` says
whose open transaction is in the way, `LoseRace` is error `P2002`, `Commit` makes all the writes visible at once.
`Fail` is a crash, a time-out, or the database ending the transaction; all of them roll it back. A commit whose
answer is lost is `Commit` followed by `Deliver`: the ledger cannot tell.

What is PostgreSQL's and not the repository's is modelled from its documented behaviour: an insert waits for an
open transaction that has inserted the same unique value; a changed row is locked until the transaction ends; the
increment of an upsert is one statement on the newest committed row. Household ids are numbered in `localeCompare`
order, which is assumed to be the same total order in every instance. `Earlier` are the trades recorded before
`requestHash` existed.

`ExactlyOnceLedger` has only the requests, their answers, the payload recorded under each key and the balances.
Its `Record` looks at everything recorded, records and moves the money in one step. The refinement keeps
`request`, `reply` and `balance` and maps `recorded` to the payload of the trade each key row points at; a request
takes effect at its commit or at the look-up that answers it. Left out: the currency (validation admits only TRY)
and the completion time of a payload, whose only effect is to make two payloads different, which two prices do.

`BooksStatistics` adds its readers: a trade has a `CompletedAt` hour, its entries are dated by the statement that
inserts them (`inserted`, before the commit). `summary` goes statement by statement, `entries` reads
`GET /ledger/:householdId` page by page, `BooksStatus` is what the dashboard says of the result.

### MeterReadings and EnergyStatistics

`readings`, `status` and `outbox` are the three tables. A call goes `received -> inserting -> stored -> updated ->
answered`: `RefuseFuture` is the clock check against `MaxSkew`, `FindExisting` the look-up before the transaction,
`InsertReading` claims the reading's unique key, `UpsertStatus` the status row (`HoldsStatus` makes others wait), and
`Commit` makes the three writes visible at once; `StatusAfter` is the conditional update that keeps a later status.
`LoseRace` is `P2002`, answered with the winner's row (`AnswerWinner`); `AnswerDuplicate` is the stored row with the
*repeated request's* surplus and demand, as in the code. `Fail` rolls an open transaction back or loses the answer. `EnergyStatistics` reads the tables: `Aggregates` is the SQL of `ENERGY_AGGREGATES`, and two lists whose
order the next reading may change are read page by page.

### OutboxPublisher

A pass (`pass[i]`) goes over `rows`, a batch of the oldest pending ones, the one in hand being `buffered` with the
AMQP library, `sent` to the broker (which has confirmed it or returned it), or `marking`. `Deadline` gives up on the one in hand, which stays with the
library (`orphans`), is sent when the broker is back (`SendOrphan`), and may then be returned for an id the next
pass publishes again. `returned` is the set of the same name. `Confirm` looks at it and either marks the row or
counts the publish as failed; `MarkFails` is the update failing. `BeginStop`, `CloseAfterPass` are
`beforeApplicationShutdown`, `Crash` loses the library's buffer. `bound` and `online` are the broker's queue
binding and its reachability; a topic message without a queue is returned. Simplified: several orphaned publishes
of one row count as one; a return is seen together with the broker's handling of the message; a deadline that
passes while the broker could be reached counts among the bounded faults.

### EnergyEvents

Queues are bags of messages (event, retry header); order is not promised by a broker with several consumers.
`handler[h]` is one delivery: the instance it runs in, whether its channel is still open, and how far
`handleEnergyEvent` is. `Reject` is validation, `StoreOrder` the insert (`stored` may have the row already),
`RunsMatching` the condition *created or retried*, `ReadOrders`/`MatchingDone`/`MatchingFails` the run, of which
only the rows it read matter here (`TradeMatching` has the rest), `ScheduleRetry` publishes the copy with the next
retry header, `Park` the one for the dead letter queue, `Acknowledge` the original. `Drop` closes an instance's
channels: the broker queues its messages again while the handlers go on to their end and find the channel closed.
`Crash` ends them. `BeginShutdown` and `CloseAfterDrain` are the drain, with the prefetched messages going back.

`DeliveryHistory` adds two variables that watch. `due` counts how often an event is still to be dealt with: up by one
with each publication and with each delivery under way that a dead process or a dropped connection gave back
(`Strikes`), down by one when a handler comes to its end with it (`Ends`: stored and, where needed, matched, or
parked). `WorkIsNotRepeated` compares it with the deliveries under way (`AtWork`), whatever the order in which
publishes, copies, expiries, faults and stops come: whoever is at work on an event that has been dealt with as often
as it is due repeats work without cause, as after a stop that closed the channel too early, or a retry published
twice. `abandoned` are the events a handler was lost with (`CutShort`): its process died, or it failed, could not
publish the copy and had no channel to nack on. `UnmatchedIsRemembered` excuses those events alone, so any fault
may happen to all others.

### Pricing

A process is `off`, `seeding` (it has counted the active rules and found none) or `ready`. `CalculatePrice` is the clamped
ratio, rounded once, in integers. A recalculation takes its price and inserts its snapshot in two steps;
`CurrentPrice`, the pages of the history and the summary read as their statements do. `now` is the millisecond
clock and may stand still: snapshots of one millisecond are what the two orders (`createdAt`; `createdAt, id`)
disagree about.

### ServiceLifecycle, Credentials, ServiceStartup

`stage` follows Nest's close: `onModuleDestroy`, `beforeApplicationShutdown` (drained when no message is left),
the HTTP server, `onApplicationShutdown`. `working` are requests and messages in progress, which may hang.
`FirstSignal` starts the close and arms the deadline; `SecondSignal`, `DeadlinePasses` and `ExitAfterClose` race for
the exit code. A probe reads the flag first, then waits
for its checks one by one, and is answered; `down` and `told` are the memory of the log.

`Identify` is `identify`: the first role in order whose token matches. `ServiceStartup` starts a service from any
environment, tokens, URLs and database role, and follows `bootstrap` to `listening`, or to an exit.

### RequestPipeline

A request passes the observer, the throttler, the guard, validation, its handler and the exception filter; its
client may hang up and the process restart at any point, which takes the counters with it. `MapPrismaError` and
the filter give every failure its status. One client address stands for all callers, which is the case in which
the exemption of the internal service matters.

### OperationsCounters, Decimals, TradeAmounts

`OperationsCounters` has an event's way as abstract as counting allows, every counter at the line where the
service raises it, and histories of what really happened; the figures of the system page are compared with
these. `TradeAmounts` follows figures in scaled digits: what a meter measured, the event's decimal text, the
consumer's bounds, the column, the reserved trade's total, the body sent to billing, billing's own total, and the
fingerprint. `Decimals` has powers of ten, rounding half up, division, bounds and the documented patterns.

### StatsRange and the dashboard

`StatsRange` does the arithmetic of `resolveStatsRange`, `resolveTrendWindow`, `truncateToBucket` and `bucketStarts` in
ticks since 1 January 1970, next to a copy of what PostgreSQL's `date_trunc` does, and of the periods of
`time-range.ts`.

`DashboardSession`: `want` is the control center's state, `running` the one the last commit rendered, `settled`
each hook's state, `requests` every load under way, the cancelled ones included. A `Commit` runs the effects that
cancel and start requests; `Answer` lets any part of any request arrive. `token`, `login`, `valid` are the session
and what the services accept.

`Attention`: `report` and `facts` are the grid, `health`, `section` and `counters` what was last heard of it.
`Issues`, `SystemStatus` and the badges are functions of the latter, as in `attention.ts` and `system-status.ts`. The
issues are a set, of which `FirstListed` says what the sort by severity puts first: no property depends on the order
of equally serious ones.

`HouseholdBrowser`: `view`, `page`, `filter` are what is asked, `asked` the query of the running request, `table`
the answer on screen; `selected`, `opener`, `panel` and `focus` belong to the panel.

## Runs

Twelve runs; the two that end in a violation are the [findings](#what-the-runs-found).

| Run | Question | Result |
|---|---|---|
| `planner_fifo` | does `planTrades` implement first come, first served on every choice of amounts, and stop only when nothing can trade? | holds |
| `single_run` | one run at a time, with refusals, changed credentials, crashes, lost and late answers: is energy ever held twice? Do the summary, the rankings and the pages read meanwhile fit together? | holds |
| `racing_runs` | two runs over the same rows with all of that: is energy lost, is a definite answer final, is a released trade ever billed - and, while billing accepts, is anything held or billed twice? | holds |
| `settlement_progress` | is every pending trade settled, and everything that can trade traded in the end? | holds under fairness |
| `ledger` | requests in a circle and retries of every kind, with failures: is every answer the one the abstract ledger would give, can transactions wait for each other in a circle, do books and statistics balance while they are written? | holds |
| `event_delivery` | duplicates, malformed and foreign events, retries, crashes, dropped connections, stops: is an event dropped, parked without a reason, worked on again without a cause, or stored and then forgotten by the market, though no handler of it was lost? | holds |
| `readings` | three posts at once, repeated, conflicting, out of order, failing: do status, events, answers, figures and lists follow the stored readings? And is what was measured ever refused on its way to the ledger for its figures (`AmountsAgree`; scenarios `measured` and `repeated`, in which `TradeAmounts` does all)? | holds |
| `services` | the parts of the services that have no behaviour in common, below | holds |
| `dashboard` | the parts of the dashboard that have none in common, below | holds |
| `progress` | part by part: what must happen in the end | holds under fairness |
| `double_release` | is energy never billed twice with two runs and refusals? | violated: finding 1 |
| `refused_after_recorded` | is a released trade never billed when the token changes? | violated: finding 2 |

A run may ask one question of several *scenarios*. A variable of the MC module, chosen by `MCInit` and never
changed, says to which scenario a behaviour belongs, and `MCNext` restricts the specification's `Next` to it:
`part`, `scenario`, `read` or `billing`. Nothing but the choice of inputs and bounds depends on it. `MCServices`,
`MCDashboard`, `MCProgress` and two of the scenarios of `MCMeterReadings` go further and put modules side by side that share no variable: in a behaviour of
one part the variables of the others keep their initial values, so an invariant written `part = "x" => I` is `I` of
that module by itself, and a leads-to whose two sides name a part in each disjunct is the conjunction of the parts'
leads-tos. This is the sum, not the product, of their state spaces.

**`services`** (1 million states):

| Parts | Property | Shows |
|---|---|---|
| outbox pair, outbox alone | `PublishedWasRouted`, `DuplicatesHaveACause` | a row marked published has reached a queue; a second copy of an event has a cause: a publisher lost what the broker said of it, or two had taken it up at once |
| lifecycle | `StopsInOrder` | the database goes last, a probe begun after the signal says so, only critical checks make a service unready, the log tells only changes while probes do not overlap |
| startup | `ListensWhenSafe` | a service that listens can tell its roles apart and, in production, runs as the restricted role |
| pipeline | `AnswersAreTrue` | a 4xx means nothing was done; a settlement is never throttled; answers and outages are all counted |
| event counts, trade counts | `FiguresAddUp` | the stages of the system page add up, through retries, lost answers and restarts of the counters |
| seeding, prices, price readers | `PricesHold` | two processes that start together, and die and start again, never leave more rules, with those about to be created, than processes; the price is the clamped ratio and monotone, never without a rule, never goes back; pages and summary fit |

**`dashboard`** (480 000 states):

| Parts | Property | Shows |
|---|---|---|
| answers, sessions | `ScreenIsCurrent` | the newest answer is shown, resources side by side are of one moment when nothing is on its way, only a refusal of this session's own token ends it |
| two services, three services | `FaultsAreNamed` | every fault is listed once, badges and banner agree with the list |
| households | `TablesAnswerTheQuestion` | rows answer the tab, page and filter chosen; the panel is of the household in its title |
| buckets, periods | `WindowsFit` | every moment of a window is in a bucket and it is the database's; a refused window has a cause; no period offered is refused |

**`progress`** (80 000 states) has the leads-to properties of `BillingLedger`, `MeterReadings`, `OutboxPublisher`
(two rows behind each other, a broker that comes back; and a stop while it may not), `EnergyEvents`,
`ServiceLifecycle`, `Pricing`, `DashboardSession`, `Attention` and `HouseholdBrowser`. It joins those of one kind:
`EveryReadingArrives` is a reading answered, its row published, its event stored or parked.

### Bounds

| Where | Value | Why it is enough |
|---|---|---|
| offers, requests | 2 x 2 with amounts 2, 1 and 1, 2; while billing refuses or somebody reads, 1 x 2 | partial fills on both sides, one order serving two, two serving one, a household on both sides |
| `MaxTrades` | 2 or 3 | every amount can be reserved, released and reserved again |
| `Runs` | 1 or 2 | every race in the code is between two runs; they are symmetric, so `SYMMETRY` is used where no liveness is checked |
| `SettlementBatchSize` | 1 or 2 (50 in the code) | 1 in the liveness run, so that a batch really leaves trades behind |
| planner amounts | 1..3, three orders on each side | exact fills, fills by two and three |
| billing: requests at once | 3 in the circle, 2 else | a circle of three households needs three transactions; a lost race needs two |
| billing: trades, keys, households | 4, 4, 3, one trade recorded before fingerprints | every pairing of a key with a trade; a trade is recorded once, so the ledger is finite without a bound on requests |
| `Hours` | 2 or 3 | a row before a window, in it and after it |
| `PageSize` | 1 (50 in the code) | every row is on a page boundary; a list of trades is begun when it has two and a third may come, so that it has pages to skip between |
| events | one published twice with a crash and a drop, or with a stop and one of the two; two malformed ones with a drop; two good ones with a crash or a drop, handled in one instance at a time, the second without failures | each fault meets each point of a handler, and a stop or a drop a second delivery of the same event; a fault of one event meets another; the malformed ones meet every branch of validation |
| `MaxRetries`, `Prefetch` | 1, 1 (3 and 1 by default in the code) | the budget used up, and not; one message at a time is the code's own default |
| readings | times 0..2, clock skew 1, one failure | on time, late, too early; every order of three |
| outbox | two rows, batches of 1 or 2, two faults, one outage, one stop | an orphan, its return and a later pass with the same row |
| process | one request, one message, one probe, two signals, three changes of a dependency | second signal, hanging work, a probe across the signal |
| pipeline | two requests of six kinds, limits of 1, one restart | over the limit and within it |
| prices | two processes for the seeding, with deaths between count and create, else one; eight markets in units; three recalculations; a clock of three milliseconds that may stand still | two processes that both find no rule, with one more start; no supply, ties, thirds, both ends of the band; snapshots of one millisecond |
| counters | two events or two trades, one retry, one fault or one restart | |
| amounts | energy to the hundredth, prices and money to one decimal, readings up to 3.00 | rounding up, down and to zero, the largest amount the column holds |
| calendar | two "hours" of two ticks per day with every start and bucket size, and the real calendar around its limits | the first is exhaustive, the second has the code's numbers |
| dashboard | two resources of two parts, two periods, three requests; two or three services; two tabs of two households | an answer to the request before last, and to the period left and chosen again |

A bound on `MaxTrades` disables `Reserve` for a run that has a next trade; the run can still crash, so the model does
not stop there, and the liveness run has as many trades as its amounts need. Deadlock is not checked where the system
may stop: the planner's loop ends, processes exit, bounded faults and clicks run out.

The proofs have none of these bounds: numbers of orders, runs, trades, handlers, instances, events, faults and all
amounts are parameters.

### Fairness

Safety runs assume none. The liveness runs assume:

| Module | Assumed | Why the code justifies it |
|---|---|---|
| `MatchingPlanner` | weak, of the loop | it is a synchronous function |
| `TradeMatching` | weak, of `BeginRun` | runs keep being started: by the consumer for every stored event, and by an operator. There is no timer: if nothing more is ever reported, a pending trade stays pending |
| | strong, of a run's steps and billing's answer | a downstream service may fail arbitrarily often, not every time. None for `OutcomeUnknown`, `Crash`, `PricingUnavailable`, `BillingHandlesLate` |
| `BillingLedger`, `MeterReadings` | strong, of a handler's work | PostgreSQL queues the waiters of a row. None of `Receive` and `Fail`: no failure, which would also end a deadlock, is relied upon |
| `EnergyEvents` | weak, of handlers, expiry, start, close | event loop and broker timers; a handler's calls have deadlines |
| | strong, of delivery to a consumer that is connected | the broker delivers in order to whoever has room |
| `OutboxPublisher` | weak, of a pass, the deadline, start, stop | the polling timer, `setTimeout` |
| | for publishing also: the broker comes back, and then strong fairness of `Send` and `Confirm` | the stop needs neither: the deadline is enough |
| `ServiceLifecycle` | weak, of the deadline and of the exit after close | timers; not of the work in progress, which may hang |
| `Pricing` | weak, of the two statements of the seed | start-up code, a bounded number of crashes |
| `DashboardSession` | weak, of React's commit and of an answer to each load | `fetch` has a time-out |
| `Attention` | weak, of health and section answers; sections do not fail for ever | the periodic refresh |
| `HouseholdBrowser` | weak, of refresh and close; strong, of pressing next and of the table's answer | the operator keeps pressing next |

## What the runs found

1. **Double release** (`double_release`). Two runs read the same `PENDING_BILLING` trade. Both ask billing,
   which refuses both times, and both run `releaseReservation`, which neither takes the lock nor checks that the
   trade is still pending. As long as other trades hold energy of the same rows the row constraint does not
   notice, the energy comes back twice, is reserved again and billed. `docs/reliability.md:53`: "The same energy
   is never sold twice". Without refusals (`AcceptedIsBilledOnce` in `racing_runs`), or with one run at a time
   (`single_run`), the property holds, and by proof.
2. **Refused after recorded** (`refused_after_recorded`). Billing records a trade, the answer is lost, the trade
   stays pending. The next run's retry is answered with a 401, because the internal token is being changed: every
   4xx counts as final (`billing.client.ts:70`), so the energy is released and the trade is `FAILED` although it
   has been charged. `docs/reliability.md:81` takes every 4xx as "refused, and will refuse again", and
   `schema.prisma:114` says a trade leaves `PENDING_BILLING` only on a definite answer. With valid credentials a
   refusal is about the payload, which never changes, and the property holds (`racing_runs`, and by proof).

## Where code and documents part

Smaller disagreements met while modelling. Each is stated in its module as the document, comment or test words it,
under the name given, so that a change of either side can be tried; none is among the runs, whose properties say
what the code does guarantee.

| Property | Code | The code, and what is said of it |
|---|---|---|
| `DeliveryHistory!UnmatchedIsRemembered` without `e \in abandoned` | `energy-events.consumer.ts:147` | A matching run is started only for a new row or a message with a retry count. When the process dies between the insert and the end of its run, the broker delivers the original again, without a retry count; the insert is a duplicate, so the message is acknowledged with no run and nothing is left that would start one for the stored order. The comment in apps/trade-matching-service/src/messaging/energy-events.consumer.ts:145 says "A first delivery of a genuine duplicate has nothing new to match and skips it", and apps/trade-matching-service/test/messaging.integration.spec.ts:306 says of the same situation "that is the step that failed, and a retry that skipped it would leave the offer unmatched". The order waits until another event, or an operator, starts a run. |
| `MeterReadings!AnswerIsStored` | `readings.service.ts:132` | A duplicate is answered with the stored reading's net amount and status but with the surplus and demand computed from the repeated request, so when its amounts differ the answer contradicts itself (a stored DEMAND with a surplusKwh). The comment in apps/smart-meter-service/src/readings/readings.service.ts:123 says "A client retry, answered from what was stored the first time" and docs/reliability.md:43 "Re-sending a reading returns the stored one with "duplicate": true". |
| `ServiceLifecycle!NeverReadyWhileStopping` | `health.module.ts:137` | Whether the service is shutting down is read when a probe arrives; the probe then waits up to two seconds for its checks and reports what they say. One that arrived before the signal is answered 200 ready after onModuleDestroy. packages/nest-common/src/health/readiness.ts:48 says "A service that is shutting down is never ready". |
| `ServiceLifecycle!OnlyChangesAreLogged` | `health.module.ts:140` | The set of dependencies seen down is replaced when a probe is answered, not when a check fails, so two probes in flight at once (the platform's and the dashboard's) both log the same change. The comment in packages/nest-common/src/health/health.module.ts:99 says "Dependencies seen down on the last probe, so only changes are logged". |
| `Pricing!SeedsOnlyWhenNoneActive` | `prices.service.ts:39` | seedDefaultRule counts the active rules and then creates one, in two statements and with no constraint behind them, so two processes that start at once insert two active rules. apps/pricing-engine-service/prisma/runtime-grants.sql:15 says "The default rule is inserted at startup when no rule is active". |
| `Pricing!CurrentHeadsHistory` | `prices.service.ts:77` | getCurrentPrice orders by createdAt alone and getPriceHistory by createdAt and id, so for two snapshots of one millisecond the current price need not be the first of the history. apps/pricing-engine-service/prisma/schema.prisma:37 says "Every price lookup reads the newest snapshot, and the history endpoint pages through the same ordering". |
| `Pricing!NoneMeansNone` | `stats.service.ts:56` | The aggregates and the newest snapshot of a summary are two statements of a READ COMMITTED transaction; a snapshot committed between them is reported as latest beside a count of zero. docs/analytics.md:212 says of latest that it "is null when the window has none". |
| `StatsRange!DefaultIsFull` | `stats-range.ts:174` | The default window starts default-1 buckets before the bucket its end falls in. When the end is the very start of a bucket that bucket is empty and not listed, so a default hour trend has 23 buckets. docs/analytics.md:102 says "With no window, a trend covers the last 24 hours, 30 days or 12 weeks", and docs/demo-script.md:78 "An hourly trend returns 24 buckets in order, quiet ones included". |
| `StatsRange!WindowIsAligned` | `stats-range.ts:186` | resolveTrendWindow aligns the start of the window only; its end stays where it was asked for, and the last bucket counts what happened before it. packages/nest-common/src/analytics/stats-range.ts:106 says the window a trend uses is "always bounded and bucket aligned", docs/analytics.md:100 "The window is aligned outward to whole buckets". |
| `MarketStatistics!NeitherRepeatedNorSkipped` | `market-queries.service.ts:31` | Pages are offsets into a list ordered newest first: a trade reserved between two requests pushes the last row of one page onto the next, and one that leaves the filtered status pulls a row back over the boundary. apps/trade-matching-service/src/matching/market-queries.service.ts:16 says every list is "ordered with the id as a tie breaker so a page never repeats or skips a row"; the tie breaker only makes the order total. |
| `MarketStatistics!MatchedHasTraded` | `stats.service.ts:268` | matchedKwh is the original amount less what remains, so it includes energy reserved on a trade whose billing answer has not arrived. apps/trade-matching-service/src/stats/dto/trade-stats.dto.ts:63 calls it "Energy of theirs that has been traded", docs/analytics.md:258 "how much of it has traded", and docs/analytics.md:261 says of reserved energy that it "is neither traded nor available". |
| `BooksStatistics!VolumeIsSettled` | `stats.service.ts:255` | Trades are selected by completedAt, the time of the reservation, and ledger entries by createdAt, the time they were written, so a trade whose settlement was delayed is volume of one window and credit of another. docs/analytics.md:337 says "`trades.volume` is both the total billed and the total settled", apps/billing-ledger-service/src/stats/dto/billing-stats.dto.ts:28 "Total billed, which is also total settled". |
| `DashboardSession!TimerWaits` | `use-resource.ts:69` | inFlight compares the key of the last answer with the key of the rendered state. A period chosen, left and chosen again before the second answer has the key that was settled first, so a request is outstanding while inFlight and busy are false, and a timer's tick refreshes and cancels it. The comment at frontend/src/hooks/use-auto-refresh.ts:4 promises a tick "but not while the previous refresh is still running"; the test at frontend/test/control-center.test.tsx:436 is named "refreshes on a timer, and never starts a refresh while one is running". |
| `Attention!QuietMeansChecked` | `OverviewPage.tsx:25` | The panel counts as checking only until the health checks answer. The statistics and the counters may still be loading then, and it shows "No issues detected" with "nothing the dashboard checks - the books, trade outcomes, waiting or failed events - needs attention" (frontend/src/components/status/SystemStatus.tsx:169) although none of them was looked at. The comment at frontend/src/utils/attention.ts:104 says: "Without a service's counters the event checks below cannot be made for it, so "no issues" would be a guess; say what is missing instead." |
| `HouseholdBrowser!SearchFinds` | `HouseholdTables.tsx:366` | Next and Previous count from the page of the answer on the screen, which during a search is still that of the last query: pressed then, they ask for a page of the search that does not exist, and the answer shows no row for a household the service has found ("11-1 of 1 households"). The component says of the search at frontend/src/components/households/HouseholdTables.tsx:375 "Narrow the list to one household" and the page at frontend/src/pages/HouseholdsPage.tsx:68 "Search by household ID. Select Details for everything the services know about one household." |
| `HouseholdBrowser!FocusReturns` | `layout.tsx:250` | Closing the panel focuses the element that had focus when it opened, also when a refresh has removed it from the page in the meantime (the row is on another page now, or the table failed): focus is lost to the document. docs/dashboard.md:307 says the household panel "keeps focus inside itself, closes on Escape and gives focus back to what opened it". |
| `ServiceStartup!DevelopmentStarts` | `runtime-safety.ts:46` | connectionUrlProblems decodes the password of a connection URL outside the try that guards new URL, and decodeURIComponent throws on a percent sign that is not an escape (50%off), so configureHttpApp throws and bootstrap exits with status 1 in every environment; packages/nest-common/src/config/runtime-safety.ts:58 says "In production, problems stop the service. Anywhere else they are logged and the service starts, so a laptop does not need production secrets." |
| `RequestPipeline!AnsweredMeansAnswered` | `request-observation.ts:52` | The observer of a request whose client hung up reports res.statusCode, which is 200 until the handler has answered, and MetricsRegistry.observeRequest leaves its aborted flag out of the labels, so httpSummary adds it to succeeded; frontend/src/components/system/SystemViews.tsx:380 says "Answered (2xx/3xx)" |
| `OperationsCounters!DuplicatesArrivedTwice` | `energy-events.consumer.ts:151` | handleEnergyEvent counts what the insert of this attempt did: an event whose first attempt stored the offer and then failed is counted retry_scheduled and then, when its retry succeeds, duplicate - never processed - though it was delivered once; frontend/src/components/system/SystemViews.tsx:242 says of that figure "The same event arrived twice. It is recognised and used once." |
| `OperationsCounters!ReservedAreTrades` | `matching.service.ts:259` | tradeReserved() is called inside the transaction, before its commit: a reservation whose commit fails stays counted although no trade exists; apps/trade-matching-service/src/metrics/trading.metrics.ts:44 says "Trades whose energy was reserved on both sides." |
| `TradeAmounts!AcceptedMatchesSchema` | `decimal-amount.ts:34` | decimalAmountProblem lets a sign pass and a bound of 0 does not exclude -0, so a totalAmount of "-0.00" is accepted, while the documented pattern has no sign; packages/nest-common/src/validation/decimal-amount.ts:71 says "so the schema a client reads can never disagree with what the server enforces". |
| `TradeAmounts!OverflowIsCaught` | `energy-events.consumer.ts:453` | isPositiveEnergy lets 1000000000 kWh pass, and a Decimal(12, 3) column holds 999999999.999 at most, so the insert fails in the database and is retried like an outage; apps/trade-matching-service/src/messaging/energy-events.consumer.ts:326 says "Anything the handler would otherwise turn into a database error is caught here, where it can be told apart from a transient failure." |

The first is checked and proved with its exception (`event_delivery`, `UnmatchedIsNotForgotten`): an order is forgotten
only with a lost handler of its own event, whatever else dies, drops or stops. In place of `SeedsOnlyWhenNoneActive`,
`OneRulePerProcess` holds: processes that start together leave no more rules than there are processes, however often
they die in between, and they are all the default rule, so prices do not depend on which is found. Of probes that
begin after the signal, `NeverReadyWhileStopping` does hold (`StopsInOrder`). What does hold of a repeated reading's
answer is `RepeatsAnswerAlike`: it describes a stored reading, and agrees with the first answer when the reading is
repeated as it was. `OnlyChangesAreLogged` is checked, and proved, with one probe at a time.

## Proofs

All theorems have every constant arbitrary, under the modules' named assumptions (counts are natural numbers, orders
start with a positive amount, requests and bodies are of their type, what was recorded earlier was possible and
under different keys, `None` is nothing else). They are about a module's `Spec`, `StatSpec` where readers were
added to it, or `HistSpec` where a history was. Of the modules that `MCServices` puts side by side they are about the `Spec` of that module alone (the
theorems named `Any...`), and then, as a corollary, about the composition the runs check; those about the amounts (in
`MCMeterReadings`) and about `MCDashboard` are about the composition at once, in which each part has constants of its own (`Figures`, `Small`,
`FewServices`, ...) that the .cfg fills in and the proofs leave open. Further assumptions are in a theorem's `ASSUME`
and in the last column. Nothing else is assumed.

| Theorem | Property | Under |
|---|---|---|
| `MatchingPlannerProofs!TypeCorrectness`, `NothingPassedCanTrade`, `PlannerIsFifo`, `PlansAreShort` | `TypeOK`, `PassedIsSpent`, `PlansFifo`, `PlanIsShort` | - |
| `TradeMatchingProofs!TypeCorrectness`, `StatusCorrectness`, `CompletionIsTrue` | `TypeOK`, `StatusAgrees`, `CompletedIsBilled` | - |
| `TradeMatchingProofs!NoEnergyDisappears` | `NothingLost` | - |
| `TradeMatchingProofs!EnergyHeldOnce` | `NothingHeldTwice` | one run, or no refusals |
| `TradeMatchingProofs!ReleasedNeverBilled`, `SettledStaysSettled` | `ReleasedIsNeverBilled`, `SettledIsFinal` | credentials do not change |
| `TradeMatchingProofs!EnergyBilledOnce` | `NothingBilledTwice` | credentials do not change, and one run or no refusable payloads |
| `TradeMatchingProofs!AcceptedIsHeldAndBilledOnce` | `AcceptedIsBilledOnce` | credentials do not change (the property is about behaviours in which billing accepts) |
| `TradeMatchingProofs!EveryTradeIsShown` | `PagesSkipNothing` | the unfiltered list |
| `TradeMatchingProofs!MarketAlwaysAddsUp` | `MarketAddsUp` | one run, or no refusals |
| `BillingLedgerProofs!TypeCorrectness`, `KeysArePaired`, `OneRecorder` | `TypeOK`, `KeysMatchTrades`, `RowsAreExclusive` | - |
| `BillingLedgerProofs!DeadlockFreedom` | `NoDeadlock` | - |
| `BillingLedgerProofs!EntriesBalance`, `BalancesAreLedger` | `EntriesAreTrades`, `BalanceIsLedger` | - |
| `BillingLedgerProofs!ExactlyOnce` | `ImplementsLedger` | - |
| `BillingLedgerProofs!BooksAlwaysAgree` | `BooksAgree` | - |
| `EnergyEventsProofs!EventsTypeCorrect`, `NoEventIsDropped`, `DeadLettersAreTrue` | `TypeOK`, `NothingDropped`, `ParkedForAReason` | - |
| `EnergyEventsProofs!WorkIsDoneOnce` | `WorkIsNotRepeated` | - |
| `EnergyEventsProofs!UnmatchedIsNotForgotten` | `UnmatchedIsRemembered` | - (the property itself excuses events a handler was lost with) |
| `MeterReadingsProofs!ReadingsTypeCorrect`, `NewestReadingIsStatus`, `ReadingsHaveTheirEvents`, `FirstCallIsOne` | `TypeOK`, `StatusIsNewest`, `EventsAreReadings`, `OneIsFirst` | - |
| `MeterReadingsProofs!RepeatsAreAnsweredAlike` | `RepeatsAnswerAlike` | - |
| `MeterReadingsProofs!AnyStatisticsAgree`, `StatisticsAlwaysAgree` | the three parts of `StatisticsAgree`; `StatisticsAgree` | - |
| `MeterReadingsProofs!AmountsAlwaysAgree` | `AmountsAgree` | the limits of the services fit each other (`FiguresFit`) |
| `ServicesProofs!OutboxTypeCorrect`, `MarkedWasRouted` | `TypeOK`, `PublishedWasRouted` | - |
| `ServicesProofs!SecondCopiesHaveACause` | `DuplicatesHaveACause` | - |
| `ServicesProofs!AnyServiceStopsInOrder`, `AnyStopIsInOrder` | `StopsInOrder` | - |
| `ServicesProofs!AnyServiceListensWhenSafe`, `EveryServiceListensWhenSafe` | `ListensWhenSafe` | - |
| `ServicesProofs!AnyRequestIsAnsweredTruly`, `AnswersAreAlwaysTrue` | `AnswersAreTrue` | - |
| `ServicesProofs!AnyPricesHold`, `PricesAlwaysHold` | `PricesHold` | - |
| `ServicesProofs!AnyFiguresAddUp`, `FiguresAlwaysAddUp` | `FiguresAddUp` | - |
| `DashboardProofs!TablesAlwaysAnswer` | `TablesAnswerTheQuestion` | - |
| `DashboardProofs!TabIsAlwaysCurrent`, `ScreenAlwaysCurrent` | the four parts of `ScreenIsCurrent`; `ScreenIsCurrent` | - |
| `DashboardProofs!FaultsAreAlwaysNamed` | `FaultsAreNamed` | two services or more, trade matching and billing among them |
| `DashboardProofs!WindowsAlwaysFit` | `WindowsFit` | the limits of dashboard and API fit each other (`LimitsFit`), for the periods |

The conditions on runs, refusals, credentials and processes are exactly those the findings and the table above violate.

**Planner.** `PassedIsSpent` follows from `OpenIsAhead`: what is left on both sides of a pair behind the loops'
position is zero or the pair is of one household. That makes the pair under the loops the first one that can
trade, so `PushTrade` is the abstract planner's step. `PlanIsShort` is by counting: each push adds an order to
`UsedUp` or `Filled`.

**Types and answers.** `TypeInv` strengthens `TypeOK` by `ReferencesExist` (a run's batch and current trade, and
billing's late and recorded trades, are trades that exist) and `AnswersAreTrue` (a run holding the answer
`recorded` is billing a recorded trade). `CompletedIsBilled` then is preserved by `Complete`.

**Energy.** `NothingLost` is about sums over all trades that have ever been made. `TotalsProofs` has the facts
about them: the recursive function exists (by the least number on which it could differ, since induction
theorems that take a predicate are out of the provers' reach), a total in which one summand changes changes by
that much, and totals are monotone. It has the same of sums over finite sets, which are what the community modules'
folds amount to (`MapThenSumIsSumOver`, `FoldFunctionIsSumOver`): the order of summation does not matter, rows and
columns of a table have one sum, and a set divided into shares is the sum of its shares. With them each action is an equation between the row and the total of its
live trades; `Complete` writing over a trade that is not pending only ever adds to the total, and a second
release adds to the row: neither loses anything, which is why `NothingLost` needs no condition while
`NothingHeldTwice` does.

**Settlement.** `EnergyHeldOnce` needs that whoever releases a trade finds it pending: trivially with no
refusals, and with one run because a run's current trade is pending until it answers. `ReleasedNeverBilled` and
`SettledStaysSettled` rest on `AnswersAreAboutPayload`: while the credentials hold, a trade is recorded only if
its payload is acceptable, and refused only if it is not. So two runs with stale pictures of one trade cannot
get contradictory answers, and a `FAILED` trade is one billing would refuse again. `EnergyBilledOnce` follows:
recorded trades are live, and live trades fit into what the rows had.

**Billing.** `LedgerInv` is the inductive invariant: types, the parts of a handler's state going together
(`Handling`), `KeysMatchTrades`, `RowsAreExclusive`, and `RacedMeansTaken` (a handler that met a unique violation
finds its key or its trade committed). `RowsAreExclusive` is what carries it: while a transaction has claimed its
trade and key, no other commits either, so at its own commit both are still new. Then the total of a balance's
entries changes by exactly one new entry. `DeadlockFreedom` gives every wanted row a rank (trade, key, key row,
balance by household number): whoever waits for a handler that waits itself wants a lower-ranked row, and in a
finite range of ranks a circle would need one above all others. `ExactlyOnce` maps each action: a lost race that
finds no key row must be about a trade recorded under another key, by `RacedMeansTaken`.

**Delivery.** `Inv` adds to the types what a handler knows at each of its points (`KnowingHandlers`: the row is
stored when its run begins, the budget is used up when it parks for that), that only storable events carry a retry
header, that dead letters state true reasons, and `AllTracked`: a published event is stored, parked, in a queue, or
with a handler *whose channel is open and who is not done*. The last clause is what makes it inductive: a handler
that is done has left the event somewhere else, so losing it loses nothing. `UnmatchedIsNotForgotten` and
`WorkIsDoneOnce` are about `HistSpec`, which implements `Spec`, so `Inv` holds there. The first adds that whoever stands
between the insert and the end of the run is still there, or the event is abandoned (`AllRemembered`), and that a run
under way has read the row of its own event (`Attached`). The second counts: the deliveries of an event under way and
the copies of it that wait, in the queue or for a retry, are never more than it is due (`DueInv`). A delivery turns a
waiting copy into one under way, a retry the reverse; a fault may add as many copies as it strikes deliveries, each
of which is due once more; and closing after the drain adds none, because nothing in progress is left.

**Readings.** `NewestStatus` speaks of the stored readings and the status row together and is disturbed by `Commit`
alone: the row is compared and written under its lock, so `StatusAfter` is taken of the newest committed row.
`Claims` (two calls never hold the same key, and whoever holds one finds nothing committed under it) makes the
reading a new one, so that the newest of the stored is the old newest or the new one. `EventPerReading` and
`OneIsFirst` follow from the key being held and still new. `RepeatsAreAnsweredAlike` needs `AnswerInv`: a call on its
way to a duplicate's answer has the stored row of its own key before it, and every answer given describes one.

**Lists.** A page is an offset into an order that the next row may change. `Place(Before, S, r)` counts the rows before
`r`; `InOrder` is what a list's `ORDER BY` returns, and the page with the numbers around a row's place has the row
(`OnItsPage`). The invariant of each list (`PagesInv`, `EntriesInv`, `HistoryFits`, `ListingInv`) is that whatever is
still owed to the reader stands on the present page or a later one, and what carries it is that places only grow
(`PlacesOnlyGrow`): no step takes a row away or moves another behind it. For the lists of households, whose order the
next reading changes, that holds of those who send nothing meanwhile, which is what the property says.

**Statistics.** A summary is inductive once each statement's result is compared with what is stored *now* instead of
with the statement's own moment: what was counted is at most what there is, since trades and entries stay (`SummaryInv`,
`Keeps`). Dates are within the hours that have passed (`DatesInv`), so each row of a window is in one bucket of its
trend. The books balance because every recorded trade has its two entries at one moment. In the market a completed
trade stays completed only while no late refusal releases it (`NoLateRefusal`), hence that theorem's condition.
`EnergyStatistics` needs the exchange of summations: the summary adds up the rows of a window, the households' rows
divide them by household, the trend by hour.

**Outbox.** `KnowsItsPass(i)` says of a pass that is `marking` that its row has been routed, and of one that has `sent`
it that it has been routed or is among the returned. `SecondCopiesHaveACause` adds `OnceUnlessExcused` (a row without an
excuse has been routed at most once, and once it has, it is marked or the pass that routed it is about to be told)
and `HoldsAlone` (a row without an excuse is in the hands of one pass), so that the next publish of a pending row is
its first.

**Stop and start.** `StopInv` ties the stage of the close to what may still be in progress (`WorkIsDone`) and a probe's
report to what it has found and to whether it began before the signal (`ReportFits`). The log was last told that a
dependency is down when the last probe, or the one on its way so far, found it down (`LogFollows`): with one probe at a
time. `StartInv` says that what was found in order is still so, since it is settings that were judged; that the roles
are told apart is then a fact about `Identify`: a token equal to no other is found under its own role
(`OwnTokenIsIdentified`).

**Requests.** `PipelineInv` says of each request what its answer may be at its stage, given what was committed and
whether the database was gone (`AnswerFits`), and of the counters that they are the number of requests of this process
reported with each status (`CountersFit`). A restart resets both sides together. `SettlementIsNeverThrottled` has its
condition in itself: the configured internal token is one by which the service is told apart.

**Counters.** `CountInv` accounts for every event and trade at each point of its way, with histories of what was lost,
repeated or rolled back (`MeterFits`, `MessagesFit`, `TradesFit`, `LedgerFits`); each step changes two sides of an
equation between cardinalities by one.

**Prices.** The arithmetic comes first: a price is one of three pieces, and each piece is close to the ratio
(`PricePieces`, `PriceIsClose`) and monotone in it, also from one piece to the next (`ScarcityCounts`). `PriceInv` then
says that all rules are the default one, that whoever has a price, and every snapshot, has the price of its market, and
that a snapshot's recalculation is done, which makes ids unique and the order of the history total. The rules, with the
processes that have counted none and not yet created one, are at most the processes (`RulesCounted`): counting begins
from no rules at all, creating turns one into the other, and dying only takes away.

**Amounts.** A figure is its digits and how many of them follow the point, so that every comparison is one of products
with powers of ten. `PowerOfTen` is a recursive function: it exists and is unique by the least number on which two
candidates could differ (`PowersExist`, `PowersAgree`), and sends sums to products (`TenOfSum`). Rounding half up is
what its remainder says (`RoundedIs`), leaves whole numbers alone, survives being expanded by a factor and is monotone
(`RoundedWhole`, `RoundedExpanded`, `RoundedMonotone`). Every trade is then `Deal(k, q)`: `k` units of energy, `q` of
price and their product rounded once, already at the scale of its column, so that sending it rounds nothing
(`DealIsCanonical`) and billing's own product is the same number (`DealIsPossible`). `AmountInv` says so of every trade
and that a ledger row is the trade as it was sent; `MeasuredInv` adds that what meters measured is no more than
`MaxReading`, and since rounding is monotone no total exceeds that of the largest reading at the same price
(`DealIsValid`). A repeat is told by its amounts because two spellings at or below the column's scale mean the same
amount exactly when their canonical forms are equal (`SameMeans`). The average price is close because the totals'
roundings add up to at most half a unit each (`SumsAreClose`) and the quotient rounds once more.

`FiguresFit` is a fact about the settings: a reading is at most 1 000 000 kWh, billing takes totals to
1 000 000 000 (`create-trade.dto.ts`), so they fit while no price is above 1000; the default rule ends at 7
(`prices.service.ts:21`).

**Households page.** `BrowserInv` says that the request on its way, if there is one, is always for the query that is
chosen; that when there is none the table was settled by that query; and that what the table shows is of the open tab
throughout, because a tab's table starts from nothing. The panel's parts are of the household in its title since
opening another one starts over, and closing it empties it (`DrawerInv`).

**Session.** `SessionOrder` is about all loads, the cancelled ones included: a hook has one load of each start, and the
one that has not been cancelled is newer than what is shown and than all its others, so nothing older can replace
anything. That load carries the token of the session, and without a session none is left: a refusal that ends the
session is therefore of its own token. When nothing is on its way every hook shows the key it is asked for, which is
the moment of the last refresh.

**Issues.** `FaultsAreNamed` holds of every combination of answers of their type (`TwoBegins`, `TwoKeepsTypes`): the
issues about a service are those of its readiness or the others, never both (`TwoIssuesOfService`). The badges count
every issue once because each has one page (`ItemsHavePages`), and the pages' shares of a finite set add up to it
(`CountsAddUp`); a worst issue exists because severities are ordered (`WorstOfSome`).

**Windows.** A bucket starts at the edge of its kind or a whole number of buckets from it, at or before its moment
(`TruncatedIsAnEdge`), and there is no other such start within a bucket's length (`OneEdge`), so the API's buckets and
the database's are the same and each moment of a window has one (`BucketOfMoment`, `OneBucketForEach`). How many buckets
a window has is compared with the limit (`HowManyFit`). A period of the dashboard is in days, and touches at most one
bucket more than it is long, which `LimitsFit` leaves room for (`PresetsAreAcceptable`, `DatesAreAcceptable`).

**Only model-checked:** everything temporal (`PendingIsSettled`, `NoPairWaitsForEver`, the liveness half of
`PlansEverything`, all of `progress`): liveness under fairness is beyond TLAPS. Every other property of a passing run
is the statement of a theorem. The two findings are of course only TLC's.

## Not modelled

| Part | Left out, and why |
|---|---|
| Matching | `billingAttempts`, `failureReason`, `billingTradeId`, the counts of a run's result, skipped self-matches: reported, never read |
| Market statistics | sums of money (the same rows as the sums of energy); the lists of offers and of requests (as the list of trades) |
| Billing | currency and completion time of a payload; the names of the differing fields are in `TradeAmounts`, without identifiers |
| Readings | the list of a household's readings, which reads as the others |
| Outbox | several orphaned publishes of one row count as one; returns are seen with the broker's handling of the message; the length of the polling interval |
| Consumer | what a run does beyond the rows it reads (`TradeMatching`); nack by the library; connection set-up and topology declaration |
| Pricing | database transactions across statements other than as their interleavings; 20-digit intermediate precision |
| Lifecycle | Nest's own hook order within one phase; log wording |
| Start-up | CORS, Swagger, body size limits; that a port is taken |
| Pipeline | correlation ids; several client addresses; the text format of `/metrics`; histograms |
| Counters | a meter service's restart (its counters behave as the others'); gauges read from the database |
| Amounts | the currency; how a number is written beyond its sign, digits and point |
| Session | the health checks of the sign-in form and the hash route; local storage of the theme |
| Households page | the loading of the rankings; charts; layout, wording, icons, styles |
| Others | `structured-logger.ts` and log formatting, Swagger documents, Dockerfiles, compose and Terraform files, migrations beyond their constraints, seed and demo scripts: no state of their own, or none a property is about |

## Plan

1. **Done** - matching and settlement, billing, with proofs.
2. **Done** - readings, outbox, delivery, with proofs.
3. **Done** - pricing, statistics, lifecycle, start-up, request pipeline, counters, amounts, the dashboard.
4. `Settlement`: what matching promises for one trade (reserved, then completed or failed, once), as an abstract
   specification that `TradeMatching` implements under the conditions of the proofs.
5. `SolarGrid`: from a reading to its ledger entries, composed of abstract specifications of `MeterReadings` with
   `OutboxPublisher`, `EnergyEvents`, `TradeMatching` and `ExactlyOnceLedger`; the property would be that every
   stored surplus is offered once.
6. **Done** - proofs about `TradeAmounts` and the dashboard's modules.
