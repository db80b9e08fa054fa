-------------------------- MODULE OperationsCounters --------------------------
(***************************************************************************)
(* What the services count of an event on its way from the smart meter     *)
(* through the broker to the ledger, next to what really happened to it,   *)
(* and the figures the dashboard's system page makes of the counters.      *)
(* Readings, offers and trades are as abstract as counting them allows:    *)
(* the modules of the components have the rest.                            *)
(***************************************************************************)
EXTENDS Integers, FiniteSets, FiniteSetsExt

CONSTANTS
    Events,        \* readings with something to announce
    Trades,        \* trades the matching runs may make
    MaxRetries,    \* of the consumer
    MaxFaults,     \* bound: lost answers, failed statements and publishes
    MaxRuns,       \* bound: runs an operator asks for
    MaxRestarts,   \* bound: of trade matching and billing, together
    Nothing

CountersAssumption ==
    /\ IsFiniteSet(Events) /\ IsFiniteSet(Trades)
    /\ MaxRetries \in Nat /\ MaxFaults \in Nat /\ MaxRuns \in Nat /\ MaxRestarts \in Nat

VARIABLES
    row,       \* the outbox row of each event
    queued,    \* copies in the broker, by event and retries so far
    hand,      \* the message the consumer works on
    toCount,   \* what the smart meter has committed of each event and not yet counted
    offers,    \* events stored as offers or requests
    run,       \* who is in a matching run
    asking,    \* the trade each runner has sent to billing, and how far that is
    trade,     \* the status of each trade
    ledger,    \* trades billing has recorded
    meter, messages, market, settlements,   \* the counters of the three services
    restarts,  \* of trade matching and of billing
    faults, runs,
    again,     \* history: copies of an event beyond the first
    unseen,    \* history: messages the broker set aside by itself
    rolledBack,\* history: reservations whose commit failed
    unheard    \* history: trades settled or released without trade matching hearing so

eventVars == <<row, toCount, queued, hand, offers>>
runVars == <<run, asking, trade>>
counters == <<meter, messages, market, settlements>>
history == <<again, unseen, rolledBack, unheard>>
vars == <<eventVars, runVars, ledger, counters, restarts, faults, runs, history>>

Runners == {"consumer", "operator"}
Copies == Events \X (0..MaxRetries)
NoMessage == [event |-> Nothing, retries |-> 0, stage |-> "none", created |-> FALSE]
NoRequest == [trade |-> Nothing, at |-> "none"]

NoMeter == [created |-> 0, published |-> 0, failures |-> 0]
NoMessages == [processed |-> 0, duplicate |-> 0, retry_scheduled |-> 0, dead_lettered |-> 0]
NoMarket == [completed |-> 0, pricing_unavailable |-> 0, failed |-> 0, reserved |-> 0,
             settled |-> 0, rejected |-> 0, unknown |-> 0]
NoSettlements == [recorded |-> 0, replayed |-> 0, rejected |-> 0]

Init ==
    /\ row = [e \in Events |-> "none"]
    /\ toCount = {}
    /\ queued = [c \in Copies |-> 0]
    /\ hand = NoMessage
    /\ offers = {}
    /\ run = [r \in Runners |-> FALSE]
    /\ asking = [r \in Runners |-> NoRequest]
    /\ trade = [t \in Trades |-> "none"]
    /\ ledger = {}
    /\ meter = NoMeter /\ messages = NoMessages /\ market = NoMarket
    /\ settlements = NoSettlements
    /\ restarts = [trading |-> 0, billing |-> 0]
    /\ faults = 0 /\ runs = 0
    /\ again = 0 /\ unseen = 0 /\ rolledBack = 0 /\ unheard = 0

Count(counter, name) == [counter EXCEPT ![name] = @ + 1]
Fault == faults < MaxFaults /\ faults' = faults + 1

\* The reading is committed with its outbox row.
ReadingStored(e) ==
    /\ row[e] = "none"
    /\ row' = [row EXCEPT ![e] = "pending"]
    /\ toCount' = toCount \cup {<<e, "created">>}
    /\ UNCHANGED <<queued, hand, offers, runVars, ledger, counters, restarts, faults, runs, history>>

\* The broker has confirmed the event and the row is marked.
Published(e) ==
    /\ row[e] = "pending"
    /\ row' = [row EXCEPT ![e] = "published"]
    /\ queued' = [queued EXCEPT ![<<e, 0>>] = @ + 1]
    /\ toCount' = toCount \cup {<<e, "published">>}
    /\ UNCHANGED <<hand, offers, runVars, ledger, counters, restarts, faults, runs, history>>

\* Either is counted once the statement has returned.
CountCommitted(e, what) ==
    /\ <<e, what>> \in toCount
    /\ toCount' = toCount \ {<<e, what>>}
    /\ meter' = Count(meter, what)
    /\ UNCHANGED <<row, queued, hand, offers, runVars, ledger, messages, market, settlements,
                   restarts, faults, runs, history>>

\* The broker did not take it, or took it and the row could not be marked.
PublishFails(e, taken) ==
    /\ row[e] = "pending" /\ Fault
    /\ queued' = IF taken THEN [queued EXCEPT ![<<e, 0>>] = @ + 1] ELSE queued
    /\ again' = IF taken THEN again + 1 ELSE again
    /\ meter' = Count(meter, "failures")
    /\ UNCHANGED <<row, toCount, hand, offers, runVars, ledger, messages, market, settlements,
                   restarts, runs, unseen, rolledBack, unheard>>

Receive(c) ==
    /\ hand = NoMessage /\ queued[c] > 0
    /\ queued' = [queued EXCEPT ![c] = @ - 1]
    /\ hand' = [event |-> c[1], retries |-> c[2], stage |-> "storing", created |-> FALSE]
    /\ UNCHANGED <<row, toCount, offers, runVars, ledger, counters, restarts, faults, runs, history>>

\* The insert, and the run that follows it unless a first delivery was known already.
Store ==
    LET created == hand.event \notin offers
        matches == created \/ hand.retries > 0
    IN
    /\ hand.stage = "storing"
    /\ offers' = offers \cup {hand.event}
    /\ hand' = [hand EXCEPT !.created = created, !.stage = IF matches THEN "matching" ELSE "handled"]
    /\ run' = [run EXCEPT !["consumer"] = matches]
    /\ UNCHANGED <<row, toCount, queued, asking, trade, ledger, counters, restarts, faults, runs, history>>

StoreFails ==
    /\ hand.stage = "storing" /\ Fault
    /\ hand' = [hand EXCEPT !.stage = "failed"]
    /\ UNCHANGED <<row, toCount, queued, offers, runVars, ledger, counters, restarts, runs, history>>

\* The handler's end, and the acknowledgement after it, which may be lost.
Acknowledge(lost) ==
    /\ lost => Fault
    /\ ~lost => UNCHANGED faults
    /\ hand' = NoMessage
    /\ again' = IF lost THEN again + 1 ELSE again

Back(copies) == [queued EXCEPT ![<<hand.event, hand.retries>>] = @ + copies]

\* Mutant of Handled: a repeated event is left without a word.
HandledSilently(lost) ==
    /\ hand.stage = "handled"
    /\ messages' = IF hand.created THEN Count(messages, "processed") ELSE messages
    /\ queued' = IF lost THEN Back(1) ELSE queued
    /\ Acknowledge(lost)
    /\ UNCHANGED <<row, toCount, offers, runVars, ledger, meter, market, settlements, restarts, runs,
                   unseen, rolledBack, unheard>>

Handled(lost) ==
    /\ hand.stage = "handled"
    /\ messages' = Count(messages, IF hand.created THEN "processed" ELSE "duplicate")
    /\ queued' = IF lost THEN Back(1) ELSE queued
    /\ Acknowledge(lost)
    /\ UNCHANGED <<row, toCount, offers, runVars, ledger, meter, market, settlements, restarts, runs,
                   unseen, rolledBack, unheard>>

\* The copy for the next attempt is published, or the message is parked, and counted.
HandlingFailed(lost) ==
    LET more == hand.retries < MaxRetries IN
    /\ hand.stage = "failed"
    /\ messages' = Count(messages, IF more THEN "retry_scheduled" ELSE "dead_lettered")
    /\ queued' = LET waiting == IF lost THEN Back(1) ELSE queued IN
                 IF more THEN [waiting EXCEPT ![<<hand.event, hand.retries + 1>>] = @ + 1] ELSE waiting
    /\ Acknowledge(lost)
    /\ UNCHANGED <<row, toCount, offers, runVars, ledger, meter, market, settlements, restarts, runs,
                   unseen, rolledBack, unheard>>

\* That publish fails: the handler throws and the queue's dead letter route has it.
PublishOfCopyFails ==
    /\ hand.stage = "failed" /\ Fault
    /\ hand' = NoMessage
    /\ unseen' = unseen + 1
    /\ UNCHANGED <<row, toCount, queued, offers, runVars, ledger, counters, restarts, runs, again,
                   rolledBack, unheard>>

OperatorRun ==
    /\ ~run["operator"] /\ runs < MaxRuns
    /\ run' = [run EXCEPT !["operator"] = TRUE]
    /\ runs' = runs + 1
    /\ UNCHANGED <<eventVars, asking, trade, ledger, counters, restarts, faults, history>>

\* A run is over: the consumer goes on with its message, or fails with it.
EndRun(r, counted, outcome) ==
    /\ run' = [run EXCEPT ![r] = FALSE]
    /\ market' = Count(counted, outcome)
    /\ hand' = IF r = "operator" THEN hand
               ELSE [hand EXCEPT !.stage = IF outcome = "completed" THEN "handled" ELSE "failed"]

RunEnds(r) ==
    /\ run[r] /\ asking[r] = NoRequest
    /\ EndRun(r, market, "completed")
    /\ UNCHANGED <<row, toCount, queued, offers, asking, trade, ledger, meter, messages, settlements,
                   restarts, faults, runs, history>>

RunStops(r, outcome) ==
    /\ run[r] /\ asking[r] = NoRequest /\ Fault
    /\ outcome \in {"pricing_unavailable", "failed"}
    /\ EndRun(r, market, outcome)
    /\ UNCHANGED <<row, toCount, queued, offers, asking, trade, ledger, meter, messages, settlements,
                   restarts, runs, history>>

\* Counted inside the transaction, before its commit.
Reserve(r, t) ==
    /\ run[r] /\ asking[r] = NoRequest /\ trade[t] = "none"
    /\ trade' = [trade EXCEPT ![t] = "pending"]
    /\ market' = Count(market, "reserved")
    /\ UNCHANGED <<eventVars, run, asking, ledger, meter, messages, settlements, restarts,
                   faults, runs, history>>

CommitFails(r, t) ==
    /\ run[r] /\ asking[r] = NoRequest /\ trade[t] = "none" /\ Fault
    /\ EndRun(r, Count(market, "reserved"), "failed")
    /\ rolledBack' = rolledBack + 1
    /\ UNCHANGED <<row, toCount, queued, offers, asking, trade, ledger, meter, messages, settlements,
                   restarts, runs, again, unseen, unheard>>

\* A trade just reserved, or one an earlier run left: sent with its key.
Send(r, t) ==
    /\ run[r] /\ asking[r] = NoRequest /\ trade[t] = "pending"
    /\ asking' = [asking EXCEPT ![r] = [trade |-> t, at |-> "sent"]]
    /\ UNCHANGED <<eventVars, run, trade, ledger, counters, restarts, faults, runs, history>>

BillingRecords(r) ==
    LET t == asking[r].trade IN
    /\ asking[r].at = "sent"
    /\ ledger' = ledger \cup {t}
    /\ settlements' = Count(settlements, IF t \in ledger THEN "replayed" ELSE "recorded")
    /\ asking' = [asking EXCEPT ![r].at = "recorded"]
    /\ UNCHANGED <<eventVars, run, trade, meter, messages, market, restarts, faults, runs, history>>

\* By a rule of its own, which is counted, or because it does not know the caller.
BillingRefuses(r, byRule) ==
    /\ asking[r].at = "sent" /\ Fault
    /\ byRule => asking[r].trade \notin ledger
    /\ settlements' = IF byRule THEN Count(settlements, "rejected") ELSE settlements
    /\ asking' = [asking EXCEPT ![r].at = "refused"]
    /\ UNCHANGED <<eventVars, run, trade, ledger, meter, messages, market, restarts, runs, history>>

\* The answer is written down ...
Written(r, status) ==
    /\ trade' = [trade EXCEPT ![asking[r].trade] = status]
    /\ asking' = [asking EXCEPT ![r].at = status]
    /\ UNCHANGED <<eventVars, run, ledger, counters, restarts, faults, runs, history>>

Settle(r) == asking[r].at = "recorded" /\ Written(r, "completed")
Release(r) == asking[r].at = "refused" /\ Written(r, "failed")

\* ... and counted once the statement has returned.
Answered(r, outcome) ==
    /\ market' = Count(market, outcome)
    /\ asking' = [asking EXCEPT ![r] = NoRequest]
    /\ UNCHANGED <<eventVars, run, trade, ledger, meter, messages, settlements, restarts, runs,
                   again, unseen, rolledBack>>

CountAnswer(r) ==
    /\ asking[r].at \in {"completed", "failed"}
    /\ Answered(r, IF asking[r].at = "completed" THEN "settled" ELSE "rejected")
    /\ UNCHANGED <<faults, unheard>>

\* No answer within the deadline, or none from the database to the settled trade.
NoAnswer(r) ==
    /\ asking[r].at \in {"sent", "recorded", "refused", "completed", "gone"}
    /\ IF asking[r].at = "gone" THEN UNCHANGED faults ELSE Fault
    /\ unheard' = IF asking[r].at = "completed" THEN unheard + 1 ELSE unheard
    /\ Answered(r, "unknown")

\* The release of a refused trade fails, or is not known to have succeeded.
ReleaseFails(r) ==
    /\ asking[r].at \in {"refused", "failed"} /\ Fault
    /\ unheard' = IF asking[r].at = "failed" THEN unheard + 1 ELSE unheard
    /\ asking' = [asking EXCEPT ![r] = NoRequest]
    /\ EndRun(r, market, "failed")
    /\ UNCHANGED <<row, toCount, queued, offers, trade, ledger, meter, messages, settlements,
                   restarts, runs, again, unseen, rolledBack>>

MayRestart(s) ==
    /\ restarts["trading"] + restarts["billing"] < MaxRestarts
    /\ restarts' = [restarts EXCEPT ![s] = @ + 1]

\* The message in hand goes back to the queue, and every counter to zero.
TradingRestarts ==
    /\ MayRestart("trading")
    /\ hand' = NoMessage
    /\ queued' = IF hand = NoMessage THEN queued ELSE Back(1)
    /\ run' = [r \in Runners |-> FALSE]
    /\ asking' = [r \in Runners |-> NoRequest]
    /\ messages' = NoMessages /\ market' = NoMarket
    /\ UNCHANGED <<row, toCount, offers, trade, ledger, meter, settlements, faults, runs, history>>

BillingRestarts ==
    /\ MayRestart("billing")
    /\ settlements' = NoSettlements
    /\ asking' = [r \in Runners |-> IF asking[r].at \notin {"sent", "recorded", "refused"} THEN asking[r]
                                    ELSE [asking[r] EXCEPT !.at = "gone"]]
    /\ UNCHANGED <<eventVars, run, trade, ledger, meter, messages, market, faults, runs, history>>

Next ==
    \/ \E e \in Events :
        \/ ReadingStored(e) \/ Published(e)
        \/ \E what \in {"created", "published"} : CountCommitted(e, what)
        \/ \E taken \in BOOLEAN : PublishFails(e, taken)
    \/ \E c \in Copies : Receive(c)
    \/ Store \/ StoreFails \/ PublishOfCopyFails
    \/ \E lost \in BOOLEAN : Handled(lost) \/ HandlingFailed(lost)
    \/ OperatorRun
    \/ \E r \in Runners :
        \/ RunEnds(r)
        \/ \E outcome \in {"pricing_unavailable", "failed"} : RunStops(r, outcome)
        \/ \E t \in Trades : Reserve(r, t) \/ CommitFails(r, t) \/ Send(r, t)
        \/ BillingRecords(r)
        \/ \E byRule \in BOOLEAN : BillingRefuses(r, byRule)
        \/ Settle(r) \/ Release(r) \/ CountAnswer(r) \/ NoAnswer(r) \/ ReleaseFails(r)
    \/ TradingRestarts \/ BillingRestarts

Spec == Init /\ [][Next]_vars
--------------------------------------------------------------------------------
\* The figures of the dashboard's system page, from the counters of a service.
MeterPipeline ==
    [eventsQueued |-> meter.created, eventsDelivered |-> meter.published,
     deliveryFailures |-> meter.failures,
     waitingNow |-> Cardinality({e \in Events : row[e] = "pending"})]

EventProcessing ==
    [processed |-> messages.processed, duplicates |-> messages.duplicate,
     retries |-> messages.retry_scheduled, deadLettered |-> messages.dead_lettered]

MarketOperations ==
    [tradesReserved |-> market.reserved, billingSettled |-> market.settled,
     billingRefused |-> market.rejected, billingNoAnswer |-> market.unknown,
     awaitingBilling |-> Cardinality({t \in Trades : trade[t] = "pending"})]

LedgerOperations ==
    [recorded |-> settlements.recorded, repeated |-> settlements.replayed,
     refused |-> settlements.rejected]

\* What the page shows of them, by its labels. A trade repeated and a conflict refused
\* are the ledger's; what billing answered is as trade matching heard it.
EventPipeline ==
    [Created |-> MeterPipeline.eventsQueued, Delivered |-> MeterPipeline.eventsDelivered,
     AttemptsFailed |-> MeterPipeline.deliveryFailures, WaitingNow |-> MeterPipeline.waitingNow,
     Processed |-> EventProcessing.processed, DuplicatesIgnored |-> EventProcessing.duplicates,
     RetriesScheduled |-> EventProcessing.retries, SetAside |-> EventProcessing.deadLettered]

OperationsPage ==
    [Reserved |-> MarketOperations.tradesReserved, Settled |-> MarketOperations.billingSettled,
     Refused |-> MarketOperations.billingRefused, NoAnswer |-> MarketOperations.billingNoAnswer,
     WaitingNow |-> MarketOperations.awaitingBilling,
     Recorded |-> LedgerOperations.recorded, Repeated |-> LedgerOperations.repeated]
--------------------------------------------------------------------------------
InBroker == SumFunction(queued) + (IF hand = NoMessage THEN 0 ELSE 1)
Made == {t \in Trades : trade[t] # "none"}
TradingCounts == restarts["trading"] = 0

(* A message is in hand exactly while somebody works on it, and the consumer runs the
   matching exactly while its message is at that. *)
TypeOK ==
    /\ row \in [Events -> {"none", "pending", "published"}]
    /\ \A c \in Copies : queued[c] \in Nat
    /\ hand.stage \in {"none", "storing", "matching", "handled", "failed"}
    /\ run["consumer"] <=> hand.stage = "matching"
    /\ \A r \in Runners : asking[r] # NoRequest => run[r]
    /\ trade \in [Trades -> {"none", "pending", "completed", "failed"}]
    /\ ledger \subseteq Trades /\ offers \subseteq Events

(* The stages of the event pipeline add up once the smart meter has counted what it
   committed: what was created was delivered or waits, and what was delivered, and
   delivered again, was processed, ignored as a duplicate or set aside, or is with the
   broker. No message leaves the consumer without being counted, and none is counted as
   two, through retries, lost acknowledgements and rows that could not be marked. *)
StagesAddUp ==
    LET page == EventPipeline IN
    toCount = {} =>
        /\ page.Created = page.Delivered + page.WaitingNow
        /\ TradingCounts =>
            page.Delivered + again =
                page.Processed + page.DuplicatesIgnored + page.SetAside + unseen + InBroker

(* While trade matching has not restarted, each trade it made was counted as reserved,
   and is among the figures as settled, refused or waiting once its answer is counted,
   however many runs ask billing about it and whatever answers are lost: but for a trade
   whose own update was committed without trade matching hearing so. *)
TradesAreAccountedFor ==
    LET page == OperationsPage IN
    TradingCounts =>
        /\ Cardinality(Made) + rolledBack = page.Reserved
        /\ Cardinality(Made) <=
               page.Settled + page.Refused + page.WaitingNow
                   + Cardinality({r \in Runners : asking[r].at \in {"completed", "failed"}})
                   + unheard

(* Each time trade matching says a trade was settled, billing has said that it recorded
   it or had recorded it, and so the dashboard never shows more trades settled than
   the ledger's own two figures explain, unless billing began to count later. *)
LedgerExplainsSettled ==
    LET page == OperationsPage IN
    restarts["billing"] = 0 => page.Settled <= page.Recorded + page.Repeated

(* SystemViews.tsx:242 of "Duplicates ignored": the same event arrived twice. *)
DuplicatesArrivedTwice == EventPipeline.DuplicatesIgnored <= again

(* trading.metrics.ts:44 of trades_reserved_total: trades whose energy was reserved on
   both sides. *)
ReservedAreTrades == TradingCounts => OperationsPage.Reserved <= Cardinality(Made)
================================================================================
