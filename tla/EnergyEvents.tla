---------------------------- MODULE EnergyEvents ----------------------------
(***************************************************************************)
(* The delivery of energy events to the trade-matching service: the main   *)
(* queue, one retry queue per attempt, the dead letter queue, and the      *)
(* instances of the service whose consumers take messages from them.       *)
(*                                                                         *)
(* A message stays with the broker until it is acknowledged.  A delivery   *)
(* is a handler invocation: the process may die under it, or its           *)
(* connection may drop, which puts the message back in the queue while the *)
(* handler goes on to its end and finds its channel closed.                *)
(*                                                                         *)
(* Queues are bags: every message of a queue is delivered in the end, in   *)
(* no particular order (redeliveries and several consumers mix it anyway). *)
(***************************************************************************)
EXTENDS Integers, FiniteSets

CONSTANTS
    Events,        \* what the meter side publishes
    Body,          \* Body[e]: the body of event e
    Instances,     \* processes of the trade-matching service
    Handlers,      \* bound: handler invocations under way at once
    MaxRetries,    \* RABBITMQ_MAX_RETRIES
    Prefetch,      \* RABBITMQ_PREFETCH
    MaxPublished,  \* bound: how often one event is published by the outbox
    MaxCopies,     \* bound: messages in the queues at once
    MaxCrashes,    \* bound: processes that die
    MaxDrops,      \* bound: broker connections that drop
    MaxStops       \* bound: orderly shutdowns

Bodies == [object : BOOLEAN, eventId : BOOLEAN, correlationId : BOOLEAN,
           householdId : BOOLEAN, version : 0 .. 2,
           type : {"surplus", "demand", "unknown"}, positive : BOOLEAN]

ASSUME EventAssumption ==
    /\ MaxRetries \in 0 .. 10 /\ Prefetch \in 1 .. 100 /\ IsFiniteSet(Handlers)
    /\ Body \in [Events -> Bodies]
    /\ MaxPublished \in Nat /\ MaxCopies \in Nat
    /\ MaxCrashes \in Nat /\ MaxDrops \in Nat /\ MaxStops \in Nat

(* A message is a copy of an event with the value of its retry header. *)
Message == [event : Events, retries : 0 .. MaxRetries]

VARIABLES
    published,  \* how often the outbox has published each event
    ready,      \* the main queue
    delayed,    \* the retry queues; a message of retry queue n has retries = n
    parked,     \* the dead letter queue
    stored,     \* events with a row in sell_offers or buy_requests
    matched,    \* events whose row a finished matching run has read
    handler,    \* the handler invocations
    mode,       \* "running", "stopping" or "down", per instance
    faults      \* how many crashes, drops and stops there were

queueVars == <<ready, delayed, parked>>
tableVars == <<stored, matched>>
vars == <<published, queueVars, tableVars, handler, mode, faults>>

HandlerPoint == {"received", "failed", "matching", "trading", "retrying",
                 "parking", "throwing", "done"}
Reason == {"unprocessable", "exhausted", "thrown"}
Idle == [pc |-> "idle"]
(* open: the channel the message came on is still open.  read: the rows    *)
(* the handler's matching run has read.                                    *)
Invocation == [pc : HandlerPoint, message : Message, instance : Instances,
               open : BOOLEAN, read : SUBSET Events]

TypeOK ==
    /\ published \in [Events -> 0 .. MaxPublished]
    /\ ready \in [Message -> Nat]
    /\ delayed \in [Message -> Nat]
    /\ parked \subseteq [message : Message, reason : Reason]
    /\ stored \subseteq Events /\ matched \subseteq stored
    /\ handler \in [Handlers -> Invocation \cup {Idle}]
    /\ mode \in [Instances -> {"running", "stopping", "down"}]
    /\ faults \in [crashes : 0 .. MaxCrashes, drops : 0 .. MaxDrops, stops : 0 .. MaxStops]

-----------------------------------------------------------------------------
Add(queue, m) == [queue EXCEPT ![m] = @ + 1]
Remove(queue, m) == [queue EXCEPT ![m] = @ - 1]
Fresh(e) == [event |-> e, retries |-> 0]

Busy(h) == handler[h].pc # "idle"
(* The deliveries of an instance, and those the broker still waits for. *)
InProgress(i) == {h \in Handlers : Busy(h) /\ handler[h].instance = i}
Unacked(i) == {h \in InProgress(i) : handler[h].open}

(* The messages the broker still has: queued, waiting, or unacknowledged. *)
AtBroker == {m \in Message : \/ ready[m] > 0 \/ delayed[m] > 0
                             \/ \E h \in Handlers : Busy(h) /\ handler[h].open
                                                 /\ handler[h].message = m}
Room == Cardinality({copy \in Message \X (1 .. MaxCopies) :
                        ready[copy[1]] >= copy[2] \/ delayed[copy[1]] >= copy[2]}) < MaxCopies

(* Back in the main queue: what the broker has not had acknowledged. *)
Requeue(unacked) ==
    ready' = [m \in Message |->
                ready[m] + Cardinality({h \in unacked : handler[h].message = m})]

-----------------------------------------------------------------------------
(* What a row needs, and what the consumer takes for processable. *)
Storable(b) == b.object /\ b.eventId /\ b.correlationId /\ b.householdId
               /\ b.type # "unknown" /\ b.positive

Problem(b) == \/ ~ b.object \/ ~ b.eventId \/ ~ b.correlationId \/ ~ b.householdId
              \/ b.version > 1            \* newer than ENERGY_EVENT_VERSION
              \/ b.type = "unknown" \/ ~ b.positive

Init ==
    /\ published = [e \in Events |-> 0]
    /\ ready = [m \in Message |-> 0] /\ delayed = [m \in Message |-> 0] /\ parked = {}
    /\ stored = {} /\ matched = {}
    /\ handler = [h \in Handlers |-> Idle]
    /\ mode = [i \in Instances |-> "running"]
    /\ faults = [crashes |-> 0, drops |-> 0, stops |-> 0]

(* The outbox publishes an event, possibly more than once. *)
Publish(e) ==
    /\ published[e] < MaxPublished /\ Room
    /\ published' = [published EXCEPT ![e] = @ + 1]
    /\ ready' = Add(ready, Fresh(e))
    /\ UNCHANGED <<delayed, parked, tableVars, handler, mode, faults>>

(* The delay of a retry queue expires: dead-lettered to the main queue. *)
Expire(m) ==
    /\ delayed[m] > 0
    /\ delayed' = Remove(delayed, m) /\ ready' = Add(ready, m)
    /\ UNCHANGED <<published, parked, tableVars, handler, mode, faults>>

(* The broker delivers to a consumer that is not cancelled and has fewer   *)
(* than Prefetch messages to acknowledge.                                  *)
Deliver(h, i, m) ==
    /\ ~ Busy(h) /\ ready[m] > 0
    /\ mode[i] = "running" /\ Cardinality(Unacked(i)) < Prefetch
    /\ ready' = Remove(ready, m)
    /\ handler' = [handler EXCEPT ![h] = [pc |-> "received", message |-> m, instance |-> i,
                                          open |-> TRUE, read |-> {}]]
    /\ UNCHANGED <<published, delayed, parked, tableVars, mode, faults>>

-----------------------------------------------------------------------------
(* handleEnergyEvent *)

At(h, point) == handler[h].pc = point
Goto(h, point) == handler' = [handler EXCEPT ![h].pc = point]
EventOf(h) == handler[h].message.event
RetriesOf(h) == handler[h].message.retries
Rejected(h) == Problem(Body[EventOf(h)])

(* A message that no retry could make valid is parked at once. *)
Reject(h) ==
    /\ At(h, "received") /\ Rejected(h)
    /\ Goto(h, "parking")
    /\ UNCHANGED <<published, queueVars, tableVars, mode, faults>>

RunsOnCreated(h, created) == created   \* mutant: a retry runs no matching
RunsMatching(h, created) == created \/ RetriesOf(h) > 0

(* handleSurplus, handleDemand: the unique index on sourceEventId tells a  *)
(* new row from one that is there already.                                 *)
StoreOrder(h) ==
    /\ At(h, "received") /\ ~ Rejected(h) /\ Storable(Body[EventOf(h)])
    /\ stored' = stored \cup {EventOf(h)}
    /\ Goto(h, IF RunsMatching(h, EventOf(h) \notin stored) THEN "matching" ELSE "done")
    /\ UNCHANGED <<published, queueVars, matched, mode, faults>>

(* The database does not answer, or answers with another error; the row    *)
(* may be there all the same.                                              *)
StoreFails(h) ==
    /\ At(h, "received") /\ ~ Rejected(h)
    /\ \/ UNCHANGED stored
       \/ Storable(Body[EventOf(h)]) /\ stored' = stored \cup {EventOf(h)}
    /\ Goto(h, "failed")
    /\ UNCHANGED <<published, queueVars, matched, mode, faults>>

(* runMatching reads the open rows, and ends well or with an error. *)
ReadOrders(h) ==
    /\ At(h, "matching")
    /\ handler' = [handler EXCEPT ![h].pc = "trading", ![h].read = stored]
    /\ UNCHANGED <<published, queueVars, tableVars, mode, faults>>

MatchingDone(h) ==
    /\ At(h, "trading")
    /\ matched' = matched \cup handler[h].read
    /\ handler' = [handler EXCEPT ![h].pc = "done", ![h].read = {}]
    /\ UNCHANGED <<published, queueVars, stored, mode, faults>>

MatchingFails(h) ==
    /\ handler[h].pc \in {"matching", "trading"}
    /\ handler' = [handler EXCEPT ![h].pc = "failed", ![h].read = {}]
    /\ UNCHANGED <<published, queueVars, tableVars, mode, faults>>

(* The catch clause: another attempt, or the dead letter queue. *)
ExhaustedEarly(h) == RetriesOf(h) + 2 > MaxRetries   \* mutant: off by one
Exhausted(h) == RetriesOf(h) + 1 > MaxRetries

HandleFailure(h) ==
    /\ At(h, "failed")
    /\ Goto(h, IF Exhausted(h) THEN "parking" ELSE "retrying")
    /\ UNCHANGED <<published, queueVars, tableVars, mode, faults>>

(* scheduleRetry: the copy is in the retry queue once its publish is       *)
(* confirmed, and only then is the original acknowledged.                  *)
Copy(h) == [event |-> EventOf(h), retries |-> RetriesOf(h) + 1]

ScheduleRetryOnCredit(h) ==   \* mutant: the publish is not awaited
    /\ At(h, "retrying") /\ Room
    /\ \/ delayed' = Add(delayed, Copy(h))
       \/ UNCHANGED delayed
    /\ Goto(h, "done")
    /\ UNCHANGED <<published, ready, parked, tableVars, mode, faults>>

ScheduleRetry(h) ==
    /\ At(h, "retrying") /\ Room
    /\ delayed' = Add(delayed, Copy(h))
    /\ Goto(h, "done")
    /\ UNCHANGED <<published, ready, parked, tableVars, mode, faults>>

(* parkInDeadLetterQueue *)
ParkedAs(h) == [message |-> handler[h].message,
                reason |-> IF Rejected(h) THEN "unprocessable" ELSE "exhausted"]
Park(h) ==
    /\ At(h, "parking")
    /\ parked' = parked \cup {ParkedAs(h)}
    /\ Goto(h, "done")
    /\ UNCHANGED <<published, ready, delayed, tableVars, mode, faults>>

(* A publish fails, whether or not the broker has the copy: the handler    *)
(* throws.                                                                 *)
PublishFails(h) ==
    /\ handler[h].pc \in {"retrying", "parking"}
    /\ \/ UNCHANGED <<delayed, parked>>
       \/ At(h, "retrying") /\ Room /\ delayed' = Add(delayed, Copy(h)) /\ UNCHANGED parked
       \/ At(h, "parking") /\ parked' = parked \cup {ParkedAs(h)} /\ UNCHANGED delayed
    /\ Goto(h, "throwing")
    /\ UNCHANGED <<published, ready, tableVars, mode, faults>>

(* The library acknowledges; on a closed channel that has no effect. *)
Acknowledge(h) ==
    /\ At(h, "done")
    /\ handler' = [handler EXCEPT ![h] = Idle]
    /\ UNCHANGED <<published, queueVars, tableVars, mode, faults>>

(* nackUnlessChannelClosed: without requeueing, so the queue's own dead    *)
(* letter route takes the message; a closed channel has nothing to nack.   *)

NackUnlessChannelClosed(h) ==
    /\ At(h, "throwing")
    /\ parked' = IF handler[h].open
                 THEN parked \cup {[message |-> handler[h].message, reason |-> "thrown"]}
                 ELSE parked
    /\ handler' = [handler EXCEPT ![h] = Idle]
    /\ UNCHANGED <<published, ready, delayed, tableVars, mode, faults>>

-----------------------------------------------------------------------------
(* Faults and shutdown *)

(* The broker connection of an instance drops: what it had not             *)
(* acknowledged is queued again, and the handlers carry on.                *)
Drop(i) ==
    /\ faults.drops < MaxDrops /\ Unacked(i) # {}
    /\ Requeue(Unacked(i))
    /\ handler' = [h \in Handlers |-> IF h \in Unacked(i)
                                      THEN [handler[h] EXCEPT !.open = FALSE]
                                      ELSE handler[h]]
    /\ faults' = [faults EXCEPT !.drops = @ + 1]
    /\ UNCHANGED <<published, delayed, parked, tableVars, mode>>

(* The process dies, or is ended by the shutdown deadline. *)
Crash(i) ==
    /\ faults.crashes < MaxCrashes /\ mode[i] # "down"
    /\ Requeue(Unacked(i))
    /\ handler' = [h \in Handlers |-> IF h \in InProgress(i) THEN Idle ELSE handler[h]]
    /\ mode' = [mode EXCEPT ![i] = "down"]
    /\ faults' = [faults EXCEPT !.crashes = @ + 1]
    /\ UNCHANGED <<published, delayed, parked, tableVars>>

Start(i) ==
    /\ mode[i] = "down"
    /\ mode' = [mode EXCEPT ![i] = "running"]
    /\ UNCHANGED <<published, queueVars, tableVars, handler, faults>>

(* beforeApplicationShutdown: the consumers are cancelled, the deliveries  *)
(* in progress are waited for, and only then does the connection close.    *)
BeginShutdown(i) ==
    /\ mode[i] = "running" /\ faults.stops < MaxStops
    /\ mode' = [mode EXCEPT ![i] = "stopping"]
    /\ faults' = [faults EXCEPT !.stops = @ + 1]
    /\ UNCHANGED <<published, queueVars, tableVars, handler>>

CloseAtOnce(i) ==   \* mutant: the connection closes under the handlers
    /\ mode[i] = "stopping"
    /\ Requeue(Unacked(i))
    /\ handler' = [h \in Handlers |-> IF h \in InProgress(i) THEN Idle ELSE handler[h]]
    /\ mode' = [mode EXCEPT ![i] = "down"]
    /\ UNCHANGED <<published, delayed, parked, tableVars, faults>>

CloseAfterDrain(i) ==
    /\ mode[i] = "stopping" /\ InProgress(i) = {}
    /\ mode' = [mode EXCEPT ![i] = "down"]
    /\ UNCHANGED <<published, queueVars, tableVars, handler, faults>>

-----------------------------------------------------------------------------
Handle(h) ==
    \/ Reject(h) \/ StoreOrder(h) \/ StoreFails(h)
    \/ ReadOrders(h) \/ MatchingDone(h) \/ MatchingFails(h)
    \/ HandleFailure(h) \/ ScheduleRetry(h) \/ Park(h) \/ PublishFails(h)
    \/ Acknowledge(h) \/ NackUnlessChannelClosed(h)

Next ==
    \/ \E e \in Events : Publish(e)
    \/ \E m \in Message : Expire(m)
    \/ \E h \in Handlers, i \in Instances, m \in Message : Deliver(h, i, m)
    \/ \E h \in Handlers : Handle(h)
    \/ \E i \in Instances : Drop(i) \/ Crash(i) \/ Start(i)
                            \/ BeginShutdown(i) \/ CloseAfterDrain(i)

Spec == Init /\ [][Next]_vars

(* Every handler comes to an end, every delay expires, every queued        *)
(* message is delivered as long as consumers keep having room for it, and  *)
(* a process that ended is started again.                                  *)
FairSpec ==
    /\ Spec
    /\ \A h \in Handlers : WF_vars(Handle(h))
    /\ \A m \in Message : WF_vars(Expire(m))
    /\ \A m \in Message : SF_vars(\E h \in Handlers, i \in Instances : Deliver(h, i, m))
    /\ \A i \in Instances : WF_vars(Start(i)) /\ WF_vars(CloseAfterDrain(i))

-----------------------------------------------------------------------------
(* Properties *)

IsParked(e) == \E p \in parked : p.message.event = e

(* No event is dropped: one that was published is stored, parked, or still *)
(* in the broker's hands, whatever crashes, drops or fails in between.     *)
(* (handleEnergyEvent, scheduleRetry: "nothing is dropped either way")     *)
NothingDropped ==
    \A e \in Events : published[e] > 0 =>
        \/ e \in stored \/ IsParked(e)
        \/ \E m \in AtBroker : m.event = e

(* The dead letter queue says the truth: "exhausted" after exactly         *)
(* MaxRetries retries, "unprocessable" only for what no retry can make     *)
(* valid; and such a message is never stored or retried.                   *)
ParkedForAReason ==
    /\ \A p \in parked :
         /\ p.reason = "exhausted" => p.message.retries = MaxRetries
         /\ p.reason = "unprocessable" => ~ Storable(Body[p.message.event])
                                          \/ Body[p.message.event].version > 1
    /\ \A m \in AtBroker : m.retries > 0 => Storable(Body[m.event])

(* Every published event ends stored or parked. *)
EveryEventSettles ==
    \A e \in Events : published[e] > 0 ~> (e \in stored \/ IsParked(e))

(* A shutdown that is not cut short ends: draining waits only for handlers *)
(* that come to an end.                                                    *)
ShutdownEnds == \A i \in Instances : mode[i] = "stopping" ~> mode[i] = "down"
=============================================================================
