------------------------- MODULE EnergyEventsProofs -------------------------
(***************************************************************************)
(* What holds of the delivery of energy events for any number of events,   *)
(* instances, handlers, crashes, dropped connections and shutdowns: no     *)
(* event is dropped, the dead letter queue says why it has a message, a    *)
(* stored row is not forgotten, and no work is repeated without cause.     *)
(***************************************************************************)
EXTENDS DeliveryHistory, TotalsProofs, FiniteSetTheorems, TLAPS

(* What a handler knows at each of its points. *)
KnowsItsEvent(h) ==
    Busy(h) =>
      /\ At(h, "matching") \/ At(h, "trading") => EventOf(h) \in stored
      /\ handler[h].read \subseteq stored
      /\ handler[h].pc \in {"failed", "matching", "trading", "retrying"} => ~ Rejected(h)
      /\ At(h, "parking") => Rejected(h) \/ Exhausted(h)
      /\ At(h, "retrying") => ~ Exhausted(h)
      /\ RetriesOf(h) > 0 => Storable(Body[EventOf(h)])
KnowingHandlers == \A h \in Handlers : KnowsItsEvent(h)

(* Only an event that could be stored is ever retried. *)
RetriesAreStorable ==
    \A m \in Message : (ready[m] > 0 \/ delayed[m] > 0) /\ m.retries > 0 => Storable(Body[m.event])

Reasons ==
    \A p \in parked :
        /\ p.reason = "exhausted" => p.message.retries = MaxRetries
        /\ p.reason = "unprocessable" => ~ Storable(Body[p.message.event])
                                         \/ Body[p.message.event].version > 1

(* An event is tracked without the deliveries that are done with: those    *)
(* have stored it, parked it, or left a copy.                              *)
Live(h, e) == Busy(h) /\ handler[h].open /\ ~ At(h, "done") /\ EventOf(h) = e
Queued(e) == \E m \in Message : m.event = e /\ (ready[m] > 0 \/ delayed[m] > 0)
Tracked(e) == \/ e \in stored \/ IsParked(e) \/ Queued(e)
              \/ \E h \in Handlers : Live(h, e)
AllTracked == \A e \in Events : published[e] > 0 => Tracked(e)

Inv == TypeOK /\ KnowingHandlers /\ RetriesAreStorable /\ Reasons /\ AllTracked

-----------------------------------------------------------------------------
(* Operators. *)

LEMMA Numbers == MaxRetries \in Nat /\ MaxPublished \in Nat /\ MaxCrashes \in Nat
                 /\ MaxDrops \in Nat /\ MaxStops \in Nat
BY EventAssumption

LEMMA Messages ==
  ASSUME NEW m \in Message
  PROVE  m.event \in Events /\ m.retries \in 0 .. MaxRetries /\ Body[m.event] \in Bodies
BY EventAssumption DEF Message

LEMMA BusyHandlers ==
  ASSUME TypeOK, NEW h \in Handlers
  PROVE  /\ Busy(h) => /\ handler[h] \in Invocation /\ handler[h].message \in Message
                       /\ EventOf(h) \in Events /\ RetriesOf(h) \in 0 .. MaxRetries
                       /\ handler[h].pc \in HandlerPoint /\ handler[h].open \in BOOLEAN
                       /\ handler[h].instance \in Instances
         /\ ~ Busy(h) => handler[h] = Idle
<1>1. handler[h] \in Invocation \/ handler[h] = Idle BY DEF TypeOK
<1>2. ASSUME handler[h] \in Invocation
      PROVE  handler[h].pc # "idle" /\ handler[h].message \in Message
  BY <1>2 DEF Invocation, HandlerPoint
<1>3. handler[h] = Idle => handler[h].pc = "idle" BY DEF Idle
<1> QED BY <1>1, <1>2, <1>3, Messages DEF Busy, EventOf, RetriesOf, Invocation

LEMMA AcceptedIsStorable ==
  ASSUME NEW e \in Events, ~ Problem(Body[e])
  PROVE  Storable(Body[e])
BY DEF Problem, Storable

LEMMA RejectedForAReason ==
  ASSUME NEW e \in Events, Problem(Body[e])
  PROVE  ~ Storable(Body[e]) \/ Body[e].version > 1
BY EventAssumption DEF Problem, Storable, Bodies

(* A handler goes on to another point. *)
Moves(h, point, rows) ==
    \/ handler' = [handler EXCEPT ![h].pc = point]
    \/ handler' = [handler EXCEPT ![h].pc = point, ![h].read = rows]

LEMMA HandlerMoves ==
  ASSUME TypeOK, NEW h \in Handlers, Busy(h), NEW point \in HandlerPoint,
         NEW rows \in SUBSET Events,
         Moves(h, point, rows)
  PROVE  /\ handler' \in [Handlers -> Invocation \cup {Idle}]
         /\ handler'[h].pc = point /\ handler'[h].message = handler[h].message
         /\ handler'[h].open = handler[h].open /\ handler'[h].instance = handler[h].instance
         /\ handler'[h].read \in {rows, handler[h].read}
         /\ point # "idle"
         /\ \A g \in Handlers \ {h} : handler'[g] = handler[g]
<1>1. handler[h] \in Invocation BY BusyHandlers
<1>2. handler \in [Handlers -> Invocation \cup {Idle}] BY DEF TypeOK
<1>3. [handler[h] EXCEPT !.pc = point] \in Invocation BY <1>1 DEF Invocation
<1>4. [handler[h] EXCEPT !.pc = point, !.read = rows] \in Invocation BY <1>1 DEF Invocation
<1>5. point # "idle" BY DEF HandlerPoint
<1>6. CASE handler' = [handler EXCEPT ![h].pc = point]
  <2>1. handler'[h] = [handler[h] EXCEPT !.pc = point]
        /\ \A g \in Handlers \ {h} : handler'[g] = handler[g]
    BY <1>2, <1>6
  <2>2. /\ handler'[h].pc = point /\ handler'[h].message = handler[h].message
        /\ handler'[h].open = handler[h].open /\ handler'[h].instance = handler[h].instance
        /\ handler'[h].read = handler[h].read
    BY <1>1, <2>1 DEF Invocation
  <2>3. handler' = [handler EXCEPT ![h] = [handler[h] EXCEPT !.pc = point]] BY <1>2, <1>6
  <2>4. handler' \in [Handlers -> Invocation \cup {Idle}] BY <1>2, <1>3, <2>3
  <2> QED BY <1>5, <2>1, <2>2, <2>4
<1>7. CASE handler' = [handler EXCEPT ![h].pc = point, ![h].read = rows]
  <2>1. handler'[h] = [handler[h] EXCEPT !.pc = point, !.read = rows]
        /\ \A g \in Handlers \ {h} : handler'[g] = handler[g]
    BY <1>2, <1>7
  <2>2. /\ handler'[h].pc = point /\ handler'[h].message = handler[h].message
        /\ handler'[h].open = handler[h].open /\ handler'[h].instance = handler[h].instance
        /\ handler'[h].read = rows
    BY <1>1, <2>1 DEF Invocation
  <2>3. handler' \in [Handlers -> Invocation \cup {Idle}] BY <1>2, <1>4, <1>7, <2>1
  <2> QED BY <1>5, <2>1, <2>2, <2>3
<1> QED BY <1>6, <1>7 DEF Moves

LEMMA HandlerEnds ==
  ASSUME TypeOK, NEW h \in Handlers, handler' = [handler EXCEPT ![h] = Idle]
  PROVE  /\ handler' \in [Handlers -> Invocation \cup {Idle}]
         /\ handler'[h].pc = "idle"
         /\ \A g \in Handlers \ {h} : handler'[g] = handler[g]
BY DEF TypeOK, Idle

(* What the broker queues again. *)
LEMMA Requeued ==
  ASSUME TypeOK, NEW unacked \in SUBSET Handlers, Requeue(unacked)
  PROVE  /\ ready' \in [Message -> Nat]
         /\ \A m \in Message : ready[m] > 0 => ready'[m] > 0
         /\ \A h \in unacked : handler[h].message \in Message => ready'[handler[h].message] > 0
         /\ \A m \in Message : ready'[m] > 0 =>
               ready[m] > 0 \/ \E h \in unacked : handler[h].message = m
<1> DEFINE of(m) == {h \in unacked : handler[h].message = m}
<1>1. IsFiniteSet(Handlers) BY EventAssumption
<1>2. ASSUME NEW m \in Message
      PROVE  /\ Cardinality(of(m)) \in Nat
             /\ of(m) # {} <=> Cardinality(of(m)) > 0
  <2>1. IsFiniteSet(of(m)) BY <1>1, FS_Subset
  <2>2. Cardinality(of(m)) \in Nat BY <2>1, FS_CardinalityType
  <2>3. Cardinality(of(m)) = 0 <=> of(m) = {} BY <2>1, FS_EmptySet
  <2> QED BY <2>2, <2>3
<1>3. ready' = [m \in Message |-> ready[m] + Cardinality(of(m))] BY DEF Requeue
<1>4. \A m \in Message : ready[m] \in Nat BY DEF TypeOK
<1>5. \A m \in Message : ready'[m] = ready[m] + Cardinality(of(m)) BY <1>3
<1>6. \A h \in unacked : h \in of(handler[h].message) OBVIOUS
<1>7. ready' \in [Message -> Nat]
  <2> HIDE DEF of
  <2>1. \A m \in Message : ready[m] + Cardinality(of(m)) \in Nat BY <1>2, <1>4
  <2> QED BY <1>3, <2>1
<1>8. \A m \in Message : ready[m] > 0 => ready'[m] > 0
  <2> HIDE DEF of
  <2> QED BY <1>2, <1>4, <1>5
<1>9. \A h \in unacked : handler[h].message \in Message => ready'[handler[h].message] > 0
  <2> SUFFICES ASSUME NEW h \in unacked, handler[h].message \in Message
               PROVE  ready'[handler[h].message] > 0
    OBVIOUS
  <2>1. of(handler[h].message) # {} BY <1>6
  <2> HIDE DEF of
  <2> QED BY <1>2, <1>4, <1>5, <2>1
<1>10. \A m \in Message : ready'[m] > 0 => ready[m] > 0 \/ of(m) # {}
  <2> HIDE DEF of
  <2> QED BY <1>2, <1>4, <1>5
<1> QED BY <1>7, <1>8, <1>9, <1>10

-----------------------------------------------------------------------------
(* An event stays tracked when each place that has it keeps it or hands it *)
(* on.                                                                     *)
LEMMA TrackingKeeps ==
  ASSUME AllTracked, UNCHANGED published, stored \subseteq stored', parked \subseteq parked',
         \A e \in Events : Queued(e) => Tracked(e)',
         \A e \in Events, h \in Handlers : Live(h, e) => Tracked(e)'
  PROVE  AllTracked'
BY DEF AllTracked, Tracked, IsParked

(* A handler moves on and the queues only grow. *)
LEMMA MovingKeepsTrack ==
  ASSUME Inv, UNCHANGED published, stored \subseteq stored', parked \subseteq parked',
         \A m \in Message : ready[m] > 0 => ready'[m] > 0,
         \A m \in Message : delayed[m] > 0 => delayed'[m] > 0,
         NEW h \in Handlers,
         \A g \in Handlers \ {h} : handler'[g] = handler[g],
         \/ Busy(h)' /\ ~ At(h, "done")' /\ handler'[h].open = handler[h].open
               /\ handler'[h].message = handler[h].message
         \/ ~ Busy(h) \/ ~ handler[h].open \/ At(h, "done")
         \/ EventOf(h) \in stored'
         \/ \E p \in parked' : p.message.event = EventOf(h)
         \/ \E m \in Message : m.event = EventOf(h) /\ (ready'[m] > 0 \/ delayed'[m] > 0)
  PROVE  AllTracked'
<1>1. ASSUME NEW e \in Events, Queued(e) PROVE Tracked(e)'
  <2>1. PICK m \in Message : m.event = e /\ (ready[m] > 0 \/ delayed[m] > 0) BY <1>1 DEF Queued
  <2>2. ready'[m] > 0 \/ delayed'[m] > 0 BY <2>1
  <2>3. Queued(e)' BY <2>1, <2>2 DEF Queued
  <2> QED BY <2>3 DEF Tracked
<1>2. ASSUME NEW e \in Events, NEW g \in Handlers, Live(g, e) PROVE Tracked(e)'
  <2>1. CASE g # h
    <3>1. Live(g, e)' BY <1>2, <2>1 DEF Live, Busy, At, EventOf
    <3> QED BY <3>1 DEF Tracked
  <2>2. CASE g = h
    <3>1. e = EventOf(h) /\ Busy(h) /\ handler[h].open /\ ~ At(h, "done") BY <1>2, <2>2 DEF Live
    <3>2. CASE Busy(h)' /\ ~ At(h, "done")' /\ handler'[h].open = handler[h].open
               /\ handler'[h].message = handler[h].message
      <4>1. Live(h, e)' BY <3>1, <3>2 DEF Live, EventOf
      <4> QED BY <4>1 DEF Tracked
    <3>3. CASE EventOf(h) \in stored' BY <3>1, <3>3 DEF Tracked
    <3>4. CASE \E p \in parked' : p.message.event = EventOf(h)
      BY <3>1, <3>4 DEF Tracked, IsParked
    <3>5. CASE \E m \in Message : m.event = EventOf(h) /\ (ready'[m] > 0 \/ delayed'[m] > 0)
      BY <3>1, <3>5 DEF Tracked, Queued
    <3> QED BY <3>1, <3>2, <3>3, <3>4, <3>5
  <2> QED BY <2>1, <2>2
<1> QED BY <1>1, <1>2, TrackingKeeps DEF Inv

(* What the other handlers know stays true as rows are only added. *)
LEMMA OthersKnow ==
  ASSUME Inv, stored \subseteq stored', NEW h \in Handlers,
         \A g \in Handlers \ {h} : handler'[g] = handler[g],
         KnowsItsEvent(h)'
  PROVE  KnowingHandlers'
BY DEF Inv, KnowingHandlers, KnowsItsEvent, Busy, At, EventOf, RetriesOf, Rejected, Exhausted

LEMMA InitInv == Init => Inv
<1> SUFFICES ASSUME Init PROVE Inv OBVIOUS
<1>1. TypeOK BY EventAssumption DEF Init, TypeOK, Message
<1>2. KnowingHandlers BY DEF Init, KnowingHandlers, KnowsItsEvent, Busy, Idle
<1>3. RetriesAreStorable /\ Reasons /\ AllTracked
  BY DEF Init, RetriesAreStorable, Reasons, AllTracked
<1> QED BY <1>1, <1>2, <1>3 DEF Inv

-----------------------------------------------------------------------------
(* The handler's steps that touch no queue. *)

LEMMA QuietStep ==
  ASSUME Inv, NEW h \in Handlers, Busy(h), NEW point \in HandlerPoint,
         NEW rows \in SUBSET Events,
         Moves(h, point, rows),
         UNCHANGED <<published, queueVars, mode, faults>>,
         stored \subseteq stored', stored' \subseteq Events,
         matched' \subseteq stored',
         rows \subseteq stored',
         point \in {"matching", "trading"} => EventOf(h) \in stored',
         point \in {"failed", "matching", "trading", "retrying"} => ~ Rejected(h),
         point = "parking" => Rejected(h) \/ Exhausted(h),
         point = "retrying" => ~ Exhausted(h),
         point = "done" => EventOf(h) \in stored'
  PROVE  Inv'
<1>1. /\ handler' \in [Handlers -> Invocation \cup {Idle}]
      /\ handler'[h].pc = point /\ handler'[h].message = handler[h].message
      /\ handler'[h].open = handler[h].open
      /\ handler'[h].read \in {rows, handler[h].read} /\ point # "idle"
      /\ \A g \in Handlers \ {h} : handler'[g] = handler[g]
  <2>1. TypeOK BY DEF Inv
  <2> QED BY <2>1, HandlerMoves
<1>2. TypeOK' BY <1>1 DEF Inv, TypeOK, queueVars
<1>3. KnowsItsEvent(h)'
  <2>1. KnowsItsEvent(h) BY DEF Inv, KnowingHandlers
  <2> QED BY <1>1, <2>1 DEF KnowsItsEvent, Busy, At, EventOf, RetriesOf, Rejected, Exhausted
<1>4. KnowingHandlers' BY <1>1, <1>3, OthersKnow
<1>5. RetriesAreStorable' /\ Reasons' BY DEF Inv, RetriesAreStorable, Reasons, queueVars
<1>6. AllTracked' BY <1>1, MovingKeepsTrack DEF queueVars, Busy, At
<1> QED BY <1>2, <1>4, <1>5, <1>6 DEF Inv

LEMMA HandlingSteps ==
  ASSUME Inv, NEW h \in Handlers,
         \/ Reject(h) \/ StoreOrder(h) \/ StoreFails(h) \/ ReadOrders(h)
         \/ MatchingDone(h) \/ MatchingFails(h) \/ HandleFailure(h)
  PROVE  Inv'
<1> USE DEF At, Goto
<1>0. TypeOK /\ KnowsItsEvent(h) BY DEF Inv, KnowingHandlers
<1>1. Busy(h)
  BY DEF Reject, StoreOrder, StoreFails, ReadOrders, MatchingDone, MatchingFails, HandleFailure, Busy
<1>2. EventOf(h) \in Events /\ RetriesOf(h) \in 0 .. MaxRetries BY <1>0, <1>1, BusyHandlers
<1>3. stored \subseteq Events /\ matched \subseteq stored BY <1>0 DEF TypeOK
<1>4. CASE Reject(h)
  <2>1. handler' = [handler EXCEPT ![h].pc = "parking"] /\ Rejected(h)
        /\ UNCHANGED <<published, queueVars, mode, faults>> /\ UNCHANGED tableVars
    BY <1>4 DEF Reject
  <2> QED BY <1>1, <1>3, <2>1, QuietStep DEF HandlerPoint, Moves, tableVars
<1>5. CASE StoreOrder(h)
  <2>1. /\ ~ Rejected(h) /\ stored' = stored \cup {EventOf(h)} /\ UNCHANGED matched
        /\ UNCHANGED <<published, queueVars, mode, faults>>
        /\ \/ handler' = [handler EXCEPT ![h].pc = "matching"]
           \/ handler' = [handler EXCEPT ![h].pc = "done"]
    BY <1>5 DEF StoreOrder
  <2> QED BY <1>1, <1>2, <1>3, <2>1, QuietStep DEF HandlerPoint, Moves
<1>6. CASE StoreFails(h)
  <2>1. /\ ~ Rejected(h) /\ stored' \in {stored, stored \cup {EventOf(h)}} /\ UNCHANGED matched
        /\ UNCHANGED <<published, queueVars, mode, faults>>
        /\ handler' = [handler EXCEPT ![h].pc = "failed"]
    BY <1>6 DEF StoreFails
  <2> QED BY <1>1, <1>2, <1>3, <2>1, QuietStep DEF HandlerPoint, Moves
<1>7. CASE ReadOrders(h)
  <2>1. /\ ~ Rejected(h) /\ EventOf(h) \in stored /\ UNCHANGED tableVars
        /\ UNCHANGED <<published, queueVars, mode, faults>>
        /\ handler' = [handler EXCEPT ![h].pc = "trading", ![h].read = stored]
    BY <1>0, <1>1, <1>7 DEF ReadOrders, KnowsItsEvent
  <2> QED BY <1>1, <1>3, <2>1, QuietStep DEF HandlerPoint, Moves, tableVars
<1>8. CASE MatchingDone(h)
  <2>1. /\ EventOf(h) \in stored /\ handler[h].read \subseteq stored
        /\ UNCHANGED stored /\ matched' = matched \cup handler[h].read
        /\ UNCHANGED <<published, queueVars, mode, faults>>
        /\ handler' = [handler EXCEPT ![h].pc = "done", ![h].read = {}]
    BY <1>0, <1>1, <1>8 DEF MatchingDone, KnowsItsEvent
  <2>2. Moves(h, "done", {}) BY <2>1 DEF Moves
  <2>3. "done" \in HandlerPoint /\ {} \in SUBSET Events BY DEF HandlerPoint
  <2>4. matched' \subseteq stored' /\ stored \subseteq stored' /\ stored' \subseteq Events
    BY <1>3, <2>1
  <2> QED BY <1>1, <2>1, <2>2, <2>3, <2>4, QuietStep
<1>9. CASE MatchingFails(h)
  <2>1. /\ ~ Rejected(h) /\ UNCHANGED tableVars
        /\ UNCHANGED <<published, queueVars, mode, faults>>
        /\ handler' = [handler EXCEPT ![h].pc = "failed", ![h].read = {}]
    BY <1>0, <1>1, <1>9 DEF MatchingFails, KnowsItsEvent
  <2>2. Moves(h, "failed", {}) BY <2>1 DEF Moves
  <2>3. "failed" \in HandlerPoint /\ {} \in SUBSET Events BY DEF HandlerPoint
  <2>4. matched' \subseteq stored' /\ stored \subseteq stored' /\ stored' \subseteq Events
    BY <1>3, <2>1 DEF tableVars
  <2> QED BY <1>1, <2>1, <2>2, <2>3, <2>4, QuietStep
<1>10. CASE HandleFailure(h)
  <2>1. /\ ~ Rejected(h) /\ UNCHANGED tableVars
        /\ UNCHANGED <<published, queueVars, mode, faults>>
        /\ \/ Exhausted(h) /\ handler' = [handler EXCEPT ![h].pc = "parking"]
           \/ ~ Exhausted(h) /\ handler' = [handler EXCEPT ![h].pc = "retrying"]
    BY <1>0, <1>1, <1>10 DEF HandleFailure, KnowsItsEvent
  <2> QED BY <1>1, <1>3, <2>1, QuietStep DEF HandlerPoint, Moves, tableVars
<1> QED BY <1>4, <1>5, <1>6, <1>7, <1>8, <1>9, <1>10

-----------------------------------------------------------------------------
(* The handler's steps that publish or settle a message. *)

LEMMA Adding ==
  ASSUME NEW queue \in [Message -> Nat], NEW m \in Message
  PROVE  /\ Add(queue, m) \in [Message -> Nat] /\ Add(queue, m)[m] > 0
         /\ \A x \in Message : queue[x] > 0 => Add(queue, m)[x] > 0
         /\ \A x \in Message : Add(queue, m)[x] > 0 => queue[x] > 0 \/ x = m
BY DEF Add

LEMMA Removing ==
  ASSUME NEW queue \in [Message -> Nat], NEW m \in Message, queue[m] > 0
  PROVE  /\ Remove(queue, m) \in [Message -> Nat]
         /\ \A x \in Message : Remove(queue, m)[x] > 0 => queue[x] > 0
         /\ \A x \in Message : x # m => Remove(queue, m)[x] = queue[x]
BY DEF Remove

LEMMA CopyIsMessage ==
  ASSUME TypeOK, NEW h \in Handlers, Busy(h), ~ Exhausted(h)
  PROVE  /\ Copy(h) \in Message /\ Copy(h).event = EventOf(h) /\ Copy(h).retries > 0
<1>1. EventOf(h) \in Events /\ RetriesOf(h) \in 0 .. MaxRetries BY BusyHandlers
<1>2. RetriesOf(h) + 1 \in 0 .. MaxRetries BY <1>1, Numbers DEF Exhausted
<1> QED BY <1>1, <1>2, Numbers DEF Copy, Message

LEMMA ParkedIsTrue ==
  ASSUME TypeOK, NEW h \in Handlers, KnowsItsEvent(h), At(h, "parking")
  PROVE  /\ ParkedAs(h) \in [message : Message, reason : Reason]
         /\ ParkedAs(h).message.event = EventOf(h)
         /\ ParkedAs(h).reason = "exhausted" => ParkedAs(h).message.retries = MaxRetries
         /\ ParkedAs(h).reason = "unprocessable" => ~ Storable(Body[EventOf(h)])
                                                    \/ Body[EventOf(h)].version > 1
<1>1. Busy(h) BY DEF At, Busy
<1>2. handler[h].message \in Message /\ EventOf(h) \in Events /\ RetriesOf(h) \in 0 .. MaxRetries
  BY <1>1, BusyHandlers
<1>3. ParkedAs(h) \in [message : Message, reason : Reason] BY <1>2 DEF ParkedAs, Reason
<1>4. ParkedAs(h).message = handler[h].message BY DEF ParkedAs
<1>5. CASE Rejected(h)
  <2>1. ParkedAs(h).reason = "unprocessable" BY <1>5 DEF ParkedAs
  <2>2. ~ Storable(Body[EventOf(h)]) \/ Body[EventOf(h)].version > 1
    BY <1>2, <1>5, RejectedForAReason DEF Rejected
  <2> QED BY <1>3, <1>4, <2>1, <2>2 DEF EventOf
<1>6. CASE ~ Rejected(h)
  <2>1. ParkedAs(h).reason = "exhausted" BY <1>6 DEF ParkedAs
  <2>2. Exhausted(h) BY <1>1, <1>6 DEF KnowsItsEvent
  <2>3. RetriesOf(h) = MaxRetries BY <1>2, <2>2, Numbers DEF Exhausted
  <2> QED BY <1>3, <1>4, <2>1, <2>3 DEF EventOf, RetriesOf
<1> QED BY <1>5, <1>6

(* A copy in a retry queue, an entry in the dead letter queue, or neither  *)
(* because the publish failed on its way.                                  *)
LEMMA PublishingSteps ==
  ASSUME Inv, NEW h \in Handlers, ScheduleRetry(h) \/ Park(h) \/ PublishFails(h)
  PROVE  Inv'
<1> USE DEF At, Goto
<1>0. TypeOK /\ KnowsItsEvent(h) BY DEF Inv, KnowingHandlers
<1>1. Busy(h) BY DEF ScheduleRetry, Park, PublishFails, Busy
<1>2. PICK point \in {"done", "throwing"} :
        /\ handler' = [handler EXCEPT ![h].pc = point]
        /\ UNCHANGED <<published, ready, tableVars, mode, faults>>
        /\ \/ At(h, "retrying") /\ delayed' = Add(delayed, Copy(h)) /\ UNCHANGED parked
           \/ At(h, "parking") /\ parked' = parked \cup {ParkedAs(h)} /\ UNCHANGED delayed
           \/ point = "throwing" /\ UNCHANGED <<delayed, parked>>
  BY DEF ScheduleRetry, Park, PublishFails
<1>3. Moves(h, point, {}) /\ point \in HandlerPoint /\ {} \in SUBSET Events
  BY <1>2 DEF Moves, HandlerPoint
<1>4. /\ handler' \in [Handlers -> Invocation \cup {Idle}]
      /\ handler'[h].pc = point /\ handler'[h].message = handler[h].message
      /\ handler'[h].open = handler[h].open
      /\ handler'[h].read \in {{}, handler[h].read} /\ point # "idle"
      /\ \A g \in Handlers \ {h} : handler'[g] = handler[g]
  BY <1>0, <1>1, <1>3, HandlerMoves
<1>5. /\ delayed' \in [Message -> Nat]
      /\ \A m \in Message : delayed[m] > 0 => delayed'[m] > 0
      /\ \A m \in Message : delayed'[m] > 0 /\ m.retries > 0 => Storable(Body[m.event])
      /\ point = "done" /\ At(h, "retrying") =>
            \E m \in Message : m.event = EventOf(h) /\ delayed'[m] > 0
  <2>1. delayed \in [Message -> Nat] BY <1>0 DEF TypeOK
  <2>2. \A m \in Message : delayed[m] > 0 /\ m.retries > 0 => Storable(Body[m.event])
    BY DEF Inv, RetriesAreStorable
  <2>3. CASE At(h, "retrying") /\ delayed' = Add(delayed, Copy(h))
    <3>1. ~ Exhausted(h) /\ ~ Rejected(h) BY <1>0, <1>1, <2>3 DEF KnowsItsEvent
    <3>2. Copy(h) \in Message /\ Copy(h).event = EventOf(h) BY <1>0, <1>1, <3>1, CopyIsMessage
    <3>3. Storable(Body[EventOf(h)])
      <4>1. EventOf(h) \in Events BY <1>0, <1>1, BusyHandlers
      <4> QED BY <3>1, <4>1, AcceptedIsStorable DEF Rejected
    <3> QED BY <2>1, <2>2, <2>3, <3>2, <3>3, Adding
  <2>4. CASE UNCHANGED delayed
    BY <1>2, <2>1, <2>2, <2>4, <2>3
  <2> QED BY <1>2, <2>3, <2>4
<1>6. /\ parked' \subseteq [message : Message, reason : Reason] /\ parked \subseteq parked'
      /\ Reasons'
      /\ point = "done" /\ At(h, "parking") => \E p \in parked' : p.message.event = EventOf(h)
  <2>1. parked \subseteq [message : Message, reason : Reason] /\ Reasons BY DEF Inv, TypeOK
  <2>2. CASE At(h, "parking") /\ parked' = parked \cup {ParkedAs(h)}
    BY <1>0, <2>1, <2>2, ParkedIsTrue DEF Reasons
  <2>3. CASE UNCHANGED parked BY <1>2, <2>1, <2>2, <2>3 DEF Reasons
  <2> QED BY <1>2, <2>2, <2>3
<1>7. TypeOK' BY <1>0, <1>2, <1>4, <1>5, <1>6 DEF TypeOK, tableVars
<1>8. KnowsItsEvent(h)'
  BY <1>0, <1>1, <1>2, <1>4
  DEF KnowsItsEvent, Busy, At, EventOf, RetriesOf, Rejected, Exhausted, tableVars
<1>9. KnowingHandlers' BY <1>2, <1>4, <1>8, OthersKnow DEF tableVars
<1>10. RetriesAreStorable' BY <1>2, <1>5 DEF Inv, RetriesAreStorable
<1>11. AllTracked'
  <2>1. UNCHANGED <<published, ready, stored>> BY <1>2 DEF tableVars
  <2>2. \/ point = "throwing"
        \/ \E p \in parked' : p.message.event = EventOf(h)
        \/ \E m \in Message : m.event = EventOf(h) /\ (ready'[m] > 0 \/ delayed'[m] > 0)
    BY <1>2, <1>5, <1>6
  <2>3. point = "throwing" => Busy(h)' /\ ~ At(h, "done")' BY <1>4 DEF Busy
  <2> QED BY <1>4, <1>5, <1>6, <2>1, <2>2, <2>3, MovingKeepsTrack
<1> QED BY <1>6, <1>7, <1>9, <1>10, <1>11 DEF Inv

LEMMA SettlingSteps ==
  ASSUME Inv, NEW h \in Handlers, Acknowledge(h) \/ NackUnlessChannelClosed(h)
  PROVE  Inv'
<1> USE DEF At
<1>0. TypeOK BY DEF Inv
<1>1. Busy(h) BY DEF Acknowledge, NackUnlessChannelClosed, Busy
<1>2. /\ handler' = [handler EXCEPT ![h] = Idle]
      /\ UNCHANGED <<published, ready, delayed, tableVars, mode, faults>>
      /\ \/ At(h, "done") /\ UNCHANGED parked
         \/ ~ handler[h].open /\ UNCHANGED parked
         \/ parked' = parked \cup {[message |-> handler[h].message, reason |-> "thrown"]}
  BY DEF Acknowledge, NackUnlessChannelClosed, queueVars
<1>3. /\ handler' \in [Handlers -> Invocation \cup {Idle}] /\ handler'[h].pc = "idle"
      /\ \A g \in Handlers \ {h} : handler'[g] = handler[g]
  BY <1>0, <1>2, HandlerEnds
<1>4. handler[h].message \in Message BY <1>0, <1>1, BusyHandlers
<1>5. /\ parked' \subseteq [message : Message, reason : Reason] /\ parked \subseteq parked' /\ Reasons'
      /\ \/ At(h, "done") \/ ~ handler[h].open
         \/ \E p \in parked' : p.message.event = EventOf(h)
  <2>1. parked \subseteq [message : Message, reason : Reason] /\ Reasons BY DEF Inv, TypeOK
  <2>2. CASE UNCHANGED parked /\ (At(h, "done") \/ ~ handler[h].open)
    BY <2>1, <2>2 DEF Reasons
  <2>3. CASE parked' = parked \cup {[message |-> handler[h].message, reason |-> "thrown"]}
    <3> DEFINE p == [message |-> handler[h].message, reason |-> "thrown"]
    <3>1. p \in [message : Message, reason : Reason] BY <1>4 DEF Reason
    <3>2. p.reason = "thrown" /\ p.message = handler[h].message OBVIOUS
    <3>3. p \in parked' /\ parked' = parked \cup {p} BY <2>3
    <3> HIDE DEF p
    <3>4. Reasons' BY <2>1, <3>2, <3>3 DEF Reasons
    <3> QED BY <2>1, <3>1, <3>2, <3>3, <3>4 DEF EventOf
  <2> QED BY <1>2, <2>2, <2>3
<1>6. TypeOK' BY <1>0, <1>2, <1>3, <1>5 DEF TypeOK, tableVars
<1>7. KnowingHandlers' BY <1>2, <1>3, OthersKnow DEF KnowsItsEvent, Busy, tableVars
<1>8. RetriesAreStorable' BY <1>2 DEF Inv, RetriesAreStorable
<1>9. AllTracked'
  <2>1. UNCHANGED <<published, ready, delayed, stored>> BY <1>2 DEF tableVars
  <2> QED BY <1>3, <1>5, <2>1, MovingKeepsTrack
<1> QED BY <1>5, <1>6, <1>7, <1>8, <1>9 DEF Inv
-----------------------------------------------------------------------------
(* The outbox, the broker, faults and shutdowns. *)

(* The handlers and the tables are as they were. *)
LEMMA BystandersKnow ==
  ASSUME Inv, UNCHANGED <<handler, tableVars>>
  PROVE  KnowingHandlers'
BY DEF Inv, KnowingHandlers, KnowsItsEvent, Busy, At, EventOf, RetriesOf, Rejected, Exhausted,
       tableVars

LEMMA PublishStep ==
  ASSUME Inv, NEW e \in Events, Publish(e)
  PROVE  Inv'
<1>0. TypeOK BY DEF Inv
<1>1. Fresh(e) \in Message /\ Fresh(e).event = e /\ Fresh(e).retries = 0
  BY Numbers DEF Fresh, Message
<1>2. /\ published' = [published EXCEPT ![e] = @ + 1] /\ ready' = Add(ready, Fresh(e))
      /\ published[e] < MaxPublished
      /\ UNCHANGED <<delayed, parked, tableVars, handler, mode, faults>>
  BY DEF Publish
<1>3. /\ ready' \in [Message -> Nat] /\ ready'[Fresh(e)] > 0
      /\ \A x \in Message : ready[x] > 0 => ready'[x] > 0
      /\ \A x \in Message : ready'[x] > 0 => ready[x] > 0 \/ x = Fresh(e)
  BY <1>0, <1>1, <1>2, Adding DEF TypeOK
<1>4. published' \in [Events -> 0 .. MaxPublished]
      /\ \A x \in Events : x # e => published'[x] = published[x]
  BY <1>0, <1>2, Numbers DEF TypeOK
<1>5. TypeOK' BY <1>0, <1>2, <1>3, <1>4 DEF TypeOK, tableVars
<1>6. KnowingHandlers' BY <1>2, BystandersKnow
<1>7. RetriesAreStorable' BY <1>1, <1>2, <1>3 DEF Inv, RetriesAreStorable
<1>8. Reasons' BY <1>2 DEF Inv, Reasons
<1>9. AllTracked'
  <2> SUFFICES ASSUME NEW x \in Events, published'[x] > 0 PROVE Tracked(x)'
    BY DEF AllTracked
  <2>1. CASE x = e BY <1>1, <1>3, <2>1 DEF Tracked, Queued
  <2>2. CASE x # e
    <3>1. Tracked(x) BY <1>4, <2>2 DEF Inv, AllTracked
    <3>2. Queued(x) => Queued(x)' BY <1>2, <1>3 DEF Queued
    <3> QED BY <1>2, <3>1, <3>2
        DEF Tracked, IsParked, Live, Busy, At, EventOf, tableVars
  <2> QED BY <2>1, <2>2
<1> QED BY <1>5, <1>6, <1>7, <1>8, <1>9 DEF Inv

LEMMA ExpireStep ==
  ASSUME Inv, NEW m \in Message, Expire(m)
  PROVE  Inv'
<1>0. TypeOK BY DEF Inv
<1>1. /\ delayed' = Remove(delayed, m) /\ ready' = Add(ready, m) /\ delayed[m] > 0
      /\ UNCHANGED <<published, parked, tableVars, handler, mode, faults>>
  BY DEF Expire
<1>2. /\ ready' \in [Message -> Nat] /\ ready'[m] > 0
      /\ \A x \in Message : ready[x] > 0 => ready'[x] > 0
      /\ \A x \in Message : ready'[x] > 0 => ready[x] > 0 \/ x = m
  BY <1>0, <1>1, Adding DEF TypeOK
<1>3. /\ delayed' \in [Message -> Nat]
      /\ \A x \in Message : delayed'[x] > 0 => delayed[x] > 0
      /\ \A x \in Message : x # m => delayed'[x] = delayed[x]
  BY <1>0, <1>1, Removing DEF TypeOK
<1>4. TypeOK' BY <1>0, <1>1, <1>2, <1>3 DEF TypeOK, tableVars
<1>5. KnowingHandlers' BY <1>1, BystandersKnow
<1>6. RetriesAreStorable' BY <1>1, <1>2, <1>3 DEF Inv, RetriesAreStorable
<1>7. Reasons' BY <1>1 DEF Inv, Reasons
<1>8. ASSUME NEW e \in Events, Queued(e) PROVE Tracked(e)'
  <2>1. PICK x \in Message : x.event = e /\ (ready[x] > 0 \/ delayed[x] > 0) BY <1>8 DEF Queued
  <2>2. ready'[x] > 0 \/ delayed'[x] > 0 BY <1>2, <1>3, <2>1
  <2>3. Queued(e)' BY <2>1, <2>2 DEF Queued
  <2> QED BY <2>3 DEF Tracked
<1>9. ASSUME NEW e \in Events, NEW h \in Handlers, Live(h, e) PROVE Tracked(e)'
  BY <1>1, <1>9 DEF Tracked, Live, Busy, At, EventOf
<1>10. AllTracked' BY <1>1, <1>8, <1>9, TrackingKeeps DEF Inv, tableVars
<1> QED BY <1>4, <1>5, <1>6, <1>7, <1>10 DEF Inv

LEMMA DeliverStep ==
  ASSUME Inv, NEW h \in Handlers, NEW i \in Instances, NEW m \in Message, Deliver(h, i, m)
  PROVE  Inv'
<1>0. TypeOK BY DEF Inv
<1> DEFINE new == [pc |-> "received", message |-> m, instance |-> i, open |-> TRUE, read |-> {}]
<1>1. /\ ~ Busy(h) /\ ready[m] > 0 /\ ready' = Remove(ready, m)
      /\ handler' = [handler EXCEPT ![h] = new]
      /\ UNCHANGED <<published, delayed, parked, tableVars, mode, faults>>
  BY DEF Deliver
<1>2. new \in Invocation BY DEF Invocation, HandlerPoint
<1>3. new.pc = "received" /\ new.message = m /\ new.open = TRUE /\ new.read = {} OBVIOUS
<1>4. /\ handler'[h] = new /\ handler' \in [Handlers -> Invocation \cup {Idle}]
      /\ \A g \in Handlers \ {h} : handler'[g] = handler[g]
  <2> HIDE DEF new
  <2> QED BY <1>0, <1>1, <1>2 DEF TypeOK
<1> HIDE DEF new
<1>5. /\ ready' \in [Message -> Nat]
      /\ \A x \in Message : ready'[x] > 0 => ready[x] > 0
      /\ \A x \in Message : x # m => ready'[x] = ready[x]
  BY <1>0, <1>1, Removing DEF TypeOK
<1>6. TypeOK' BY <1>0, <1>1, <1>4, <1>5 DEF TypeOK, tableVars
<1>7. m.retries > 0 => Storable(Body[m.event]) BY <1>1 DEF Inv, RetriesAreStorable
<1>8. KnowsItsEvent(h)'
  BY <1>3, <1>4, <1>7 DEF KnowsItsEvent, Busy, At, EventOf, RetriesOf, Rejected, Exhausted
<1>9. KnowingHandlers' BY <1>1, <1>4, <1>8, OthersKnow DEF tableVars
<1>10. RetriesAreStorable' BY <1>1, <1>5 DEF Inv, RetriesAreStorable
<1>11. Reasons' BY <1>1 DEF Inv, Reasons
<1>12. ASSUME NEW e \in Events, Queued(e) PROVE Tracked(e)'
  <2>1. PICK x \in Message : x.event = e /\ (ready[x] > 0 \/ delayed[x] > 0) BY <1>12 DEF Queued
  <2>2. CASE x = m
    <3>1. Live(h, e)' BY <1>3, <1>4, <2>1, <2>2 DEF Live, Busy, At, EventOf
    <3> QED BY <3>1 DEF Tracked
  <2>3. CASE x # m
    <3>1. Queued(e)' BY <1>1, <1>5, <2>1, <2>3 DEF Queued
    <3> QED BY <3>1 DEF Tracked
  <2> QED BY <2>2, <2>3
<1>13. ASSUME NEW e \in Events, NEW g \in Handlers, Live(g, e) PROVE Tracked(e)'
  <2>1. g # h BY <1>1, <1>13 DEF Live
  <2>2. Live(g, e)' BY <1>4, <1>13, <2>1 DEF Live, Busy, At, EventOf
  <2> QED BY <2>2 DEF Tracked
<1>14. AllTracked' BY <1>1, <1>12, <1>13, TrackingKeeps DEF Inv, tableVars
<1> QED BY <1>6, <1>9, <1>10, <1>11, <1>14 DEF Inv

(* The channels of the deliveries in lost close: the broker queues again   *)
(* what was not acknowledged on them, and the handlers go on or die.       *)
LEMMA RequeueingStep ==
  ASSUME Inv, NEW i \in Instances, Requeue(Unacked(i)),
         handler' \in [Handlers -> Invocation \cup {Idle}],
         KnowingHandlers', \A g \in Handlers : g \notin InProgress(i) => handler'[g] = handler[g],
         mode' \in [Instances -> {"running", "stopping", "down"}],
         faults' \in [crashes : 0 .. MaxCrashes, drops : 0 .. MaxDrops, stops : 0 .. MaxStops],
         UNCHANGED <<published, delayed, parked, tableVars>>
  PROVE  Inv'
<1>0. TypeOK BY DEF Inv
<1>1. Unacked(i) \in SUBSET Handlers BY DEF Unacked, InProgress
<1>2. \A g \in Unacked(i) : Busy(g) /\ handler[g].message \in Message
  BY <1>0, BusyHandlers DEF Unacked, InProgress
<1>3. /\ ready' \in [Message -> Nat]
      /\ \A m \in Message : ready[m] > 0 => ready'[m] > 0
      /\ \A h \in Unacked(i) : handler[h].message \in Message => ready'[handler[h].message] > 0
      /\ \A m \in Message : ready'[m] > 0 =>
            ready[m] > 0 \/ \E h \in Unacked(i) : handler[h].message = m
  BY <1>0, <1>1, Requeued
<1>4. TypeOK' BY <1>0, <1>3 DEF TypeOK, tableVars
<1>5. RetriesAreStorable'
  <2> SUFFICES ASSUME NEW m \in Message, ready'[m] > 0 \/ delayed[m] > 0, m.retries > 0
               PROVE  Storable(Body[m.event])
    BY DEF RetriesAreStorable
  <2>1. CASE ready[m] > 0 \/ delayed[m] > 0 BY <2>1 DEF Inv, RetriesAreStorable
  <2>2. CASE \E h \in Unacked(i) : handler[h].message = m
    <3>1. PICK h \in Unacked(i) : handler[h].message = m BY <2>2
    <3>2. h \in Handlers /\ KnowsItsEvent(h) BY <1>1 DEF Inv, KnowingHandlers
    <3> QED BY <1>2, <3>1, <3>2 DEF KnowsItsEvent, RetriesOf, EventOf
  <2> QED BY <1>3, <2>1, <2>2
<1>6. Reasons' BY DEF Inv, Reasons
<1>7. ASSUME NEW e \in Events, Queued(e) PROVE Tracked(e)'
  BY <1>3, <1>7 DEF Tracked, Queued
<1>8. ASSUME NEW e \in Events, NEW h \in Handlers, Live(h, e) PROVE Tracked(e)'
  <2>1. CASE h \in Unacked(i)
    <3>1. handler[h].message.event = e BY <1>8 DEF Live, EventOf
    <3>2. Queued(e)' BY <1>2, <1>3, <2>1, <3>1 DEF Queued
    <3> QED BY <3>2 DEF Tracked
  <2>2. CASE h \notin Unacked(i)
    <3>1. h \notin InProgress(i) BY <1>8, <2>2 DEF Live, Unacked
    <3>2. handler'[h] = handler[h] BY <3>1
    <3>3. Live(h, e)' BY <1>8, <3>2 DEF Live, Busy, At, EventOf
    <3> QED BY <3>3 DEF Tracked
  <2> QED BY <2>1, <2>2
<1>9. AllTracked' BY <1>7, <1>8, TrackingKeeps DEF Inv, tableVars
<1> QED BY <1>4, <1>5, <1>6, <1>9 DEF Inv

LEMMA DropStep ==
  ASSUME Inv, NEW i \in Instances, Drop(i)
  PROVE  Inv'
<1>0. TypeOK /\ KnowingHandlers BY DEF Inv
<1>1. /\ Requeue(Unacked(i)) /\ faults.drops < MaxDrops
      /\ handler' = [h \in Handlers |-> IF h \in Unacked(i)
                                        THEN [handler[h] EXCEPT !.open = FALSE]
                                        ELSE handler[h]]
      /\ faults' = [faults EXCEPT !.drops = @ + 1]
      /\ UNCHANGED <<published, delayed, parked, tableVars, mode>>
  BY DEF Drop
<1>2. ASSUME NEW h \in Handlers
      PROVE  /\ handler'[h] \in Invocation \cup {Idle}
             /\ KnowsItsEvent(h)'
             /\ h \notin InProgress(i) => handler'[h] = handler[h]
  <2>1. CASE h \in Unacked(i)
    <3>1. Busy(h) /\ h \in InProgress(i) BY <2>1 DEF Unacked, InProgress
    <3>2. handler[h] \in Invocation /\ handler[h].pc # "idle" BY <1>0, <3>1, BusyHandlers DEF Busy
    <3>3. handler'[h] = [handler[h] EXCEPT !.open = FALSE] BY <1>1, <2>1
    <3>4. /\ handler'[h] \in Invocation /\ handler'[h].pc = handler[h].pc
          /\ handler'[h].message = handler[h].message /\ handler'[h].read = handler[h].read
      BY <3>2, <3>3 DEF Invocation
    <3>5. KnowsItsEvent(h) /\ UNCHANGED stored BY <1>0, <1>1 DEF KnowingHandlers, tableVars
    <3>6. KnowsItsEvent(h)'
      BY <3>1, <3>4, <3>5
      DEF KnowsItsEvent, Busy, At, EventOf, RetriesOf, Rejected, Exhausted
    <3> QED BY <3>1, <3>4, <3>6
  <2>2. CASE h \notin Unacked(i)
    <3>1. handler'[h] = handler[h] BY <1>1, <2>2
    <3>2. KnowsItsEvent(h) /\ UNCHANGED stored BY <1>0, <1>1 DEF KnowingHandlers, tableVars
    <3>3. KnowsItsEvent(h)'
      BY <3>1, <3>2 DEF KnowsItsEvent, Busy, At, EventOf, RetriesOf, Rejected, Exhausted
    <3>4. handler'[h] \in Invocation \cup {Idle} BY <1>0, <3>1 DEF TypeOK
    <3> QED BY <3>1, <3>3, <3>4
  <2> QED BY <2>1, <2>2
<1>3. handler' \in [Handlers -> Invocation \cup {Idle}] BY <1>1, <1>2
<1>4. faults' \in [crashes : 0 .. MaxCrashes, drops : 0 .. MaxDrops, stops : 0 .. MaxStops]
  BY <1>0, <1>1, Numbers DEF TypeOK
<1>5. mode' \in [Instances -> {"running", "stopping", "down"}] BY <1>0, <1>1 DEF TypeOK
<1>6. KnowingHandlers' BY <1>2 DEF KnowingHandlers
<1> QED BY <1>1, <1>2, <1>3, <1>4, <1>5, <1>6, RequeueingStep

LEMMA CrashStep ==
  ASSUME Inv, NEW i \in Instances, Crash(i)
  PROVE  Inv'
<1>0. TypeOK /\ KnowingHandlers BY DEF Inv
<1>1. /\ Requeue(Unacked(i)) /\ faults.crashes < MaxCrashes
      /\ handler' = [h \in Handlers |-> IF h \in InProgress(i) THEN Idle ELSE handler[h]]
      /\ mode' = [mode EXCEPT ![i] = "down"]
      /\ faults' = [faults EXCEPT !.crashes = @ + 1]
      /\ UNCHANGED <<published, delayed, parked, tableVars>>
  BY DEF Crash
<1>2. ASSUME NEW h \in Handlers
      PROVE  /\ handler'[h] \in Invocation \cup {Idle}
             /\ KnowsItsEvent(h)'
             /\ h \notin InProgress(i) => handler'[h] = handler[h]
  <2>1. CASE h \in InProgress(i)
    <3>1. handler'[h] = Idle BY <1>1, <2>1
    <3>2. ~ Busy(h)' BY <3>1 DEF Busy, Idle
    <3> QED BY <2>1, <3>1, <3>2 DEF KnowsItsEvent
  <2>2. CASE h \notin InProgress(i)
    <3>1. handler'[h] = handler[h] BY <1>1, <2>2
    <3>2. KnowsItsEvent(h) /\ UNCHANGED stored BY <1>0, <1>1 DEF KnowingHandlers, tableVars
    <3>3. KnowsItsEvent(h)'
      BY <3>1, <3>2 DEF KnowsItsEvent, Busy, At, EventOf, RetriesOf, Rejected, Exhausted
    <3>4. handler'[h] \in Invocation \cup {Idle} BY <1>0, <3>1 DEF TypeOK
    <3> QED BY <3>1, <3>3, <3>4
  <2> QED BY <2>1, <2>2
<1>3. handler' \in [Handlers -> Invocation \cup {Idle}] BY <1>1, <1>2
<1>4. faults' \in [crashes : 0 .. MaxCrashes, drops : 0 .. MaxDrops, stops : 0 .. MaxStops]
  BY <1>0, <1>1, Numbers DEF TypeOK
<1>5. mode' \in [Instances -> {"running", "stopping", "down"}] BY <1>0, <1>1 DEF TypeOK
<1>6. KnowingHandlers' BY <1>2 DEF KnowingHandlers
<1> QED BY <1>1, <1>2, <1>3, <1>4, <1>5, <1>6, RequeueingStep

(* A start, a cancelled consumer and a closed connection touch no message. *)
LEMMA ModeSteps ==
  ASSUME Inv, NEW i \in Instances, Start(i) \/ BeginShutdown(i) \/ CloseAfterDrain(i)
  PROVE  Inv'
<1>0. TypeOK BY DEF Inv
<1>1. /\ UNCHANGED <<published, queueVars, tableVars, handler>>
      /\ \E to \in {"running", "stopping", "down"} : mode' = [mode EXCEPT ![i] = to]
      /\ \/ UNCHANGED faults
         \/ faults.stops < MaxStops /\ faults' = [faults EXCEPT !.stops = @ + 1]
  BY DEF Start, BeginShutdown, CloseAfterDrain
<1>2. mode' \in [Instances -> {"running", "stopping", "down"}] BY <1>0, <1>1 DEF TypeOK
<1>3. faults' \in [crashes : 0 .. MaxCrashes, drops : 0 .. MaxDrops, stops : 0 .. MaxStops]
  BY <1>0, <1>1, Numbers DEF TypeOK
<1>4. TypeOK' BY <1>0, <1>1, <1>2, <1>3 DEF TypeOK, queueVars, tableVars
<1>5. KnowingHandlers' BY <1>1, BystandersKnow
<1>6. RetriesAreStorable' /\ Reasons'
  BY <1>1 DEF Inv, RetriesAreStorable, Reasons, queueVars
<1>7. AllTracked'
  BY <1>1 DEF Inv, AllTracked, Tracked, IsParked, Queued, Live, Busy, At, EventOf, queueVars,
              tableVars
<1> QED BY <1>4, <1>5, <1>6, <1>7 DEF Inv

-----------------------------------------------------------------------------
LEMMA InvStep == Inv /\ [Next]_vars => Inv'
<1> SUFFICES ASSUME Inv, [Next]_vars PROVE Inv' OBVIOUS
<1>1. ASSUME NEW h \in Handlers, Handle(h) PROVE Inv'
  BY <1>1, HandlingSteps, PublishingSteps, SettlingSteps DEF Handle
<1>2. ASSUME NEW i \in Instances,
             Drop(i) \/ Crash(i) \/ Start(i) \/ BeginShutdown(i) \/ CloseAfterDrain(i)
      PROVE  Inv'
  BY <1>2, DropStep, CrashStep, ModeSteps
<1>3. CASE UNCHANGED vars
  <2>1. /\ UNCHANGED <<published, ready, delayed, parked, stored, matched>>
        /\ UNCHANGED <<handler, mode, faults>>
    BY <1>3 DEF vars, queueVars, tableVars
  <2>2. KnowingHandlers' BY <2>1, BystandersKnow DEF tableVars
  <2>3. TypeOK' BY <2>1 DEF Inv, TypeOK
  <2>4. RetriesAreStorable' /\ Reasons' BY <2>1 DEF Inv, RetriesAreStorable, Reasons
  <2>5. AllTracked'
    BY <2>1 DEF Inv, AllTracked, Tracked, IsParked, Queued, Live, Busy, At, EventOf
  <2> QED BY <2>2, <2>3, <2>4, <2>5 DEF Inv
<1> QED BY <1>1, <1>2, <1>3, PublishStep, ExpireStep, DeliverStep DEF Next

LEMMA SpecInv == Spec => []Inv
<1> QED BY InitInv, InvStep, PTL DEF Spec

(* The queues, tables and handlers keep their types. *)
THEOREM EventsTypeCorrect == Spec => []TypeOK
<1>1. Inv => TypeOK BY DEF Inv
<1> QED BY <1>1, SpecInv, PTL

(* An event the outbox has published is stored, parked, or with the        *)
(* broker, however many handlers, processes and connections fail: the copy *)
(* is confirmed before the original is acknowledged (scheduleRetry,        *)
(* parkInDeadLetterQueue), and the row is there before its message goes.   *)
THEOREM NoEventIsDropped == Spec => []NothingDropped
<1>1. Inv => NothingDropped
  <2> SUFFICES ASSUME Inv, NEW e \in Events, published[e] > 0,
                      e \notin stored, ~ IsParked(e)
               PROVE  \E m \in AtBroker : m.event = e
    BY DEF NothingDropped
  <2>1. Queued(e) \/ \E h \in Handlers : Live(h, e) BY DEF Inv, AllTracked, Tracked
  <2>2. CASE Queued(e) BY <2>2 DEF Queued, AtBroker
  <2>3. CASE \E h \in Handlers : Live(h, e)
    <3>1. PICK h \in Handlers : Live(h, e) BY <2>3
    <3>2. handler[h].message \in Message BY <3>1, BusyHandlers DEF Live, Inv
    <3> QED BY <3>1, <3>2 DEF Live, AtBroker, EventOf
  <2> QED BY <2>1, <2>2, <2>3
<1> QED BY <1>1, SpecInv, PTL

(* What lies in the dead letter queue is there for the reason its header   *)
(* gives, and what is retried could be stored (handleEnergyEvent).         *)
THEOREM DeadLettersAreTrue == Spec => []ParkedForAReason
<1>1. Inv => ParkedForAReason
  <2> SUFFICES ASSUME Inv PROVE ParkedForAReason OBVIOUS
  <2>1. ASSUME NEW m \in AtBroker, m.retries > 0 PROVE Storable(Body[m.event])
    <3>1. m \in Message BY DEF AtBroker
    <3>2. CASE ready[m] > 0 \/ delayed[m] > 0
      BY <2>1, <3>1, <3>2 DEF Inv, RetriesAreStorable
    <3>3. CASE \E h \in Handlers : Busy(h) /\ handler[h].open /\ handler[h].message = m
      BY <2>1, <3>3 DEF Inv, KnowingHandlers, KnowsItsEvent, RetriesOf, EventOf
    <3> QED BY <3>2, <3>3 DEF AtBroker
  <2> QED BY <2>1 DEF Inv, Reasons, ParkedForAReason
<1> QED BY <1>1, SpecInv, PTL

-----------------------------------------------------------------------------
(* The history of the deliveries takes no step of its own. *)
LEMMA HistoryOnlyWatches == HistSpec => Spec
<1>1. HistInit => Init BY DEF HistInit
<1>2. [HistNext]_histVars => [Next]_vars BY DEF HistNext, histVars, vars
<1> QED BY <1>1, <1>2, PTL DEF HistSpec, Spec

(* The lost handlers of a step are in the history. *)
LossesNoted == /\ abandoned \subseteq abandoned'
               /\ \A h \in Handlers : CutShort(h) => EventOf(h) \in abandoned'

LEMMA HistoryNotesLosses ==
  ASSUME [HistNext]_histVars
  PROVE  LossesNoted
<1>1. CASE HistNext
  <2>1. abandoned' = abandoned \cup {EventOf(h) : h \in {g \in Handlers : CutShort(g)}}
    BY <1>1 DEF HistNext
  <2> HIDE DEF CutShort
  <2> QED BY <2>1 DEF LossesNoted
<1>2. CASE UNCHANGED histVars
  BY <1>2 DEF histVars, historyVars, vars, LossesNoted, CutShort, Busy
<1> QED BY <1>1, <1>2

-----------------------------------------------------------------------------
(* A row is not left without a matching run that is to come, unless a      *)
(* handler of its own event was lost.                                      *)

(* A first delivery that is only just received may find the row there and  *)
(* do nothing: it remembers nothing.                                       *)
Remembers(h, e) == /\ Busy(h) /\ EventOf(h) = e /\ ~ At(h, "done")
                   /\ At(h, "received") => RetriesOf(h) > 0
WaitsForRetry(e) == \E m \in Message : m.event = e /\ m.retries > 0 /\ (ready[m] > 0 \/ delayed[m] > 0)
Remembered(e) == e \in abandoned \/ IsParked(e) \/ (\E h \in Handlers : Remembers(h, e))
                 \/ WaitsForRetry(e)
AllRemembered == \A e \in stored \ matched : Remembered(e)
Attached == \A h \in Handlers :
    Busy(h) /\ At(h, "trading") => EventOf(h) \in handler[h].read

(* A handler acts: what others remember stays, so only the event of that   *)
(* handler is in question.                                                 *)
LEMMA OthersRemember ==
  ASSUME AllRemembered, NEW h \in Handlers,
         \A g \in Handlers \ {h} : handler'[g] = handler[g],
         parked \subseteq parked', abandoned \subseteq abandoned',
         \A m \in Message : ready[m] > 0 => ready'[m] > 0,
         \A m \in Message : delayed[m] > 0 => delayed'[m] > 0,
         stored' \subseteq stored \cup {EventOf(h)}, matched \subseteq matched',
         \/ Remembers(h, EventOf(h))'  /\ handler'[h].message = handler[h].message
         \/ EventOf(h) \in abandoned'
         \/ EventOf(h) \in matched'
         \/ \E p \in parked' : p.message.event = EventOf(h)
         \/ \E m \in Message : m.event = EventOf(h) /\ m.retries > 0 /\ delayed'[m] > 0
         \/ UNCHANGED stored /\ ~ Remembers(h, EventOf(h))
  PROVE  AllRemembered'
<1> SUFFICES ASSUME NEW e \in stored', e \notin matched' PROVE Remembered(e)'
  BY DEF AllRemembered
<1>1. CASE e \in abandoned' \/ (e \in stored /\ IsParked(e))
  BY <1>1 DEF Remembered, IsParked
<1>2. CASE e \in stored /\ WaitsForRetry(e)
  BY <1>2 DEF Remembered, WaitsForRetry
<1>3. ASSUME NEW g \in Handlers \ {h}, Remembers(g, e) PROVE Remembered(e)'
  <2>1. Remembers(g, e)' BY <1>3 DEF Remembers, Busy, At, EventOf, RetriesOf
  <2> QED BY <2>1 DEF Remembered
<1>4. CASE Remembers(h, EventOf(h))' /\ handler'[h].message = handler[h].message /\ e = EventOf(h)
  <2>1. Remembers(h, e)' BY <1>4 DEF Remembers, EventOf
  <2> QED BY <2>1 DEF Remembered
<1>5. CASE e = EventOf(h) /\ \E p \in parked' : p.message.event = EventOf(h)
  BY <1>5 DEF Remembered, IsParked
<1>6. CASE e = EventOf(h) /\ \E m \in Message : m.event = EventOf(h) /\ m.retries > 0 /\ delayed'[m] > 0
  BY <1>6 DEF Remembered, WaitsForRetry
<1>7. e \in stored => Remembered(e) BY DEF AllRemembered
<1>8. Remembers(h, e) => e = EventOf(h) BY DEF Remembers
<1>9. e \notin stored => e = EventOf(h) OBVIOUS
<1> QED BY <1>1, <1>2, <1>3, <1>4, <1>5, <1>6, <1>7, <1>8, <1>9 DEF Remembered

MemInv == Inv /\ Attached /\ AllRemembered

LEMMA RememberingMoves ==
  ASSUME MemInv, NEW h \in Handlers, Busy(h), NEW point \in HandlerPoint,
         NEW rows \in SUBSET Events, Moves(h, point, rows),
         point = "trading" => EventOf(h) \in handler'[h].read,
         parked \subseteq parked', abandoned \subseteq abandoned',
         \A m \in Message : ready[m] > 0 => ready'[m] > 0,
         \A m \in Message : delayed[m] > 0 => delayed'[m] > 0,
         stored' \subseteq stored \cup {EventOf(h)}, matched \subseteq matched',
         \/ point \notin {"received", "done"}
         \/ EventOf(h) \in matched'
         \/ \E p \in parked' : p.message.event = EventOf(h)
         \/ \E m \in Message : m.event = EventOf(h) /\ m.retries > 0 /\ delayed'[m] > 0
         \/ UNCHANGED stored /\ ~ Remembers(h, EventOf(h))
  PROVE  Attached' /\ AllRemembered'
<1>1. /\ handler'[h].pc = point /\ handler'[h].message = handler[h].message
      /\ handler'[h].open = handler[h].open /\ point # "idle"
      /\ \A g \in Handlers \ {h} : handler'[g] = handler[g]
  <2>1. TypeOK BY DEF MemInv, Inv
  <2> QED BY <2>1, HandlerMoves
<1>2. Attached' BY <1>1 DEF MemInv, Attached, Busy, At, EventOf
<1>3. point \notin {"received", "done"} => Remembers(h, EventOf(h))'
  BY <1>1 DEF Remembers, Busy, At, EventOf
<1>4. AllRemembered' BY <1>1, <1>3, OthersRemember DEF MemInv
<1> QED BY <1>2, <1>4

LEMMA RememberingHandlers ==
  ASSUME MemInv, NEW h \in Handlers, Handle(h), LossesNoted
  PROVE  Attached' /\ AllRemembered'
<1> USE DEF At, Goto
<1>0. /\ TypeOK /\ KnowsItsEvent(h) /\ Attached /\ AllRemembered
      /\ abandoned \subseteq abandoned'
  BY DEF MemInv, Inv, KnowingHandlers, LossesNoted
<1>1. Busy(h)
  BY DEF Handle, Reject, StoreOrder, StoreFails, ReadOrders, MatchingDone, MatchingFails,
         HandleFailure, ScheduleRetry, Park, PublishFails, Acknowledge, NackUnlessChannelClosed,
         Busy
<1>2. /\ stored \subseteq Events /\ {} \in SUBSET Events
      /\ ready \in [Message -> Nat] /\ delayed \in [Message -> Nat]
  BY <1>0 DEF TypeOK
<1>3. CASE Reject(h) \/ HandleFailure(h)
  <2>1. PICK point \in {"parking", "retrying"} :
          /\ handler' = [handler EXCEPT ![h].pc = point]
          /\ UNCHANGED <<ready, delayed, parked, stored, matched>>
    BY <1>3 DEF Reject, HandleFailure, queueVars, tableVars
  <2> QED BY <1>1, <1>2, <2>1, <1>0, RememberingMoves DEF Moves, HandlerPoint
<1>4. CASE StoreOrder(h)
  <2>1. PICK point \in {"matching", "done"} :
          /\ handler' = [handler EXCEPT ![h].pc = point]
          /\ stored' = stored \cup {EventOf(h)} /\ UNCHANGED <<ready, delayed, parked, matched>>
          /\ point = "done" => EventOf(h) \in stored /\ ~ (RetriesOf(h) > 0)
    BY <1>4 DEF StoreOrder, RunsMatching, queueVars
  <2>2. point = "done" => UNCHANGED stored /\ ~ Remembers(h, EventOf(h))
    BY <1>4, <2>1 DEF Remembers, StoreOrder
  <2> QED BY <1>1, <1>2, <2>1, <2>2, <1>0, RememberingMoves DEF Moves, HandlerPoint
<1>5. CASE StoreFails(h)
  <2>1. /\ handler' = [handler EXCEPT ![h].pc = "failed"]
        /\ stored' \subseteq stored \cup {EventOf(h)} /\ UNCHANGED <<ready, delayed, parked, matched>>
    BY <1>5 DEF StoreFails, queueVars
  <2> QED BY <1>1, <1>2, <2>1, <1>0, RememberingMoves DEF Moves, HandlerPoint
<1>6. CASE ReadOrders(h)
  <2>1. /\ handler' = [handler EXCEPT ![h].pc = "trading", ![h].read = stored]
        /\ UNCHANGED <<ready, delayed, parked, stored, matched>>
    BY <1>6 DEF ReadOrders, queueVars, tableVars
  <2>2. EventOf(h) \in stored BY <1>0, <1>1, <1>6 DEF ReadOrders, KnowsItsEvent
  <2>3. handler'[h].read = stored
    <3>1. handler[h] \in Invocation BY <1>0, <1>1, BusyHandlers
    <3>2. handler'[h] = [handler[h] EXCEPT !.pc = "trading", !.read = stored]
      BY <1>0, <2>1 DEF TypeOK
    <3> QED BY <3>1, <3>2 DEF Invocation
  <2> QED BY <1>1, <1>2, <2>1, <2>2, <2>3, <1>0, RememberingMoves DEF Moves, HandlerPoint
<1>7. CASE MatchingDone(h)
  <2>1. /\ handler' = [handler EXCEPT ![h].pc = "done", ![h].read = {}]
        /\ UNCHANGED <<ready, delayed, parked, stored>> /\ matched' = matched \cup handler[h].read
    BY <1>7 DEF MatchingDone, queueVars
  <2>2. EventOf(h) \in matched' BY <1>0, <1>1, <1>7, <2>1 DEF MatchingDone, Attached
  <2>3. Moves(h, "done", {}) /\ "done" \in HandlerPoint BY <2>1 DEF Moves, HandlerPoint
  <2> QED BY <1>0, <1>1, <1>2, <2>1, <2>2, <2>3, RememberingMoves
<1>8. CASE MatchingFails(h)
  <2>1. /\ handler' = [handler EXCEPT ![h].pc = "failed", ![h].read = {}]
        /\ UNCHANGED <<ready, delayed, parked, stored, matched>>
    BY <1>8 DEF MatchingFails, queueVars, tableVars
  <2>2. Moves(h, "failed", {}) /\ "failed" \in HandlerPoint BY <2>1 DEF Moves, HandlerPoint
  <2> QED BY <1>1, <1>2, <2>1, <2>2, <1>0, RememberingMoves
<1>9. CASE ScheduleRetry(h) \/ Park(h) \/ PublishFails(h)
  <2>1. PICK point \in {"done", "throwing"} :
          /\ handler' = [handler EXCEPT ![h].pc = point]
          /\ UNCHANGED <<ready, stored, matched>>
          /\ \/ At(h, "retrying") /\ delayed' = Add(delayed, Copy(h)) /\ UNCHANGED parked
             \/ At(h, "parking") /\ parked' = parked \cup {ParkedAs(h)} /\ UNCHANGED delayed
             \/ point = "throwing" /\ UNCHANGED <<delayed, parked>>
    BY <1>9 DEF ScheduleRetry, Park, PublishFails, tableVars
  <2>2. Moves(h, point, {}) /\ point \in HandlerPoint BY <2>1 DEF Moves, HandlerPoint
  <2>3. CASE At(h, "retrying") /\ delayed' = Add(delayed, Copy(h)) /\ UNCHANGED parked
    <3>1. ~ Exhausted(h) BY <1>0, <1>1, <2>3 DEF KnowsItsEvent
    <3>2. Copy(h) \in Message /\ Copy(h).event = EventOf(h) /\ Copy(h).retries > 0
      BY <1>0, <1>1, <3>1, CopyIsMessage
    <3>3. delayed'[Copy(h)] > 0 /\ \A m \in Message : delayed[m] > 0 => delayed'[m] > 0
      BY <1>2, <2>3, <3>2, Adding
    <3> QED BY <1>0, <1>1, <1>2, <2>1, <2>2, <2>3, <3>2, <3>3, RememberingMoves
  <2>4. CASE At(h, "parking") /\ parked' = parked \cup {ParkedAs(h)} /\ UNCHANGED delayed
    <3>1. ParkedAs(h) \in parked' /\ ParkedAs(h).message.event = EventOf(h)
      BY <1>0, <2>4, ParkedIsTrue
    <3> QED BY <1>0, <1>1, <1>2, <2>1, <2>2, <2>4, <3>1, RememberingMoves
  <2>5. CASE point = "throwing" /\ UNCHANGED <<delayed, parked>>
    BY <1>0, <1>1, <1>2, <2>1, <2>2, <2>5, RememberingMoves
  <2> QED BY <2>1, <2>3, <2>4, <2>5
<1>10. CASE Acknowledge(h) \/ NackUnlessChannelClosed(h)
  <2>1. /\ handler' = [handler EXCEPT ![h] = Idle] /\ UNCHANGED <<ready, delayed, stored, matched>>
        /\ \/ At(h, "done") /\ UNCHANGED parked
           \/ ~ At(h, "done") /\ ~ handler[h].open /\ UNCHANGED parked
           \/ parked' = parked \cup {[message |-> handler[h].message, reason |-> "thrown"]}
    BY <1>10 DEF Acknowledge, NackUnlessChannelClosed, queueVars, tableVars
  <2>2. /\ handler'[h].pc = "idle" /\ \A g \in Handlers \ {h} : handler'[g] = handler[g]
    BY <1>0, <2>1, HandlerEnds
  <2>3. parked \subseteq parked'
        /\ \/ ~ Remembers(h, EventOf(h))
           \/ EventOf(h) \in abandoned'
           \/ \E p \in parked' : p.message.event = EventOf(h)
    <3>1. CASE At(h, "done") /\ UNCHANGED parked BY <3>1 DEF Remembers
    <3>3. CASE ~ At(h, "done") /\ ~ handler[h].open /\ UNCHANGED parked
      <4>1. CutShort(h) BY <1>1, <2>2, <3>3 DEF CutShort, Busy
      <4> QED BY <3>3, <4>1 DEF LossesNoted
    <3>2. CASE parked' = parked \cup {[message |-> handler[h].message, reason |-> "thrown"]}
      <4> DEFINE p == [message |-> handler[h].message, reason |-> "thrown"]
      <4>1. p \in parked' /\ parked \subseteq parked' BY <3>2
      <4>2. p.message.event = EventOf(h) BY DEF EventOf
      <4> HIDE DEF p
      <4> QED BY <4>1, <4>2
    <3> QED BY <2>1, <3>1, <3>2, <3>3
  <2>4. Attached' BY <1>0, <2>2 DEF Attached, Busy, EventOf
  <2>5. AllRemembered' BY <1>0, <2>1, <2>2, <2>3, OthersRemember
  <2> QED BY <2>4, <2>5
<1> QED BY <1>3, <1>4, <1>5, <1>6, <1>7, <1>8, <1>9, <1>10 DEF Handle

(* A fault leaves the handlers where they are, or takes them with it and   *)
(* into the history; the queues only grow.                                 *)
LEMMA RememberingFaults ==
  ASSUME MemInv, LossesNoted, NEW i \in Instances, Drop(i) \/ Crash(i)
  PROVE  Attached' /\ AllRemembered'
<1>0. TypeOK /\ Attached /\ AllRemembered /\ abandoned \subseteq abandoned'
  BY DEF MemInv, Inv, LossesNoted
<1>1. /\ Requeue(Unacked(i)) /\ Unacked(i) \in SUBSET Handlers
      /\ UNCHANGED <<delayed, parked, stored, matched>>
  BY DEF Drop, Crash, tableVars, Unacked, InProgress
<1>2. \A m \in Message : ready[m] > 0 => ready'[m] > 0 BY <1>0, <1>1, Requeued
<1>3. ASSUME NEW h \in Handlers
      PROVE  \/ /\ handler'[h].pc = handler[h].pc /\ handler'[h].message = handler[h].message
                /\ handler'[h].read = handler[h].read
             \/ /\ handler'[h].pc = "idle"
                /\ Busy(h) /\ ~ At(h, "done") => EventOf(h) \in abandoned'
  <2>1. CASE Drop(i)
    <3>1. handler' = [g \in Handlers |-> IF g \in Unacked(i)
                                         THEN [handler[g] EXCEPT !.open = FALSE]
                                         ELSE handler[g]]
      BY <2>1 DEF Drop
    <3>2. CASE h \in Unacked(i)
      <4>1. handler[h] \in Invocation
        BY <1>0, <3>2, BusyHandlers DEF Unacked, InProgress
      <4>2. handler'[h] = [handler[h] EXCEPT !.open = FALSE] BY <3>1, <3>2
      <4> QED BY <4>1, <4>2 DEF Invocation
    <3>3. CASE h \notin Unacked(i) BY <3>1, <3>3
    <3> QED BY <3>2, <3>3
  <2>2. CASE Crash(i)
    <3>1. /\ handler' = [g \in Handlers |-> IF g \in InProgress(i) THEN Idle ELSE handler[g]]
          /\ faults' = [faults EXCEPT !.crashes = @ + 1]
      BY <2>2 DEF Crash
    <3>2. faults'.crashes > faults.crashes BY <1>0, <3>1 DEF TypeOK
    <3>3. CASE h \in InProgress(i)
      <4>1. handler'[h].pc = "idle" BY <3>1, <3>3 DEF Idle
      <4>2. Busy(h) /\ ~ At(h, "done") => CutShort(h) BY <3>2, <4>1 DEF CutShort, Busy
      <4> QED BY <4>1, <4>2 DEF LossesNoted
    <3>4. CASE h \notin InProgress(i) BY <3>1, <3>4
    <3> QED BY <3>3, <3>4
  <2> QED BY <2>1, <2>2
<1>4. Attached' BY <1>0, <1>3 DEF Attached, Busy, At, EventOf
<1>5. ASSUME NEW e \in stored', e \notin matched' PROVE Remembered(e)'
  <2>1. Remembered(e) BY <1>0, <1>1, <1>5 DEF AllRemembered
  <2>2. CASE e \in abandoned \/ IsParked(e) BY <1>0, <1>1, <2>2 DEF Remembered, IsParked
  <2>3. CASE WaitsForRetry(e) BY <1>1, <1>2, <2>3 DEF Remembered, WaitsForRetry
  <2>4. ASSUME NEW h \in Handlers, Remembers(h, e) PROVE Remembered(e)'
    BY <1>3, <2>4 DEF Remembered, Remembers, Busy, At, EventOf, RetriesOf
  <2> QED BY <2>1, <2>2, <2>3, <2>4 DEF Remembered
<1> QED BY <1>4, <1>5 DEF AllRemembered

LEMMA RememberingQueues ==
  ASSUME MemInv, [Next]_vars, LossesNoted, ~ \E h \in Handlers : Handle(h)
  PROVE  Attached' /\ AllRemembered'
<1>0. TypeOK /\ Attached /\ AllRemembered /\ abandoned \subseteq abandoned'
  BY DEF MemInv, Inv, LossesNoted
<1>1. ASSUME NEW i \in Instances, Drop(i) \/ Crash(i) PROVE Attached' /\ AllRemembered'
  BY <1>1, RememberingFaults
<1>2. CASE \E h \in Handlers, i \in Instances, m \in Message : Deliver(h, i, m)
  <2>1. PICK h \in Handlers, i \in Instances, m \in Message : Deliver(h, i, m) BY <1>2
  <2> DEFINE new == [pc |-> "received", message |-> m, instance |-> i, open |-> TRUE, read |-> {}]
  <2>2. /\ ~ Busy(h) /\ ready[m] > 0 /\ ready' = Remove(ready, m)
        /\ handler' = [handler EXCEPT ![h] = new]
        /\ UNCHANGED <<delayed, parked, stored, matched>>
    BY <2>1 DEF Deliver, tableVars
  <2>3. new.pc = "received" /\ new.message = m /\ new.open = TRUE OBVIOUS
  <2> HIDE DEF new
  <2>4. handler'[h] = new /\ \A g \in Handlers \ {h} : handler'[g] = handler[g]
    BY <1>0, <2>2 DEF TypeOK
  <2>5. \A x \in Message : x # m => ready'[x] = ready[x] BY <1>0, <2>2, Removing DEF TypeOK
  <2>6. Attached' BY <1>0, <2>3, <2>4 DEF Attached, Busy, At, EventOf
  <2>7. ASSUME NEW e \in stored', e \notin matched' PROVE Remembered(e)'
    <3>1. Remembered(e) BY <1>0, <2>2, <2>7 DEF AllRemembered
    <3>2. CASE e \in abandoned \/ IsParked(e) BY <1>0, <2>2, <3>2 DEF Remembered, IsParked
    <3>3. ASSUME NEW g \in Handlers, Remembers(g, e) PROVE Remembered(e)'
      <4>1. g # h BY <2>2, <3>3 DEF Remembers
      <4>2. Remembers(g, e)' BY <2>4, <3>3, <4>1 DEF Remembers, Busy, At, EventOf, RetriesOf
      <4> QED BY <4>2 DEF Remembered
    <3>4. CASE WaitsForRetry(e)
      <4>1. PICK x \in Message : x.event = e /\ x.retries > 0 /\ (ready[x] > 0 \/ delayed[x] > 0)
        BY <3>4 DEF WaitsForRetry
      <4>2. CASE x = m
        <5>1. Remembers(h, e)'
          BY <2>3, <2>4, <4>1, <4>2 DEF Remembers, Busy, At, EventOf, RetriesOf
        <5> QED BY <5>1 DEF Remembered
      <4>3. CASE x # m BY <2>2, <2>5, <4>1, <4>3 DEF Remembered, WaitsForRetry
      <4> QED BY <4>2, <4>3
    <3> QED BY <3>1, <3>2, <3>3, <3>4 DEF Remembered
  <2> QED BY <2>6, <2>7 DEF AllRemembered
<1>3. CASE \/ \E e \in Events : Publish(e)
           \/ \E m \in Message : Expire(m)
           \/ \E i \in Instances : Start(i) \/ BeginShutdown(i) \/ CloseAfterDrain(i)
           \/ UNCHANGED vars
  <2>1. /\ UNCHANGED <<handler, parked, stored, matched>>
        /\ \A m \in Message : ready[m] > 0 \/ delayed[m] > 0 => ready'[m] > 0 \/ delayed'[m] > 0
    <3>1. ASSUME NEW e \in Events, Publish(e)
          PROVE  \A m \in Message : ready[m] > 0 \/ delayed[m] > 0 => ready'[m] > 0 \/ delayed'[m] > 0
      <4>1. Fresh(e) \in Message BY Numbers DEF Fresh, Message
      <4> QED BY <1>0, <3>1, <4>1, Adding DEF Publish, TypeOK
    <3>2. ASSUME NEW m \in Message, Expire(m)
          PROVE  \A x \in Message : ready[x] > 0 \/ delayed[x] > 0 => ready'[x] > 0 \/ delayed'[x] > 0
      <4>1. \A x \in Message : ready[x] > 0 => ready'[x] > 0 BY <1>0, <3>2, Adding DEF Expire, TypeOK
      <4>2. ready'[m] > 0 BY <1>0, <3>2, Adding DEF Expire, TypeOK
      <4>3. \A x \in Message : x # m => delayed'[x] = delayed[x]
        BY <1>0, <3>2, Removing DEF Expire, TypeOK
      <4> QED BY <4>1, <4>2, <4>3
    <3>3. UNCHANGED <<handler, parked, stored, matched>>
      BY <1>3 DEF Publish, Expire, Start, BeginShutdown, CloseAfterDrain, vars, queueVars, tableVars
    <3> QED BY <1>3, <3>1, <3>2, <3>3
        DEF Start, BeginShutdown, CloseAfterDrain, vars, queueVars
  <2>2. Attached' BY <1>0, <2>1 DEF Attached, Busy, At, EventOf
  <2>3. AllRemembered'
    BY <1>0, <2>1
    DEF AllRemembered, Remembered, Remembers, WaitsForRetry, IsParked, Busy, At, EventOf, RetriesOf
  <2> QED BY <2>2, <2>3
<1> QED BY <1>1, <1>2, <1>3 DEF Next

(* A stored row is matched, or a matching run for it is to come, however   *)
(* often the database, the matching run or a publish fails and however     *)
(* often the event is published (handleEnergyEvent: the retry header makes *)
(* a repeated insert run the matching again) -- unless a process or a      *)
(* channel was lost under a handler of that very event.                    *)
THEOREM UnmatchedIsNotForgotten == HistSpec => []UnmatchedIsRemembered
<1>1. HistInit => MemInv
  <2> SUFFICES ASSUME HistInit PROVE MemInv OBVIOUS
  <2>1. Init BY DEF HistInit
  <2>2. AllRemembered BY <2>1 DEF Init, AllRemembered
  <2>3. Attached BY <2>1 DEF Init, Attached, Busy, Idle
  <2> QED BY <2>1, <2>2, <2>3, InitInv DEF MemInv
<1>2. MemInv /\ [HistNext]_histVars => MemInv'
  <2> SUFFICES ASSUME MemInv, [HistNext]_histVars PROVE MemInv' OBVIOUS
  <2>1. [Next]_vars BY DEF HistNext, histVars, vars
  <2>2. LossesNoted BY HistoryNotesLosses
  <2>3. Inv' BY <2>1, InvStep DEF MemInv
  <2>4. Attached' /\ AllRemembered' BY <2>1, <2>2, RememberingHandlers, RememberingQueues
  <2> QED BY <2>3, <2>4 DEF MemInv
<1>3. MemInv => UnmatchedIsRemembered
  BY DEF MemInv, AllRemembered, Remembered, Remembers, WaitsForRetry, UnmatchedIsRemembered
<1> QED BY <1>1, <1>2, <1>3, PTL DEF HistSpec

-----------------------------------------------------------------------------
(* No delivery is repeated without cause: what is under way, and what      *)
(* waits with the broker, is due.                                          *)

Tries == 0 .. MaxRetries
WaitingAt(e, n) == ready[[event |-> e, retries |-> n]] + delayed[[event |-> e, retries |-> n]]
WaitingCopies(e) == [n \in Tries |-> WaitingAt(e, n)]
Waiting(e) == SumOver(WaitingCopies(e), Tries)
WorkIsDue == \A e \in Events : Cardinality(AtWork(e)) + Waiting(e) <= due[e]
DueInv == Inv /\ due \in [Events -> Int] /\ WorkIsDue

LEMMA TriesAreMessages ==
  /\ IsFiniteSet(Tries)
  /\ \A e \in Events, n \in Tries :
        /\ [event |-> e, retries |-> n] \in Message
        /\ [event |-> e, retries |-> n].event = e /\ [event |-> e, retries |-> n].retries = n
  /\ \A m \in Message : m = [event |-> m.event, retries |-> m.retries]
                         /\ m.event \in Events /\ m.retries \in Tries
<1>1. IsFiniteSet(Tries) BY Numbers, FS_Interval DEF Tries
<1> QED BY <1>1 DEF Tries, Message

LEMMA WaitingIsNatural ==
  ASSUME TypeOK, NEW e \in Events
  PROVE  /\ \A n \in Tries : WaitingCopies(e)[n] = WaitingAt(e, n) /\ WaitingAt(e, n) \in Nat
         /\ Waiting(e) \in Nat
<1>1. \A n \in Tries : WaitingCopies(e)[n] = WaitingAt(e, n) BY DEF WaitingCopies
<1>2. \A n \in Tries : WaitingAt(e, n) \in Nat BY TriesAreMessages DEF TypeOK, WaitingAt
<1>3. \A n \in Tries : WaitingCopies(e)[n] \in Nat BY <1>1, <1>2
<1>4. Waiting(e) \in Nat BY <1>3, TriesAreMessages, SumOverNatural DEF Waiting
<1> QED BY <1>1, <1>2, <1>4

LEMMA WaitingStaysNatural ==
  ASSUME TypeOK', NEW e \in Events
  PROVE  Waiting(e)' \in Nat
<1>1. \A n \in Tries : WaitingAt(e, n)' \in Nat
  BY TriesAreMessages DEF TypeOK, WaitingAt
<1> DEFINE g == WaitingCopies(e)'
<1>2. \A n \in Tries : g[n] \in Nat BY <1>1 DEF WaitingCopies
<1> HIDE DEF g
<1>3. SumOver(g, Tries) \in Nat BY <1>2, TriesAreMessages, SumOverNatural
<1> QED BY <1>3 DEF g, Waiting

LEMMA WorkIsFinite ==
  /\ \A S \in SUBSET Handlers : IsFiniteSet(S) /\ Cardinality(S) \in Nat
  /\ \A e : AtWork(e) \in SUBSET Handlers
<1>1. IsFiniteSet(Handlers) BY EventAssumption
<1>2. \A S \in SUBSET Handlers : IsFiniteSet(S) /\ Cardinality(S) \in Nat
  BY <1>1, FS_Subset, FS_CardinalityType
<1> QED BY <1>2 DEF AtWork

(* The queues of an event do not change; of one of its copies there is one *)
(* more or one less.                                                       *)
LEMMA WaitingSame ==
  ASSUME TypeOK, TypeOK', NEW e \in Events,
         \A n \in Tries : WaitingAt(e, n)' = WaitingAt(e, n)
  PROVE  Waiting(e)' = Waiting(e)
<1>1. \A n \in Tries : WaitingCopies(e)'[n] = WaitingCopies(e)[n]
  BY DEF WaitingCopies
<1> DEFINE f == WaitingCopies(e)
           g == WaitingCopies(e)'
<1>2. \A n \in Tries : g[n] = f[n] BY <1>1
<1> HIDE DEF f, g
<1>3. SumOver(g, Tries) = SumOver(f, Tries) BY <1>2, TriesAreMessages, SumOverSame
<1> QED BY <1>3 DEF f, g, Waiting

LEMMA WaitingOneChange ==
  ASSUME TypeOK, TypeOK', NEW e \in Events, NEW k \in Tries, NEW d \in Int,
         WaitingAt(e, k)' = WaitingAt(e, k) + d,
         \A n \in Tries : n # k => WaitingAt(e, n)' = WaitingAt(e, n)
  PROVE  Waiting(e)' = Waiting(e) + d
<1> DEFINE f == WaitingCopies(e)
           g == WaitingCopies(e)'
<1>1. \A n \in Tries : f[n] = WaitingAt(e, n) /\ f[n] \in Int
  BY WaitingIsNatural
<1>2. \A n \in Tries : g[n] = WaitingAt(e, n)'
  BY DEF WaitingCopies
<1>3. \A n \in Tries : n # k => g[n] = f[n] BY <1>1, <1>2
<1>4. g[k] = f[k] + d BY <1>1, <1>2
<1>5. \A n \in Tries : f[n] \in Int /\ g[n] \in Int BY <1>1, <1>3, <1>4
<1> HIDE DEF f, g
<1>6. SumOver(g, Tries) = SumOver(f, Tries) + g[k] - f[k]
  BY <1>3, <1>5, TriesAreMessages, SumOverOneChange
<1>7. SumOver(f, Tries) \in Int BY <1>5, TriesAreMessages, SumOverType
<1>8. f[k] \in Int BY <1>5
<1>9. SumOver(g, Tries) = SumOver(f, Tries) + d BY <1>4, <1>6, <1>7, <1>8
<1> QED BY <1>9 DEF f, g, Waiting

(* What the broker queues again is spread over the tries of the event.     *)
LEMMA WaitingRequeued ==
  ASSUME TypeOK, NEW U \in SUBSET Handlers, Requeue(U), UNCHANGED delayed,
         \A h \in U : handler[h].message \in Message, NEW e \in Events
  PROVE  Waiting(e)' = Waiting(e) + Cardinality({h \in U : EventOf(h) = e})
<1> DEFINE C == {h \in U : EventOf(h) = e}
           side == [h \in C |-> RetriesOf(h)]
           again == [n \in Tries |-> Cardinality({h \in C : side[h] = n})]
           f == WaitingCopies(e)
           g == WaitingCopies(e)'
<1>1. C \in SUBSET Handlers OBVIOUS
<1>2. \A h \in C : side[h] \in Tries /\ side[h] = RetriesOf(h)
  BY TriesAreMessages DEF RetriesOf
<1>3. \A n \in Tries : again[n] = Cardinality({h \in C : side[h] = n}) OBVIOUS
<1>4. ASSUME NEW n \in Tries
      PROVE  g[n] = f[n] + again[n] /\ f[n] \in Int /\ again[n] \in Int
  <2> DEFINE m == [event |-> e, retries |-> n]
  <2>1. m \in Message /\ m.event = e /\ m.retries = n BY TriesAreMessages
  <2>2. ready'[m] = ready[m] + Cardinality({h \in U : handler[h].message = m})
    BY <2>1 DEF Requeue
  <2>3. \A h \in U : handler[h].message = m <=> EventOf(h) = e /\ RetriesOf(h) = n
    <3> SUFFICES ASSUME NEW h \in U
                 PROVE  handler[h].message = m <=> EventOf(h) = e /\ RetriesOf(h) = n
      OBVIOUS
    <3>1. handler[h].message = [event |-> EventOf(h), retries |-> RetriesOf(h)]
      BY TriesAreMessages DEF EventOf, RetriesOf
    <3> QED BY <2>1, <3>1 DEF EventOf, RetriesOf
  <2>4. {h \in U : handler[h].message = m} = {h \in C : side[h] = n} BY <1>2, <2>3
  <2> DEFINE part == {h \in C : side[h] = n}
  <2>5. part \in SUBSET Handlers OBVIOUS
  <2>10. again[n] = Cardinality(part) BY <1>3
  <2>6. again[n] \in Int
    <3> HIDE DEF part, again
    <3> QED BY <2>5, <2>10, WorkIsFinite
  <2>7. f[n] = ready[m] + delayed[m] /\ g[n] = ready'[m] + delayed'[m]
    BY DEF WaitingCopies, WaitingAt
  <2>8. ready[m] \in Int /\ delayed[m] \in Int BY <2>1 DEF TypeOK
  <2>9. ready'[m] = ready[m] + again[n] /\ delayed'[m] = delayed[m] BY <1>3, <2>2, <2>4
  <2> HIDE DEF m, again, f, g
  <2> QED BY <2>6, <2>7, <2>8, <2>9
<1> HIDE DEF C, side, again, f, g
<1>5. IsFiniteSet(C) /\ Cardinality(C) \in Nat BY <1>1, WorkIsFinite
<1>6. SumOver(again, Tries) = Cardinality(C)
  <2>1. CountShares(again, side, C, Tries) BY <1>2, <1>3 DEF CountShares
  <2> QED BY <1>5, <2>1, TriesAreMessages, CountsAddUp
<1>7. SumOver(g, Tries) = SumOver(f, Tries) + SumOver(again, Tries)
  BY <1>4, TriesAreMessages, SumOverPlus
<1> QED BY <1>6, <1>7 DEF f, g, C, Waiting

(* What one step does to an event: what it adds to the work under way and  *)
(* to the copies that wait, it makes due.                                  *)
Accounted(e) ==
    Cardinality(AtWork(e))' + Waiting(e)' + Cardinality(EndedOf(e))
      <= Cardinality(AtWork(e)) + Waiting(e) + Cardinality(StruckOf(e)) + published'[e] - published[e]

LEMMA HandlerStep ==
  ASSUME Inv, NEW h \in Handlers, Handle(h)
  PROVE  /\ Busy(h) /\ UNCHANGED <<published, ready, faults>>
         /\ \A g \in Handlers \ {h} : handler'[g] = handler[g]
         /\ Busy(h)' => handler'[h].message = handler[h].message
         /\ handler[h].pc \in {"done", "throwing"} => ~ Busy(h)'
         /\ \/ UNCHANGED delayed
            \/ /\ At(h, "retrying") /\ handler'[h].pc \in {"done", "throwing"}
               /\ ~ Exhausted(h) /\ delayed' = Add(delayed, Copy(h))
<1> USE DEF At, Goto
<1>0. TypeOK /\ KnowsItsEvent(h) BY DEF Inv, KnowingHandlers
<1>1. Busy(h)
  BY DEF Handle, Reject, StoreOrder, StoreFails, ReadOrders, MatchingDone, MatchingFails,
         HandleFailure, ScheduleRetry, Park, PublishFails, Acknowledge, NackUnlessChannelClosed,
         Busy
<1>2. UNCHANGED <<published, ready, faults>>
  BY DEF Handle, Reject, StoreOrder, StoreFails, ReadOrders, MatchingDone, MatchingFails,
         HandleFailure, ScheduleRetry, Park, PublishFails, Acknowledge, NackUnlessChannelClosed,
         queueVars
<1>3. CASE Acknowledge(h) \/ NackUnlessChannelClosed(h)
  <2>1. handler' = [handler EXCEPT ![h] = Idle] /\ UNCHANGED delayed
    BY <1>3 DEF Acknowledge, NackUnlessChannelClosed, queueVars
  <2>2. handler'[h].pc = "idle" /\ \A g \in Handlers \ {h} : handler'[g] = handler[g]
    BY <1>0, <2>1, HandlerEnds
  <2> QED BY <1>1, <1>2, <2>1, <2>2 DEF Busy
<1>4. CASE ~ (Acknowledge(h) \/ NackUnlessChannelClosed(h))
  <2>1. stored \in SUBSET Events /\ {} \in SUBSET Events BY <1>0 DEF TypeOK
  <2>2. \E point \in HandlerPoint, rows \in SUBSET Events : Moves(h, point, rows)
    BY <1>4, <2>1
    DEF Handle, Reject, StoreOrder, StoreFails, ReadOrders, MatchingDone, MatchingFails,
        HandleFailure, ScheduleRetry, Park, PublishFails, Moves, HandlerPoint
  <2>3. handler[h].pc \notin {"done", "throwing"}
    BY <1>4
    DEF Handle, Reject, StoreOrder, StoreFails, ReadOrders, MatchingDone, MatchingFails,
        HandleFailure, ScheduleRetry, Park, PublishFails
  <2>4. /\ handler'[h].message = handler[h].message
        /\ \A g \in Handlers \ {h} : handler'[g] = handler[g]
    BY <1>0, <1>1, <2>2, HandlerMoves
  <2>5. CASE ScheduleRetry(h) \/ PublishFails(h)
    <3>1. PICK point \in {"done", "throwing"} :
            /\ handler' = [handler EXCEPT ![h].pc = point]
            /\ \/ At(h, "retrying") /\ delayed' = Add(delayed, Copy(h))
               \/ UNCHANGED delayed
      BY <2>5 DEF ScheduleRetry, PublishFails
    <3>2. Moves(h, point, {}) /\ point \in HandlerPoint BY <3>1 DEF Moves, HandlerPoint
    <3>3. handler'[h].pc = point BY <1>0, <1>1, <2>1, <3>2, HandlerMoves
    <3>4. At(h, "retrying") => ~ Exhausted(h) BY <1>0, <1>1 DEF KnowsItsEvent
    <3> QED BY <1>1, <1>2, <2>3, <2>4, <3>1, <3>3, <3>4
  <2>6. CASE ~ (ScheduleRetry(h) \/ PublishFails(h))
    <3>1. UNCHANGED delayed
      BY <1>4, <2>6
      DEF Handle, Reject, StoreOrder, StoreFails, ReadOrders, MatchingDone, MatchingFails,
          HandleFailure, Park, queueVars
    <3> QED BY <1>1, <1>2, <2>3, <2>4, <3>1
  <2> QED BY <2>5, <2>6
<1> QED BY <1>3, <1>4

(* Sets of handlers that differ by one. *)
LEMMA OneMoreOrLess ==
  ASSUME NEW S \in SUBSET Handlers, NEW T \in SUBSET Handlers
  PROVE  /\ Cardinality(S) \in Nat /\ Cardinality(T) \in Nat
         /\ S \subseteq T => Cardinality(S) <= Cardinality(T)
         /\ \A h \in Handlers : h \in T /\ S \subseteq T \ {h} => Cardinality(S) + 1 <= Cardinality(T)
         /\ \A h \in Handlers : S \subseteq T \cup {h} => Cardinality(S) <= Cardinality(T) + 1
         /\ \A h \in Handlers : S \subseteq {h} => Cardinality(S) <= 1
         /\ S = {} => Cardinality(S) = 0
<1>1. IsFiniteSet(S) /\ IsFiniteSet(T) /\ Cardinality(S) \in Nat /\ Cardinality(T) \in Nat
  BY WorkIsFinite
<1>2. S \subseteq T => Cardinality(S) <= Cardinality(T) BY <1>1, FS_Subset
<1>3. ASSUME NEW h \in Handlers, h \in T, S \subseteq T \ {h}
      PROVE  Cardinality(S) + 1 <= Cardinality(T)
  <2>1. IsFiniteSet(T \ {h}) /\ Cardinality(T \ {h}) = Cardinality(T) - 1
    BY <1>1, <1>3, FS_RemoveElement
  <2>2. Cardinality(S) <= Cardinality(T \ {h}) BY <1>3, <2>1, FS_Subset
  <2> QED BY <1>1, <2>1, <2>2
<1>4. ASSUME NEW h \in Handlers, S \subseteq T \cup {h} PROVE Cardinality(S) <= Cardinality(T) + 1
  <2>1. /\ IsFiniteSet(T \cup {h})
        /\ Cardinality(T \cup {h}) = Cardinality(T) \/ Cardinality(T \cup {h}) = Cardinality(T) + 1
    BY <1>1, FS_AddElement
  <2>2. Cardinality(S) <= Cardinality(T \cup {h}) BY <1>4, <2>1, FS_Subset
  <2> QED BY <1>1, <2>1, <2>2
<1>5. ASSUME NEW h \in Handlers, S \subseteq {h} PROVE Cardinality(S) <= 1
  <2>1. IsFiniteSet({h}) /\ Cardinality({h}) = 1 BY FS_Singleton
  <2> QED BY <1>5, <2>1, FS_Subset
<1>6. S = {} => Cardinality(S) = 0 BY FS_EmptySet
<1> QED BY <1>1, <1>2, <1>3, <1>4, <1>5, <1>6

(* A copy more or less of the message m. *)
LEMMA CopyWaits ==
  ASSUME TypeOK, TypeOK', NEW m \in Message, NEW e \in Events, NEW d \in Int,
         ready'[m] + delayed'[m] = ready[m] + delayed[m] + d,
         \A x \in Message : x # m => ready'[x] + delayed'[x] = ready[x] + delayed[x]
  PROVE  Waiting(e)' = IF m.event = e THEN Waiting(e) + d ELSE Waiting(e)
<1>1. \A n \in Tries : /\ [event |-> e, retries |-> n] \in Message
                        /\ [event |-> e, retries |-> n].event = e
                        /\ [event |-> e, retries |-> n].retries = n
  BY TriesAreMessages
<1>2. CASE m.event = e
  <2>1. m.retries \in Tries /\ m = [event |-> e, retries |-> m.retries]
    BY <1>2, TriesAreMessages
  <2>2. \A n \in Tries : n # m.retries => [event |-> e, retries |-> n] # m BY <1>1
  <2>3. WaitingAt(e, m.retries)' = WaitingAt(e, m.retries) + d BY <2>1 DEF WaitingAt
  <2>4. \A n \in Tries : n # m.retries => WaitingAt(e, n)' = WaitingAt(e, n)
    BY <1>1, <2>2 DEF WaitingAt
  <2>5. Waiting(e)' = Waiting(e) + d BY <2>1, <2>3, <2>4, WaitingOneChange
  <2> QED BY <1>2, <2>5
<1>3. CASE m.event # e
  <2>1. \A n \in Tries : [event |-> e, retries |-> n] # m BY <1>1, <1>3
  <2>2. \A n \in Tries : WaitingAt(e, n)' = WaitingAt(e, n) BY <1>1, <2>1 DEF WaitingAt
  <2>3. Waiting(e)' = Waiting(e) BY <2>2, WaitingSame
  <2> QED BY <1>3, <2>3
<1> QED BY <1>2, <1>3

(* No fault, so nothing is struck. *)
LEMMA NothingStruck ==
  ASSUME TypeOK, UNCHANGED faults \/ faults' = [faults EXCEPT !.stops = @ + 1], NEW e \in Events
  PROVE  StruckOf(e) = {}
<1>1. ~ Fault BY DEF TypeOK, Fault
<1> QED BY <1>1 DEF StruckOf, Strikes

LEMMA HandlerAccounts ==
  ASSUME Inv, TypeOK', NEW h \in Handlers, Handle(h), NEW e \in Events
  PROVE  Accounted(e)
<1> DEFINE S == AtWork(e)'
           T == AtWork(e)
           E == EndedOf(e)
<1>0. TypeOK BY DEF Inv
<1>1. /\ Busy(h) /\ UNCHANGED <<published, ready, faults>>
      /\ \A g \in Handlers \ {h} : handler'[g] = handler[g]
      /\ Busy(h)' => handler'[h].message = handler[h].message
      /\ handler[h].pc \in {"done", "throwing"} => ~ Busy(h)'
      /\ \/ UNCHANGED delayed
         \/ /\ At(h, "retrying") /\ handler'[h].pc \in {"done", "throwing"}
            /\ ~ Exhausted(h) /\ delayed' = Add(delayed, Copy(h))
  BY HandlerStep
<1>2. S \in SUBSET Handlers /\ T \in SUBSET Handlers /\ E \in SUBSET Handlers
  BY DEF AtWork, EndedOf
<1>3. StruckOf(e) \in SUBSET Handlers /\ StruckOf(e) = {} BY <1>0, <1>1, NothingStruck
<1>4. \A g \in Handlers \ {h} : g \notin E /\ (g \in S <=> g \in T)
  BY <1>1 DEF EndedOf, Ends, At, AtWork, Busy, EventOf
<1>5. h \in S => h \in T BY <1>1 DEF AtWork, EventOf
<1>6. h \in E => h \in T /\ h \notin S /\ ~ At(h, "retrying")
  BY <1>1 DEF EndedOf, Ends, At, AtWork, Busy
<1>7. /\ Waiting(e) \in Nat /\ Waiting(e)' \in Nat /\ published[e] \in Nat
      /\ Cardinality(StruckOf(e)) = 0 /\ published'[e] = published[e]
      /\ Cardinality(S) \in Nat /\ Cardinality(T) \in Nat /\ Cardinality(E) \in Nat
  <2>1. Waiting(e) \in Nat BY <1>0, WaitingIsNatural
  <2>2. Waiting(e)' \in Nat BY WaitingStaysNatural
  <2> HIDE DEF S, T, E
  <2>3. Cardinality(S) \in Nat /\ Cardinality(T) \in Nat /\ Cardinality(E) \in Nat
    BY <1>2, WorkIsFinite
  <2>4. Cardinality(StruckOf(e)) = 0 BY <1>3, FS_EmptySet
  <2>5. published[e] \in Nat BY <1>0, Numbers DEF TypeOK
  <2> QED BY <1>1, <2>1, <2>2, <2>3, <2>4, <2>5
<1>8. CASE UNCHANGED delayed
  <2>1. \A n \in Tries : WaitingAt(e, n)' = WaitingAt(e, n) BY <1>1, <1>8 DEF WaitingAt
  <2>2. Waiting(e)' = Waiting(e) BY <1>0, <2>1, WaitingSame
  <2>3. Cardinality(S) + Cardinality(E) <= Cardinality(T)
    <3> HIDE DEF S, T, E
    <3>1. CASE h \in E
      <4>1. S \subseteq T \ {h} /\ h \in T /\ E \subseteq {h} BY <1>2, <1>4, <1>6, <3>1
      <4>2. Cardinality(S) + 1 <= Cardinality(T) /\ Cardinality(E) <= 1
        BY <1>2, <4>1, OneMoreOrLess
      <4> QED BY <1>7, <4>2
    <3>2. CASE h \notin E
      <4>1. S \subseteq T /\ E = {} BY <1>2, <1>4, <1>5, <3>2
      <4>2. Cardinality(S) <= Cardinality(T) /\ Cardinality(E) = 0
        BY <1>2, <4>1, OneMoreOrLess
      <4> QED BY <1>7, <4>2
    <3> QED BY <3>1, <3>2
  <2> QED BY <1>7, <2>2, <2>3 DEF Accounted
<1>9. CASE /\ At(h, "retrying") /\ handler'[h].pc \in {"done", "throwing"}
           /\ ~ Exhausted(h) /\ delayed' = Add(delayed, Copy(h))
  <2>1. Copy(h) \in Message /\ Copy(h).event = EventOf(h) BY <1>0, <1>1, <1>9, CopyIsMessage
  <2>2. /\ delayed'[Copy(h)] = delayed[Copy(h)] + 1
        /\ \A x \in Message : x # Copy(h) => delayed'[x] = delayed[x]
    BY <1>0, <1>9, <2>1 DEF Add, TypeOK
  <2>3. \A x \in Message : ready[x] \in Nat /\ delayed[x] \in Nat BY <1>0 DEF TypeOK
  <2>4. Waiting(e)' = IF EventOf(h) = e THEN Waiting(e) + 1 ELSE Waiting(e)
    <3>1. ready'[Copy(h)] + delayed'[Copy(h)] = ready[Copy(h)] + delayed[Copy(h)] + 1
      BY <1>1, <2>1, <2>2, <2>3
    <3>2. \A x \in Message : x # Copy(h) => ready'[x] + delayed'[x] = ready[x] + delayed[x]
      BY <1>1, <2>2
    <3>3. Waiting(e)' = IF Copy(h).event = e THEN Waiting(e) + 1 ELSE Waiting(e)
      BY <1>0, <2>1, <3>1, <3>2, CopyWaits
    <3> QED BY <2>1, <3>3
  <2>5. h \notin S BY <1>9 DEF AtWork
  <2>6. EventOf(h) = e => h \in T BY <1>1, <1>9 DEF AtWork, At
  <2>7. h \notin E BY <1>6, <1>9
  <2> HIDE DEF S, T, E
  <2>8. E = {} /\ S \subseteq T BY <1>2, <1>4, <2>5, <2>7
  <2>9. Cardinality(E) = 0 /\ Cardinality(S) <= Cardinality(T) BY <1>2, <2>8, OneMoreOrLess
  <2>10. EventOf(h) = e => Cardinality(S) + 1 <= Cardinality(T)
    <3>1. EventOf(h) = e => h \in T /\ S \subseteq T \ {h} BY <2>5, <2>6, <2>8
    <3> QED BY <1>2, <3>1, OneMoreOrLess
  <2>11. Cardinality(S) + Waiting(e)' + Cardinality(E)
           <= Cardinality(T) + Waiting(e) + Cardinality(StruckOf(e)) + published'[e] - published[e]
    BY <1>7, <2>4, <2>9, <2>10
  <2> QED BY <2>11 DEF S, T, E, Accounted
<1> QED BY <1>1, <1>8, <1>9

(* The broker's own steps: a publication adds a copy and makes it due; an  *)
(* expired delay moves a copy; a delivery makes one work under way.        *)
LEMMA BrokerAccounts ==
  ASSUME Inv, TypeOK', NEW e \in Events,
         \/ \E x \in Events : Publish(x)
         \/ \E m \in Message : Expire(m)
         \/ \E h \in Handlers, i \in Instances, m \in Message : Deliver(h, i, m)
         \/ \E i \in Instances : Start(i) \/ BeginShutdown(i) \/ CloseAfterDrain(i)
         \/ UNCHANGED vars
  PROVE  Accounted(e)
<1> DEFINE S == AtWork(e)'
           T == AtWork(e)
<1>0. TypeOK BY DEF Inv
<1>1. UNCHANGED faults \/ faults' = [faults EXCEPT !.stops = @ + 1]
  BY DEF Publish, Expire, Deliver, Start, BeginShutdown, CloseAfterDrain, vars
<1>2. Cardinality(StruckOf(e)) = 0 BY <1>0, <1>1, NothingStruck, FS_EmptySet
<1>3. S \in SUBSET Handlers /\ T \in SUBSET Handlers BY DEF AtWork
<1>4. Cardinality(EndedOf(e)) = 0
  <2>1. CASE UNCHANGED handler
    <3>1. EndedOf(e) = {} BY <2>1 DEF EndedOf, Ends, At
    <3> QED BY <3>1, FS_EmptySet
  <2>2. ASSUME NEW h \in Handlers, NEW i \in Instances, NEW m \in Message, Deliver(h, i, m)
        PROVE  Cardinality(EndedOf(e)) = 0
    <3>1. ~ Busy(h) /\ \A g \in Handlers \ {h} : handler'[g] = handler[g]
      BY <1>0, <2>2 DEF Deliver, TypeOK
    <3>2. EndedOf(e) = {} BY <3>1 DEF EndedOf, Ends, At
    <3> QED BY <3>2, FS_EmptySet
  <2> QED BY <2>1, <2>2 DEF Publish, Expire, Start, BeginShutdown, CloseAfterDrain, vars
<1>5. \A x \in Message : ready[x] \in Nat /\ delayed[x] \in Nat BY <1>0 DEF TypeOK
<1>6. /\ Waiting(e) \in Nat /\ Waiting(e)' \in Nat /\ published[e] \in Nat
      /\ Cardinality(S) \in Nat /\ Cardinality(T) \in Nat
  <2>1. Waiting(e) \in Nat /\ Waiting(e)' \in Nat
    BY <1>0, WaitingIsNatural, WaitingStaysNatural
  <2>2. published[e] \in Nat BY <1>0, Numbers DEF TypeOK
  <2> HIDE DEF S, T
  <2> QED BY <1>3, <2>1, <2>2, WorkIsFinite
<1>7. ASSUME UNCHANGED handler PROVE Cardinality(S) = Cardinality(T)
  <2>1. S = T BY <1>7 DEF AtWork, Busy, EventOf
  <2> HIDE DEF S, T
  <2> QED BY <2>1
<1>8. ASSUME NEW x \in Events, Publish(x) PROVE Accounted(e)
  <2>1. Fresh(x) \in Message /\ Fresh(x).event = x BY Numbers DEF Fresh, Message
  <2>2. UNCHANGED <<handler, delayed>> /\ ready' = Add(ready, Fresh(x))
        /\ published' = [published EXCEPT ![x] = @ + 1]
    BY <1>8 DEF Publish
  <2>3. published'[e] = IF x = e THEN published[e] + 1 ELSE published[e]
    BY <1>0, <2>2 DEF TypeOK
  <2>4. /\ ready'[Fresh(x)] = ready[Fresh(x)] + 1
        /\ \A m \in Message : m # Fresh(x) => ready'[m] = ready[m]
    BY <1>0, <2>1, <2>2 DEF Add, TypeOK
  <2>5. ready'[Fresh(x)] + delayed'[Fresh(x)] = ready[Fresh(x)] + delayed[Fresh(x)] + 1
        /\ \A m \in Message : m # Fresh(x) => ready'[m] + delayed'[m] = ready[m] + delayed[m]
    BY <1>5, <2>1, <2>2, <2>4
  <2>6. Waiting(e)' = IF Fresh(x).event = e THEN Waiting(e) + 1 ELSE Waiting(e)
    BY <1>0, <2>1, <2>5, CopyWaits
  <2>7. Cardinality(S) = Cardinality(T) BY <1>7, <2>2
  <2> QED BY <1>2, <1>4, <1>6, <2>1, <2>3, <2>6, <2>7 DEF Accounted
<1>9. ASSUME UNCHANGED <<handler, published>>,
             \A m \in Message : ready'[m] + delayed'[m] = ready[m] + delayed[m]
      PROVE  Accounted(e)
  <2>1. \A n \in Tries : WaitingAt(e, n)' = WaitingAt(e, n)
    BY <1>9, TriesAreMessages DEF WaitingAt
  <2>2. Waiting(e)' = Waiting(e) BY <1>0, <2>1, WaitingSame
  <2>3. Cardinality(S) = Cardinality(T) BY <1>7, <1>9
  <2> QED BY <1>2, <1>4, <1>6, <1>9, <2>2, <2>3 DEF Accounted
<1>10. ASSUME NEW m \in Message, Expire(m) PROVE Accounted(e)
  <2>1. UNCHANGED <<handler, published>> /\ ready' = Add(ready, m) /\ delayed' = Remove(delayed, m)
    BY <1>10 DEF Expire
  <2>2. ready'[m] = ready[m] + 1 /\ delayed'[m] = delayed[m] - 1
        /\ \A x \in Message : x # m => ready'[x] = ready[x] /\ delayed'[x] = delayed[x]
    BY <1>0, <2>1 DEF Add, Remove, TypeOK
  <2>3. \A x \in Message : ready'[x] + delayed'[x] = ready[x] + delayed[x] BY <1>5, <2>2
  <2> QED BY <1>9, <2>1, <2>3
<1>11. ASSUME NEW h \in Handlers, NEW i \in Instances, NEW m \in Message, Deliver(h, i, m)
       PROVE  Accounted(e)
  <2>1. /\ ~ Busy(h) /\ ready' = Remove(ready, m) /\ UNCHANGED <<delayed, published>>
        /\ handler'[h].message = m /\ \A g \in Handlers \ {h} : handler'[g] = handler[g]
    BY <1>0, <1>11 DEF Deliver, TypeOK
  <2>2. ready'[m] = ready[m] - 1 /\ \A x \in Message : x # m => ready'[x] = ready[x]
    BY <1>0, <2>1 DEF Remove, TypeOK
  <2>3. ready'[m] + delayed'[m] = ready[m] + delayed[m] + (-1)
        /\ \A x \in Message : x # m => ready'[x] + delayed'[x] = ready[x] + delayed[x]
    BY <1>5, <2>1, <2>2
  <2>4. Waiting(e)' = IF m.event = e THEN Waiting(e) + (-1) ELSE Waiting(e)
    BY <1>0, <2>3, CopyWaits
  <2>5. \A g \in Handlers \ {h} : g \in S <=> g \in T BY <2>1 DEF AtWork, Busy, EventOf
  <2>6. h \in S => m.event = e BY <2>1 DEF AtWork, EventOf
  <2> HIDE DEF S, T
  <2>7. S \subseteq T \cup {h} /\ (m.event # e => S \subseteq T) BY <1>3, <2>5, <2>6
  <2>8. Cardinality(S) <= Cardinality(T) + 1 /\ (m.event # e => Cardinality(S) <= Cardinality(T))
    BY <1>3, <2>7, OneMoreOrLess
  <2>9. Cardinality(S) + Waiting(e)' + Cardinality(EndedOf(e))
          <= Cardinality(T) + Waiting(e) + Cardinality(StruckOf(e)) + published'[e] - published[e]
    BY <1>2, <1>4, <1>6, <2>1, <2>4, <2>8
  <2> QED BY <2>9 DEF S, T, Accounted
<1>12. CASE (\E i \in Instances : Start(i) \/ BeginShutdown(i) \/ CloseAfterDrain(i)) \/ UNCHANGED vars
  <2>1. UNCHANGED <<handler, published, ready, delayed>>
    BY <1>12 DEF Start, BeginShutdown, CloseAfterDrain, vars, queueVars
  <2> QED BY <1>9, <2>1
<1> QED BY <1>8, <1>10, <1>11, <1>12

(* A fault queues again what was not acknowledged, and that is struck.     *)
LEMMA FaultAccounts ==
  ASSUME Inv, TypeOK', NEW e \in Events, NEW i \in Instances, Drop(i) \/ Crash(i)
  PROVE  Accounted(e)
<1> DEFINE S == AtWork(e)'
           T == AtWork(e)
           U == Unacked(i)
           C == {h \in U : EventOf(h) = e}
<1>0. TypeOK BY DEF Inv
<1>1. /\ Requeue(U) /\ U \in SUBSET Handlers /\ UNCHANGED <<delayed, published>>
  BY DEF Drop, Crash, Unacked, InProgress
<1>2. \A h \in U : Busy(h) /\ handler[h].open /\ handler[h].message \in Message
  BY <1>0, BusyHandlers DEF Unacked, InProgress
<1>3. Fault
  <2>1. CASE Drop(i)
    <3>1. faults'.drops = faults.drops + 1 /\ faults.drops \in Nat
      BY <1>0, <2>1, Numbers DEF Drop, TypeOK
    <3> QED BY <3>1 DEF Fault
  <2>2. CASE Crash(i)
    <3>1. faults'.crashes = faults.crashes + 1 /\ faults.crashes \in Nat
      BY <1>0, <2>2, Numbers DEF Crash, TypeOK
    <3> QED BY <3>1 DEF Fault
  <2> QED BY <2>1, <2>2
<1>4. ASSUME NEW h \in Handlers
      PROVE  /\ h \in U => ~ (Busy(h)' /\ handler'[h].open)
             /\ Busy(h)' => Busy(h) /\ handler'[h].message = handler[h].message
                            /\ handler'[h].pc = handler[h].pc
  <2>1. CASE Drop(i)
    <3>1. handler' = [g \in Handlers |-> IF g \in U THEN [handler[g] EXCEPT !.open = FALSE]
                                                    ELSE handler[g]]
      BY <2>1 DEF Drop
    <3>2. CASE h \in U
      <4>1. handler[h] \in Invocation BY <1>0, <1>2, <3>2, BusyHandlers
      <4>2. handler'[h] = [handler[h] EXCEPT !.open = FALSE] BY <3>1, <3>2
      <4> QED BY <4>1, <4>2 DEF Invocation, Busy
    <3>3. CASE h \notin U
      <4>1. handler'[h] = handler[h] BY <3>1, <3>3
      <4> QED BY <3>3, <4>1 DEF Busy
    <3> QED BY <3>2, <3>3
  <2>2. CASE Crash(i)
    <3>1. handler' = [g \in Handlers |-> IF g \in InProgress(i) THEN Idle ELSE handler[g]]
      BY <2>2 DEF Crash
    <3>2. CASE h \in InProgress(i)
      <4>1. ~ Busy(h)' BY <3>1, <3>2 DEF Busy, Idle
      <4> QED BY <4>1
    <3>3. CASE h \notin InProgress(i)
      <4>1. handler'[h] = handler[h] /\ h \notin U BY <3>1, <3>3 DEF Unacked
      <4> QED BY <4>1 DEF Busy
    <3> QED BY <3>2, <3>3
  <2> QED BY <2>1, <2>2
<1>5. S \in SUBSET Handlers /\ T \in SUBSET Handlers /\ S \subseteq T
  BY <1>4 DEF AtWork, Busy, EventOf
<1>6. EndedOf(e) = {}
  <2>1. \A h \in Handlers : ~ Ends(h) BY <1>4 DEF Ends, At, Busy
  <2> QED BY <2>1 DEF EndedOf
<1>7. C \subseteq StruckOf(e)
  BY <1>1, <1>2, <1>3, <1>4 DEF StruckOf, Strikes
<1>8. Waiting(e)' = Waiting(e) + Cardinality(C) BY <1>0, <1>1, <1>2, WaitingRequeued
<1>9. Waiting(e) \in Nat /\ published[e] \in Nat
  BY <1>0, WaitingIsNatural, Numbers DEF TypeOK
<1>10. C \in SUBSET Handlers /\ StruckOf(e) \in SUBSET Handlers BY <1>1 DEF StruckOf
<1> HIDE DEF S, T, U, C
<1>11. /\ Cardinality(S) <= Cardinality(T) /\ Cardinality(S) \in Nat /\ Cardinality(T) \in Nat
  BY <1>5, OneMoreOrLess
<1>12. /\ Cardinality(C) <= Cardinality(StruckOf(e))
       /\ Cardinality(C) \in Nat /\ Cardinality(StruckOf(e)) \in Nat
  BY <1>7, <1>10, OneMoreOrLess
<1>13. Cardinality(EndedOf(e)) = 0 BY <1>6, FS_EmptySet
<1>14. Cardinality(S) + Waiting(e)' + Cardinality(EndedOf(e))
         <= Cardinality(T) + Waiting(e) + Cardinality(StruckOf(e)) + published'[e] - published[e]
  BY <1>1, <1>8, <1>9, <1>11, <1>12, <1>13
<1> QED BY <1>14 DEF S, T, Accounted

(* No delivery is repeated without cause: an event is dealt with, or under *)
(* way, no more often than it was published and struck by a fault.  A copy *)
(* is confirmed only after its handler is through with the event           *)
(* (scheduleRetry), and a stop closes the connection only when there is    *)
(* nothing left to acknowledge on it (beforeApplicationShutdown).          *)
THEOREM WorkIsDoneOnce == HistSpec => []WorkIsNotRepeated
<1>1. HistInit => DueInv
  <2> SUFFICES ASSUME HistInit PROVE DueInv OBVIOUS
  <2>1. Init /\ due = [e \in Events |-> 0] BY DEF HistInit
  <2>2. Inv BY <2>1, InitInv
  <2>3. ASSUME NEW e \in Events PROVE Cardinality(AtWork(e)) + Waiting(e) <= due[e]
    <3>1. AtWork(e) = {} BY <2>1 DEF Init, AtWork, Busy, Idle
    <3>2. \A n \in Tries : WaitingCopies(e)[n] = 0
      BY <2>1, TriesAreMessages DEF Init, WaitingCopies, WaitingAt
    <3>3. Waiting(e) = 0 BY <3>2, TriesAreMessages, SumOverNothing DEF Waiting
    <3> QED BY <2>1, <3>1, <3>3, FS_EmptySet
  <2> QED BY <2>1, <2>2, <2>3 DEF DueInv, WorkIsDue
<1>2. DueInv /\ [HistNext]_histVars => DueInv'
  <2> SUFFICES ASSUME DueInv, [HistNext]_histVars PROVE DueInv' OBVIOUS
  <2>1. Inv /\ TypeOK /\ due \in [Events -> Int] /\ WorkIsDue BY DEF DueInv, Inv
  <2>2. [Next]_vars BY DEF HistNext, histVars, vars
  <2>3. Inv' /\ TypeOK' BY <2>1, <2>2, InvStep DEF Inv
  <2>4. ASSUME NEW e \in Events PROVE Accounted(e)
    <3>1. ASSUME NEW h \in Handlers, Handle(h) PROVE Accounted(e)
      BY <2>1, <2>3, <3>1, HandlerAccounts
    <3>2. ASSUME NEW i \in Instances, Drop(i) \/ Crash(i) PROVE Accounted(e)
      BY <2>1, <2>3, <3>2, FaultAccounts
    <3> QED BY <2>1, <2>2, <2>3, <3>1, <3>2, BrokerAccounts DEF Next
  <2>5. CASE HistNext
    <3>1. due' = [e \in Events |-> due[e] + published'[e] - published[e]
                                    + Cardinality(StruckOf(e)) - Cardinality(EndedOf(e))]
      BY <2>5 DEF HistNext
    <3>2. ASSUME NEW e \in Events
          PROVE  /\ due'[e] = due[e] + published'[e] - published[e]
                              + Cardinality(StruckOf(e)) - Cardinality(EndedOf(e))
                 /\ due[e] \in Int /\ published[e] \in Int /\ published'[e] \in Int
                 /\ Cardinality(StruckOf(e)) \in Nat /\ Cardinality(EndedOf(e)) \in Nat
      <4>1. published[e] \in Int /\ published'[e] \in Int BY <2>1, <2>3, Numbers DEF TypeOK
      <4>2. StruckOf(e) \in SUBSET Handlers /\ EndedOf(e) \in SUBSET Handlers
        BY DEF StruckOf, EndedOf
      <4> QED BY <2>1, <3>1, <4>1, <4>2, WorkIsFinite
    <3>3. ASSUME NEW e \in Events PROVE due'[e] \in Int BY <3>2
    <3>4. due' \in [Events -> Int] BY <3>1, <3>3
    <3>5. ASSUME NEW e \in Events PROVE Cardinality(AtWork(e))' + Waiting(e)' <= due'[e]
      <4> DEFINE s == Cardinality(AtWork(e)')
                 t == Cardinality(AtWork(e))
      <4>1. /\ s + Waiting(e)' + Cardinality(EndedOf(e))
                 <= t + Waiting(e) + Cardinality(StruckOf(e)) + published'[e] - published[e]
            /\ t + Waiting(e) <= due[e]
        BY <2>1, <2>4 DEF Accounted, WorkIsDue
      <4>2. s \in Nat /\ t \in Nat
        <5>1. AtWork(e)' \in SUBSET Handlers /\ AtWork(e) \in SUBSET Handlers BY DEF AtWork
        <5> QED BY <5>1, WorkIsFinite
      <4>3. Waiting(e) \in Nat /\ Waiting(e)' \in Nat
        BY <2>1, <2>3, WaitingIsNatural, WaitingStaysNatural
      <4> HIDE DEF s, t
      <4>4. s + Waiting(e)' <= due'[e] BY <3>2, <4>1, <4>2, <4>3
      <4> QED BY <4>4 DEF s
    <3> QED BY <2>3, <3>4, <3>5 DEF DueInv, WorkIsDue
  <2>6. CASE UNCHANGED histVars
    <3>1. UNCHANGED <<due, handler, ready, delayed>>
      BY <2>6 DEF histVars, vars, historyVars, queueVars
    <3>2. ASSUME NEW e \in Events PROVE Cardinality(AtWork(e))' + Waiting(e)' <= due'[e]
      <4>1. AtWork(e)' = AtWork(e) /\ WaitingCopies(e)' = WaitingCopies(e)
        BY <3>1 DEF AtWork, Busy, EventOf, WaitingCopies, WaitingAt
      <4>2. Waiting(e)' = Waiting(e) BY <4>1 DEF Waiting
      <4> QED BY <2>1, <3>1, <4>1, <4>2 DEF WorkIsDue
    <3> QED BY <2>1, <2>3, <3>1, <3>2 DEF DueInv, WorkIsDue
  <2> QED BY <2>5, <2>6
<1>3. DueInv => WorkIsNotRepeated
  <2> SUFFICES ASSUME DueInv, NEW e \in Events PROVE Cardinality(AtWork(e)) <= due[e]
    BY DEF WorkIsNotRepeated
  <2>1. Waiting(e) \in Nat /\ Cardinality(AtWork(e)) \in Nat
        /\ Cardinality(AtWork(e)) + Waiting(e) <= due[e] /\ due[e] \in Int
    BY WaitingIsNatural, WorkIsFinite DEF DueInv, Inv, WorkIsDue
  <2> QED BY <2>1
<1> QED BY <1>1, <1>2, <1>3, PTL DEF HistSpec
=============================================================================
