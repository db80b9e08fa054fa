--------------------------- MODULE OutboxPublisher ---------------------------
(***************************************************************************)
(* The outbox publisher of the smart-meter service: passes that move       *)
(* pending rows to the broker, the deadline of each publish, the messages  *)
(* the broker returns, and the stop that waits for the publish in hand.    *)
(*                                                                         *)
(* The AMQP library keeps a publish while the broker is away and sends it  *)
(* again after a reconnect until it is confirmed; a publish whose deadline *)
(* has passed stays with the library, and nobody waits for it any more.    *)
(* A returned message is reported before its publish is confirmed.         *)
(***************************************************************************)
EXTENDS Integers, FiniteSets

CONSTANTS
    OutboxRows,   \* events, numbered by createdAt
    Instances,    \* processes of the smart-meter service
    BatchSize,    \* BATCH_SIZE
    MaxFaults,    \* bound: deadlines, lost confirms, failed updates, crashes
    MaxOutages,   \* bound: times the broker goes away
    MaxStops      \* bound: orderly shutdowns

ASSUME OutboxAssumption ==
    /\ OutboxRows \subseteq Nat /\ BatchSize \in Nat \ {0}
    /\ MaxFaults \in Nat /\ MaxOutages \in Nat /\ MaxStops \in Nat

VARIABLES
    outbox,       \* outbox_events.status, "ABSENT" before the row exists
    routed,       \* how many copies of each event have reached a queue
    bound,        \* a queue is bound to the exchange
    online,       \* the broker can be reached
    pass,         \* per instance: the pass in progress
    orphans,      \* per instance: publishes of the library nobody waits for
    returned,     \* per instance: the set of the same name
    mode,         \* "running", "stopping" (stopped is set), "down"
    excused,      \* history: events a second copy of which has a reason
    faults, outages, stops

brokerVars == <<routed, bound, online>>
boundVars == <<faults, outages, stops>>
vars == <<outbox, brokerVars, pass, orphans, returned, mode, excused, boundVars>>

(* A pass: the rows it has still to publish, and the publish it waits for, *)
(* which is with the library ("buffered"), handled by the broker ("sent"), *)
(* or confirmed and to be marked ("marking").                              *)
NoPass == [at |-> "none"]
Pass == [at : {"next", "buffered", "sent", "marking"}, rows : SUBSET OutboxRows]

TypeOK ==
    /\ outbox \in [OutboxRows -> {"ABSENT", "PENDING", "PUBLISHED"}]
    /\ routed \in [OutboxRows -> Nat]
    /\ \A r \in OutboxRows : outbox[r] = "ABSENT" => routed[r] = 0
    /\ bound \in BOOLEAN /\ online \in BOOLEAN
    /\ pass \in [Instances -> Pass \cup {NoPass}]
    /\ \A i \in Instances : pass[i].at \in {"buffered", "sent", "marking"} => pass[i].rows # {}
    /\ orphans \in [Instances -> SUBSET OutboxRows]
    /\ returned \in [Instances -> SUBSET OutboxRows]
    /\ mode \in [Instances -> {"running", "stopping", "down"}]
    /\ excused \subseteq OutboxRows

-----------------------------------------------------------------------------
Pending == {r \in OutboxRows : outbox[r] = "PENDING"}
Oldest(rows) == CHOOSE r \in rows : \A q \in rows : r <= q
Batch == {r \in Pending : Cardinality({q \in Pending : q < r}) < BatchSize}

At(i, point) == pass[i].at = point
InHand(i) == Oldest(pass[i].rows)
Waiting(i) == pass[i].at \in {"buffered", "sent"}
Goto(i, point) == pass' = [pass EXCEPT ![i].at = point]
EndPass(i) == pass' = [pass EXCEPT ![i] = NoPass]
NextRow(i) == pass' = [pass EXCEPT ![i] = [at |-> "next", rows |-> @.rows \ {InHand(i)}]]
Fault == faults < MaxFaults /\ faults' = faults + 1
(* The events that instances were publishing, or had published, when what  *)
(* the broker said of it was lost.                                         *)
Excuse(instances) ==
    excused' = excused \cup {InHand(i) : i \in {j \in instances : Waiting(j) \/ At(j, "marking")}}
(* The events a pass of another instance has yet to publish, or to mark.   *)
TakenUp(i) == UNION {pass[j].rows : j \in {k \in Instances \ {i} : ~ At(k, "none")}}

Init ==
    /\ outbox = [r \in OutboxRows |-> "ABSENT"] /\ routed = [r \in OutboxRows |-> 0]
    /\ bound = FALSE /\ online = TRUE
    /\ pass = [i \in Instances |-> NoPass]
    /\ orphans = [i \in Instances |-> {}] /\ returned = [i \in Instances |-> {}]
    /\ mode = [i \in Instances |-> "running"]
    /\ excused = {} /\ faults = 0 /\ outages = 0 /\ stops = 0

(* createReading commits a row; the trade-matching service declares and    *)
(* binds its queue, which stays; the broker goes away and comes back.      *)
AddRow(r) ==
    /\ outbox[r] = "ABSENT" /\ outbox' = [outbox EXCEPT ![r] = "PENDING"]
    /\ UNCHANGED <<brokerVars, pass, orphans, returned, mode, excused, boundVars>>

BindQueue ==
    /\ ~ bound /\ bound' = TRUE
    /\ UNCHANGED <<outbox, routed, online, pass, orphans, returned, mode, excused, boundVars>>

(* Confirms on their way are lost; the library sends again what was not    *)
(* confirmed.                                                              *)
GoOffline ==
    /\ online /\ outages < MaxOutages
    /\ online' = FALSE /\ outages' = outages + 1
    /\ Excuse({i \in Instances : At(i, "sent")})
    /\ pass' = [i \in Instances |-> IF At(i, "sent") THEN [pass[i] EXCEPT !.at = "buffered"]
                                    ELSE pass[i]]
    /\ UNCHANGED <<outbox, routed, bound, orphans, returned, mode, faults, stops>>

ComeBack ==
    /\ ~ online /\ online' = TRUE
    /\ UNCHANGED <<outbox, routed, bound, pass, orphans, returned, mode, excused, boundVars>>

-----------------------------------------------------------------------------
(* drain: the timer, or a reading just stored. *)
OverlappingPass(i) ==   \* mutant: a pass may start while one is in progress
    /\ mode[i] = "running" /\ Batch # {}
    /\ pass' = [pass EXCEPT ![i] = [at |-> "next", rows |-> Batch]]
    /\ excused' = excused \cup (Batch \cap TakenUp(i))
    /\ orphans' = [orphans EXCEPT ![i] = @ \cup (IF At(i, "buffered") THEN {InHand(i)} ELSE {})]
    /\ UNCHANGED <<outbox, brokerVars, returned, mode, boundVars>>

StartPass(i) ==
    /\ mode[i] = "running" /\ At(i, "none") /\ Batch # {}
    /\ pass' = [pass EXCEPT ![i] = [at |-> "next", rows |-> Batch]]
    /\ excused' = excused \cup (Batch \cap TakenUp(i))
    /\ UNCHANGED <<outbox, brokerVars, orphans, returned, mode, boundVars>>

(* The pass ends when its rows are done, or when a stop has begun.         *)
FinishOnStop(i) ==   \* mutant: the pass in progress is not forgotten when it is done
    /\ At(i, "next") /\ mode[i] = "stopping"
    /\ EndPass(i)
    /\ UNCHANGED <<outbox, brokerVars, orphans, returned, mode, excused, boundVars>>

FinishPass(i) ==
    /\ At(i, "next") /\ (pass[i].rows = {} \/ mode[i] = "stopping")
    /\ EndPass(i)
    /\ UNCHANGED <<outbox, brokerVars, orphans, returned, mode, excused, boundVars>>

PublishOne(i) ==
    /\ At(i, "next") /\ pass[i].rows # {} /\ mode[i] = "running"
    /\ Goto(i, "buffered")
    /\ UNCHANGED <<outbox, brokerVars, orphans, returned, mode, excused, boundVars>>

(* The broker handles a publish: to the queue, or returned to its sender.  *)
(* Written for a publish a pass waits for, and for an orphan.              *)
RouteOrReturn(i, r) ==
    /\ routed' = IF bound THEN [routed EXCEPT ![r] = @ + 1] ELSE routed
    /\ returned' = IF bound THEN returned ELSE [returned EXCEPT ![i] = @ \cup {r}]

Send(i) ==
    /\ online /\ At(i, "buffered")
    /\ RouteOrReturn(i, InHand(i))
    /\ Goto(i, "sent")
    /\ UNCHANGED <<outbox, bound, online, orphans, mode, excused, boundVars>>

SendOrphan(i, r) ==
    /\ online /\ r \in orphans[i]
    /\ RouteOrReturn(i, r)
    /\ orphans' = [orphans EXCEPT ![i] = @ \ {r}]
    /\ UNCHANGED <<outbox, bound, online, pass, mode, excused, boundVars>>

(* The confirm arrives in time.  A row whose id is in the set of returned  *)
(* messages stays pending, and the pass goes on to the next one; if that   *)
(* cannot be recorded the pass ends.                                       *)
ConfirmIsPublished(i) ==   \* mutant: returned messages are not looked at
    /\ online /\ At(i, "sent")
    /\ Goto(i, "marking")
    /\ UNCHANGED <<outbox, brokerVars, orphans, returned, mode, excused, boundVars>>

Confirm(i) ==
    /\ online /\ At(i, "sent")
    /\ IF InHand(i) \in returned[i]
       THEN /\ returned' = [returned EXCEPT ![i] = @ \ {InHand(i)}]
            /\ \/ NextRow(i) /\ UNCHANGED faults
               \/ EndPass(i) /\ Fault
       ELSE Goto(i, "marking") /\ UNCHANGED <<returned, faults>>
    /\ UNCHANGED <<outbox, brokerVars, orphans, mode, excused, outages, stops>>

MarkPublished(i) ==
    /\ At(i, "marking")
    /\ outbox' = [outbox EXCEPT ![InHand(i)] = "PUBLISHED"]
    /\ NextRow(i)
    /\ UNCHANGED <<brokerVars, orphans, returned, mode, excused, boundVars>>

MarkFails(i) ==
    /\ At(i, "marking") /\ Fault /\ EndPass(i) /\ Excuse({i})
    /\ UNCHANGED <<outbox, brokerVars, orphans, returned, mode, outages, stops>>

(* withDeadline: the pass gives up on the broker; what the library still   *)
(* holds is sent some time.                                                *)

Deadline(i) ==
    /\ Waiting(i)
    /\ IF online THEN Fault ELSE UNCHANGED faults
    /\ orphans' = [orphans EXCEPT ![i] = @ \cup (IF At(i, "buffered") THEN {InHand(i)} ELSE {})]
    /\ EndPass(i) /\ Excuse({i})
    /\ UNCHANGED <<outbox, brokerVars, returned, mode, outages, stops>>

-----------------------------------------------------------------------------
(* The process stops, dies and starts; what the library holds is lost.     *)

Forget(i) ==
    /\ orphans' = [orphans EXCEPT ![i] = {}] /\ returned' = [returned EXCEPT ![i] = {}]
    /\ mode' = [mode EXCEPT ![i] = "down"]

BeginStop(i) ==
    /\ mode[i] = "running" /\ stops < MaxStops /\ stops' = stops + 1
    /\ mode' = [mode EXCEPT ![i] = "stopping"]
    /\ UNCHANGED <<outbox, brokerVars, pass, orphans, returned, excused, faults, outages>>

CloseAfterPass(i) ==
    /\ mode[i] = "stopping" /\ At(i, "none") /\ Forget(i)
    /\ UNCHANGED <<outbox, brokerVars, pass, excused, boundVars>>

Crash(i) ==
    /\ mode[i] # "down" /\ Fault /\ EndPass(i) /\ Excuse({i}) /\ Forget(i)
    /\ UNCHANGED <<outbox, brokerVars, outages, stops>>

Start(i) ==
    /\ mode[i] = "down" /\ mode' = [mode EXCEPT ![i] = "running"]
    /\ UNCHANGED <<outbox, brokerVars, pass, orphans, returned, excused, boundVars>>

-----------------------------------------------------------------------------
Drain(i) == \/ StartPass(i) \/ FinishPass(i) \/ PublishOne(i) \/ Send(i) \/ Confirm(i)
            \/ MarkPublished(i)
Disturb(i) == \/ Deadline(i) \/ MarkFails(i) \/ BeginStop(i) \/ Crash(i)

Next ==
    \/ \E r \in OutboxRows : AddRow(r)
    \/ BindQueue \/ GoOffline \/ ComeBack
    \/ \E i \in Instances : \/ Drain(i) \/ Disturb(i)
                            \/ \E r \in OutboxRows : SendOrphan(i, r)
                            \/ CloseAfterPass(i) \/ Start(i)

Spec == Init /\ [][Next]_vars

(* The timer keeps starting passes, a deadline expires unless an answer    *)
(* comes first, processes are started again.  Nothing is assumed of the    *)
(* broker, which may stay away: that is FairBroker's.                      *)
FairSpec ==
    /\ Spec
    /\ \A i \in Instances :
         /\ WF_vars(StartPass(i) \/ FinishPass(i) \/ PublishOne(i) \/ MarkPublished(i))
         /\ WF_vars(Send(i) \/ Confirm(i) \/ Deadline(i))
         /\ WF_vars(CloseAfterPass(i)) /\ WF_vars(Start(i))
FairBroker ==
    /\ FairSpec /\ WF_vars(ComeBack) /\ WF_vars(BindQueue)
    /\ \A i \in Instances : SF_vars(Send(i)) /\ SF_vars(Confirm(i))

-----------------------------------------------------------------------------
(* Properties *)

(* A row marked PUBLISHED has reached a queue: a returned message, a       *)
(* confirm that comes too late or not at all never make it so.             *)
(* (publishOne)                                                            *)
PublishedWasRouted == \A r \in OutboxRows : outbox[r] = "PUBLISHED" => routed[r] > 0

(* An event is published twice only after its deadline, its confirm or its *)
(* update was lost, or when a pass began that found it, still pending, in  *)
(* the pass of another instance: an orderly stop, an instance's own drains *)
(* that overlap, or a queue bound late is no reason.                       *)
(* (drain, beforeApplicationShutdown)                                      *)
DuplicatesHaveACause == \A r \in OutboxRows : routed[r] > 1 => r \in excused

(* An unreachable broker does not hold up a shutdown.  (withDeadline)      *)
StopEnds == \A i \in Instances : mode[i] = "stopping" ~> mode[i] = "down"

(* Every event is published once a queue is bound and the broker is back,  *)
(* also the ones behind it in the outbox.                                  *)
EveryRowIsPublished == \A r \in OutboxRows : outbox[r] = "PENDING" ~> outbox[r] = "PUBLISHED"
=============================================================================
