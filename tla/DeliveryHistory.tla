--------------------------- MODULE DeliveryHistory ---------------------------
(***************************************************************************)
(* EnergyEvents with a history of its deliveries, for the properties that  *)
(* speak of what has already been done with an event.  The history only    *)
(* watches: every step is a step of EnergyEvents, and none is prevented.   *)
(***************************************************************************)
EXTENDS EnergyEvents

VARIABLES
    due,        \* how often each event is still to be dealt with: once more
                \* for each publication and each delivery a fault gave back
    abandoned   \* events a handler was lost with and did not hand on

historyVars == <<due, abandoned>>
histVars == <<vars, historyVars>>

(* Under way: from the delivery on, until the event is dealt with, a copy  *)
(* of it waits in a retry queue, or the handler gives up.                  *)
AtWork(e) == {h \in Handlers : /\ Busy(h) /\ EventOf(h) = e
                               /\ handler[h].pc \notin {"done", "throwing"}}

(* The handler comes to its end: the row is stored, and matched if it      *)
(* needed a matching run, or the message is parked.  One that published a  *)
(* retry copy has not come to an end with its event.                       *)
Ends(h) == Busy(h) /\ handler[h].pc \notin {"done", "retrying"} /\ At(h, "done")'

(* The broker queues a delivery again because the process that had it died *)
(* or its connection dropped.                                              *)
Fault == faults'.crashes > faults.crashes \/ faults'.drops > faults.drops
Strikes(h) == /\ Fault /\ Busy(h) /\ handler[h].open
              /\ ~ (Busy(h)' /\ handler'[h].open)

StruckOf(e) == {h \in Handlers : Strikes(h) /\ EventOf(h) = e}
EndedOf(e) == {h \in Handlers : Ends(h) /\ EventOf(h) = e}

(* A handler is lost before it is done: its process dies, or it gives up   *)
(* when the channel its message came on is no longer there to nack it on.  *)
CutShort(h) == /\ Busy(h) /\ ~ At(h, "done") /\ ~ Busy(h)'
               /\ faults'.crashes > faults.crashes \/ ~ handler[h].open

HistInit ==
    /\ Init
    /\ due = [e \in Events |-> 0]
    /\ abandoned = {}

HistNext ==
    /\ Next
    /\ due' = [e \in Events |-> due[e] + published'[e] - published[e]
                               + Cardinality(StruckOf(e)) - Cardinality(EndedOf(e))]
    /\ abandoned' = abandoned \cup {EventOf(h) : h \in {g \in Handlers : CutShort(g)}}

HistSpec == HistInit /\ [][HistNext]_histVars

-----------------------------------------------------------------------------
(* Properties *)

(* No delivery is repeated without cause.  Whatever is under way for an    *)
(* event is due: it has been dealt with, or is being dealt with, no more   *)
(* often than it was published, and once more for each delivery of it that *)
(* a dead process or a dropped connection gave back.  A failure, a retry,  *)
(* a publish whose confirm is lost and an orderly stop (which waits for    *)
(* the deliveries in progress before it closes the connection they have to *)
(* be acknowledged on) never repeat the work.                              *)
(* (handleEnergyEvent, scheduleRetry, beforeApplicationShutdown)           *)
WorkIsNotRepeated ==
    \A e \in Events : Cardinality(AtWork(e)) <= due[e]

(* A stored row is matched, or a matching run for it is still to come: a   *)
(* handler is at work on its event, or a copy of it waits with a retry     *)
(* header, or it is parked for someone to look at.  The one way to forget  *)
(* it is to lose a handler of that very event, with its process or without *)
(* a channel to nack on; a fault that strikes another event does no harm.  *)
(* (handleEnergyEvent: "whatever failed afterwards still needs doing")     *)
UnmatchedIsRemembered ==
    \A e \in stored \ matched :
        \/ e \in abandoned \/ IsParked(e)
        \/ \E h \in Handlers : Busy(h) /\ EventOf(h) = e /\ ~ At(h, "done")
        \/ \E m \in Message : m.event = e /\ m.retries > 0 /\ (ready[m] > 0 \/ delayed[m] > 0)
=============================================================================
