-------------------------- MODULE ExactlyOnceLedger --------------------------
(***************************************************************************)
(* What the ledger promises its callers: every request is answered, or     *)
(* abandoned without effect, in one step that looks at everything recorded *)
(* and records a trade and moves its money together.  BillingLedger        *)
(* implements it with unique indexes and row locks.                        *)
(***************************************************************************)
EXTENDS LedgerRequests

VARIABLES
    request,    \* what each handler was asked, None when it is free
    reply,      \* its answer, None before there is one
    recorded,   \* the payload recorded under each key
    balance     \* of each household, in hundredths

vars == <<request, reply, recorded, balance>>

EarlierRecorded == [k \in Keys |->
    IF k \in Unhashed
    THEN Earlier[CHOOSE t \in Trades : Earlier[t] # None /\ Earlier[t].key = k].payload
    ELSE None]

Init ==
    /\ request = [h \in Handlers |-> None]
    /\ reply = [h \in Handlers |-> None]
    /\ recorded = EarlierRecorded
    /\ balance = EarlierBalance

Ask(h) ==
    /\ request[h] = None
    /\ \E r \in Requests : request' = [request EXCEPT ![h] = r]
    /\ UNCHANGED <<reply, recorded, balance>>

Waiting(h) == request[h] # None /\ reply[h] = None
Say(h, r) == reply' = [reply EXCEPT ![h] = r]

(* An impossible trade is refused, whatever has been recorded. *)
Reject(h) ==
    /\ Waiting(h)
    /\ ~ Possible(request[h].payload)
    /\ Say(h, Refusal("rejected"))
    /\ UNCHANGED <<request, recorded, balance>>

(* A key already used gets the trade recorded under it if it was used for  *)
(* the same request, and a conflict otherwise.                             *)
AnswerKnownKey(h) ==
    LET known == recorded[request[h].key] IN
    /\ Waiting(h)
    /\ Possible(request[h].payload)
    /\ known # None
    /\ Say(h, IF known = request[h].payload \/ request[h].key \in Unhashed
              THEN [outcome |-> "replayed", trade |-> known]
              ELSE Refusal("keyConflict"))
    /\ UNCHANGED <<request, recorded, balance>>

RecordedTrades == {recorded[k].trade : k \in {j \in Keys : recorded[j] # None}}

(* A trade already recorded under another key is not recorded again. *)
RefuseKnownTrade(h) ==
    /\ Waiting(h)
    /\ Possible(request[h].payload)
    /\ recorded[request[h].key] = None
    /\ request[h].payload.trade \in RecordedTrades
    /\ Say(h, Refusal("tradeConflict"))
    /\ UNCHANGED <<request, recorded, balance>>

(* A new trade under a new key is recorded, and its money moved with it. *)
Record(h) ==
    LET p == request[h].payload IN
    /\ Waiting(h)
    /\ Possible(p)
    /\ recorded[request[h].key] = None
    /\ p.trade \notin RecordedTrades
    /\ recorded' = [recorded EXCEPT ![request[h].key] = p]
    /\ balance' = [x \in Households |-> balance[x] + Movement(p, x)]
    /\ Say(h, [outcome |-> "created", trade |-> p])
    /\ UNCHANGED request

(* The caller never hears, and nothing was done. *)
Abandon(h) ==
    /\ Waiting(h)
    /\ request' = [request EXCEPT ![h] = None]
    /\ UNCHANGED <<reply, recorded, balance>>

(* The answer leaves; whether it arrives makes no difference to the ledger. *)
Deliver(h) ==
    /\ reply[h] # None
    /\ request' = [request EXCEPT ![h] = None]
    /\ reply' = [reply EXCEPT ![h] = None]
    /\ UNCHANGED <<recorded, balance>>

Next == \E h \in Handlers :
    \/ Ask(h)    \/ Reject(h)  \/ AnswerKnownKey(h) \/ RefuseKnownTrade(h)
    \/ Record(h) \/ Abandon(h) \/ Deliver(h)

Spec == Init /\ [][Next]_vars
=============================================================================
