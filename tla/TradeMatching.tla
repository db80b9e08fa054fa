---------------------------- MODULE TradeMatching ----------------------------
(***************************************************************************)
(* The trade-matching service: sell offers and buy requests, the trades    *)
(* that reserve energy on both of them, and matching runs that plan,       *)
(* reserve, call billing and record its answer.                            *)
(*                                                                         *)
(* Any number of runs may be under way at once: the event consumer starts  *)
(* one per stored event, an operator starts one with POST /matching/run,   *)
(* and every instance of the service does both against the same tables.    *)
(* A step of a run is one database transaction or one end of the billing   *)
(* call; everything between two such points is local to the run.           *)
(*                                                                         *)
(* Billing is present as far as this service can tell: the set of trades   *)
(* it has recorded, the requests still on their way to it, and whether it  *)
(* accepts this service's credentials.                                     *)
(***************************************************************************)
EXTENDS FifoMatching, Totals, FiniteSets

CONSTANTS
    OfferKwh,              \* originalKwh of each offer
    RequestKwh,            \* originalKwh of each request
    Runs,                  \* matching runs that may be under way at once
    MaxTrades,             \* bound: trades ever reserved
    SettlementBatchSize,   \* SETTLEMENT_BATCH_SIZE
    PayloadMayBeRefused,   \* billing's rules may refuse a trade for what it says
    CredentialsMayBreak    \* billing's internal-service token may be changed

TradeIds == 1 .. MaxTrades

ASSUME MatchingAssumption ==
    /\ NOffers \in Nat /\ NRequests \in Nat /\ MaxTrades \in Nat
    /\ SettlementBatchSize \in Nat \ {0}
    /\ OfferKwh \in [Offers -> Nat \ {0}]
    /\ RequestKwh \in [Requests -> Nat \ {0}]
    /\ PayloadMayBeRefused \in BOOLEAN
    /\ CredentialsMayBreak \in BOOLEAN

VARIABLES
    available,       \* sell_offers.availableKwh
    offerStatus,     \* sell_offers.status, "ABSENT" before the row exists
    requested,       \* buy_requests.requestedKwh
    requestStatus,   \* buy_requests.status
    trades,          \* trade_matches; the id order is the createdAt order
    pc,              \* where each run is
    batch,           \* pending trades a run read and has still to settle
    current,         \* the trade a run is billing, 0 when none
    offerLeft,       \* what the run's plan has left of the offers it read
    requestLeft,     \* ... and of the requests
    answer,          \* billing's answer to the run's outstanding call
    late,            \* requests nobody waits for that billing may yet handle
    recorded,        \* trades billing has recorded
    credentialsValid \* whether billing accepts this service's token

bookVars == <<available, offerStatus, requested, requestStatus>>
planVars == <<offerLeft, requestLeft>>
runVars == <<pc, batch, current, offerLeft, requestLeft, answer>>
billingVars == <<late, recorded, credentialsValid>>
vars == <<bookVars, trades, runVars, billingVars>>

OrderStatus == {"ABSENT", "OPEN", "PARTIALLY_MATCHED", "MATCHED"}
TradeStatus == {"PENDING_BILLING", "COMPLETED", "FAILED"}
RunPoint == {"idle", "settle", "plan", "offersRead", "requestsRead", "price",
             "reserve", "bill", "await"}

Trade == [status : TradeStatus, offer : Offers, request : Requests,
          kwh : Nat \ {0}, acceptable : BOOLEAN]
NoTrade == [status |-> "NONE"]

TypeOK ==
    /\ available \in [Offers -> Nat]
    /\ offerStatus \in [Offers -> OrderStatus]
    /\ requested \in [Requests -> Nat]
    /\ requestStatus \in [Requests -> OrderStatus]
    /\ trades \in [TradeIds -> Trade \cup {NoTrade}]
    /\ pc \in [Runs -> RunPoint]
    /\ batch \in [Runs -> SUBSET TradeIds]
    /\ current \in [Runs -> TradeIds \cup {0}]
    /\ offerLeft \in [Runs -> [Offers -> Nat]]
    /\ requestLeft \in [Runs -> [Requests -> Nat]]
    /\ answer \in [Runs -> {"none", "recorded", "refused"}]
    /\ late \in SUBSET TradeIds
    /\ recorded \in SUBSET TradeIds
    /\ credentialsValid \in BOOLEAN

-----------------------------------------------------------------------------
(* Reading the tables *)

Exists(t) == trades[t].status # "NONE"
Pending == {t \in TradeIds : trades[t].status = "PENDING_BILLING"}

(* The batch a run settles first: the oldest pending trades. *)
OldestPending ==
    {t \in Pending : Cardinality({u \in Pending : u < t}) < SettlementBatchSize}

(* What is left on the rows a run reads for planning; a row that is not    *)
(* OPEN or PARTIALLY_MATCHED is not read, which is as if it had nothing.   *)
OnlyUntouched == {"OPEN"}   \* mutant: a partly matched row is never read
OpenStatus == {"OPEN", "PARTIALLY_MATCHED"}
OpenOffers == [o \in Offers |-> IF offerStatus[o] \in OpenStatus
                                THEN available[o] ELSE 0]
OpenRequests == [q \in Requests |-> IF requestStatus[q] \in OpenStatus
                                    THEN requested[q] ELSE 0]

(* OPEN, PARTIALLY_MATCHED and MATCHED are views of how much is left. *)
StatusFor(remaining, original) ==
    IF remaining = 0 THEN "MATCHED"
    ELSE IF remaining >= original THEN "OPEN"
    ELSE "PARTIALLY_MATCHED"

-----------------------------------------------------------------------------
(* Writing the tables: the energy of one offer and one request changes     *)
(* together, and both statuses are brought in line in the same             *)
(* transaction.                                                            *)

TakeEnergy(o, q, kwh) ==
    /\ available' = [available EXCEPT ![o] = @ - kwh]
    /\ requested' = [requested EXCEPT ![q] = @ - kwh]
    /\ offerStatus' = [offerStatus EXCEPT ![o] = StatusFor(available[o] - kwh, OfferKwh[o])]
    /\ requestStatus' = [requestStatus EXCEPT ![q] = StatusFor(requested[q] - kwh, RequestKwh[q])]

(* Mutants: only the seller gets its energy back; the offer is reset to    *)
(* all it ever had.                                                        *)
GiveBackToSeller(o, q, kwh) ==
    /\ available' = [available EXCEPT ![o] = @ + kwh]
    /\ offerStatus' = [offerStatus EXCEPT ![o] = StatusFor(available[o] + kwh, OfferKwh[o])]
    /\ UNCHANGED <<requested, requestStatus>>

GiveBackEnergy(o, q, kwh) ==
    /\ available' = [available EXCEPT ![o] = @ + kwh]
    /\ requested' = [requested EXCEPT ![q] = @ + kwh]
    /\ offerStatus' = [offerStatus EXCEPT ![o] = StatusFor(available[o] + kwh, OfferKwh[o])]
    /\ requestStatus' = [requestStatus EXCEPT ![q] = StatusFor(requested[q] + kwh, RequestKwh[q])]

(* The database refuses a row with more left than it started with. *)
FitsOriginal(t) ==
    /\ available[trades[t].offer] + trades[t].kwh <= OfferKwh[trades[t].offer]
    /\ requested[trades[t].request] + trades[t].kwh <= RequestKwh[trades[t].request]

-----------------------------------------------------------------------------
Nothing == [o \in Offers |-> 0]
NothingWanted == [q \in Requests |-> 0]

Init ==
    /\ available = Nothing
    /\ offerStatus = [o \in Offers |-> "ABSENT"]
    /\ requested = NothingWanted
    /\ requestStatus = [q \in Requests |-> "ABSENT"]
    /\ trades = [t \in TradeIds |-> NoTrade]
    /\ pc = [r \in Runs |-> "idle"]
    /\ batch = [r \in Runs |-> {}]
    /\ current = [r \in Runs |-> 0]
    /\ offerLeft = [r \in Runs |-> Nothing]
    /\ requestLeft = [r \in Runs |-> NothingWanted]
    /\ answer = [r \in Runs |-> "none"]
    /\ late = {}
    /\ recorded = {}
    /\ credentialsValid = TRUE

-----------------------------------------------------------------------------
(* New rows, inserted by the event consumer in the order they are made. *)

PlaceOffer(o) ==
    /\ offerStatus[o] = "ABSENT"
    /\ \A p \in Offers : p < o => offerStatus[p] # "ABSENT"
    /\ available' = [available EXCEPT ![o] = OfferKwh[o]]
    /\ offerStatus' = [offerStatus EXCEPT ![o] = "OPEN"]
    /\ UNCHANGED <<requested, requestStatus, trades, runVars, billingVars>>

PlaceRequest(q) ==
    /\ requestStatus[q] = "ABSENT"
    /\ \A p \in Requests : p < q => requestStatus[p] # "ABSENT"
    /\ requested' = [requested EXCEPT ![q] = RequestKwh[q]]
    /\ requestStatus' = [requestStatus EXCEPT ![q] = "OPEN"]
    /\ UNCHANGED <<available, offerStatus, trades, runVars, billingVars>>

-----------------------------------------------------------------------------
(* A matching run *)

(* The run is working through pending trades, not through its own plan. *)
Settling(r) == batch[r] # {}

GoIdle(r) ==
    /\ pc' = [pc EXCEPT ![r] = "idle"]
    /\ batch' = [batch EXCEPT ![r] = {}]
    /\ current' = [current EXCEPT ![r] = 0]
    /\ offerLeft' = [offerLeft EXCEPT ![r] = Nothing]
    /\ requestLeft' = [requestLeft EXCEPT ![r] = NothingWanted]
    /\ answer' = [answer EXCEPT ![r] = "none"]

(* Mutant: trades left unconfirmed are not looked at. *)
BeginRunWithoutSettling(r) ==
    /\ pc[r] = "idle"
    /\ pc' = [pc EXCEPT ![r] = "plan"]
    /\ UNCHANGED <<bookVars, trades, batch, current, planVars, answer, billingVars>>

(* A run starts by reading the trades an earlier run left unconfirmed. *)
BeginRun(r) ==
    /\ pc[r] = "idle"
    /\ batch' = [batch EXCEPT ![r] = OldestPending]
    /\ pc' = [pc EXCEPT ![r] = IF OldestPending = {} THEN "plan" ELSE "settle"]
    /\ UNCHANGED <<bookVars, trades, current, planVars, answer, billingVars>>

(* billAndSettle on the oldest trade of the batch: the request goes out. *)
BillPending(r, t) ==
    /\ pc[r] = "settle"
    /\ t \in batch[r] /\ \A u \in batch[r] : t <= u
    /\ current' = [current EXCEPT ![r] = t]
    /\ pc' = [pc EXCEPT ![r] = "await"]
    /\ UNCHANGED <<bookVars, trades, batch, planVars, answer, billingVars>>

(* Open offers and open requests are read by two queries under way at the  *)
(* same time: other transactions may commit between them.                  *)
ReadOneSide(r) ==
    /\ pc[r] = "plan"
    /\ \/ /\ offerLeft' = [offerLeft EXCEPT ![r] = OpenOffers]
          /\ pc' = [pc EXCEPT ![r] = "offersRead"]
          /\ UNCHANGED requestLeft
       \/ /\ requestLeft' = [requestLeft EXCEPT ![r] = OpenRequests]
          /\ pc' = [pc EXCEPT ![r] = "requestsRead"]
          /\ UNCHANGED offerLeft
    /\ UNCHANGED <<bookVars, trades, batch, current, answer, billingVars>>

(* The other side is read and the trades are planned; with nothing to      *)
(* match the run ends here.                                                *)
PlanTrades(r) ==
    LET left == IF pc[r] = "offersRead" THEN offerLeft[r] ELSE OpenOffers
        wanted == IF pc[r] = "requestsRead" THEN requestLeft[r] ELSE OpenRequests
    IN
    /\ pc[r] \in {"offersRead", "requestsRead"}
    /\ IF Tradable(left, wanted) = {}
       THEN GoIdle(r)
       ELSE /\ pc' = [pc EXCEPT ![r] = "price"]
            /\ offerLeft' = [offerLeft EXCEPT ![r] = left]
            /\ requestLeft' = [requestLeft EXCEPT ![r] = wanted]
            /\ UNCHANGED <<batch, current, answer>>
    /\ UNCHANGED <<bookVars, trades, billingVars>>

PriceObtained(r) ==
    /\ pc[r] = "price"
    /\ pc' = [pc EXCEPT ![r] = "reserve"]
    /\ UNCHANGED <<bookVars, trades, batch, current, planVars, answer, billingVars>>

(* Without a price nothing is reserved and the run fails. *)
PricingUnavailable(r) ==
    /\ pc[r] = "price"
    /\ GoIdle(r)
    /\ UNCHANGED <<bookVars, trades, billingVars>>

(* The run moves past planned trade p, whether or not it was reserved. *)
AdvancePlan(r, p) ==
    LET kwh == TradeKwh(offerLeft[r], requestLeft[r], p) IN
    /\ offerLeft' = [offerLeft EXCEPT ![r][p[1]] = @ - kwh]
    /\ requestLeft' = [requestLeft EXCEPT ![r][p[2]] = @ - kwh]

(* Mutant: the buyer's side is not checked again. *)
OfferStillThere(p, kwh) == available[p[1]] >= kwh

(* The amounts are checked against the rows as they are now. *)
StillThere(p, kwh) == available[p[1]] >= kwh /\ requested[p[2]] >= kwh

(* One transaction under the advisory lock takes the energy off both sides *)
(* and records the trade.  What billing's rules say of the trade's payload *)
(* is settled here: the payload never changes.                             *)
Reserve(r, p, t) ==
    LET kwh == TradeKwh(offerLeft[r], requestLeft[r], p) IN
    /\ pc[r] = "reserve"
    /\ IsNextTrade(offerLeft[r], requestLeft[r], p)
    /\ StillThere(p, kwh)
    /\ ~Exists(t) /\ \A u \in TradeIds : u < t => Exists(u)
    /\ TakeEnergy(p[1], p[2], kwh)
    /\ \E ok \in IF PayloadMayBeRefused THEN BOOLEAN ELSE {TRUE} :
          trades' = [trades EXCEPT ![t] =
              [status |-> "PENDING_BILLING", offer |-> p[1], request |-> p[2],
               kwh |-> kwh, acceptable |-> ok]]
    /\ AdvancePlan(r, p)
    /\ current' = [current EXCEPT ![r] = t]
    /\ pc' = [pc EXCEPT ![r] = "bill"]
    /\ UNCHANGED <<batch, answer, billingVars>>

(* Another run took the energy between planning and reserving. *)
SkipReservation(r, p) ==
    /\ pc[r] = "reserve"
    /\ IsNextTrade(offerLeft[r], requestLeft[r], p)
    /\ ~StillThere(p, TradeKwh(offerLeft[r], requestLeft[r], p))
    /\ AdvancePlan(r, p)
    /\ UNCHANGED <<bookVars, trades, pc, batch, current, answer, billingVars>>

FinishRun(r) ==
    /\ pc[r] = "reserve"
    /\ Tradable(offerLeft[r], requestLeft[r]) = {}
    /\ GoIdle(r)
    /\ UNCHANGED <<bookVars, trades, billingVars>>

(* billAndSettle on the trade just reserved: the request goes out. *)
BillReserved(r) ==
    /\ pc[r] = "bill"
    /\ pc' = [pc EXCEPT ![r] = "await"]
    /\ UNCHANGED <<bookVars, trades, batch, current, planVars, answer, billingVars>>

-----------------------------------------------------------------------------
(* Billing.  A 4xx is an answer about the request as it arrived: the token *)
(* is checked before anything else, then the rules look at the payload.    *)

Refuses(t) == ~credentialsValid \/ ~trades[t].acceptable

BillingAnswers(r) ==
    /\ pc[r] = "await" /\ answer[r] = "none"
    /\ IF Refuses(current[r])
       THEN /\ answer' = [answer EXCEPT ![r] = "refused"]
            /\ UNCHANGED recorded
       ELSE /\ answer' = [answer EXCEPT ![r] = "recorded"]
            /\ recorded' = recorded \cup {current[r]}
    /\ UNCHANGED <<bookVars, trades, pc, batch, current, planVars, late, credentialsValid>>

(* A request whose caller timed out or died is handled all the same. *)
BillingHandlesLate(t) ==
    /\ t \in late
    /\ late' = late \ {t}
    /\ recorded' = IF Refuses(t) THEN recorded ELSE recorded \cup {t}
    /\ UNCHANGED <<bookVars, trades, runVars, credentialsValid>>

ChangeCredentials ==
    /\ CredentialsMayBreak
    /\ credentialsValid' = ~credentialsValid
    /\ UNCHANGED <<bookVars, trades, runVars, late, recorded>>

-----------------------------------------------------------------------------
(* What the run makes of the answer *)

(* After a definite answer the run goes on to its next trade. *)
Continue(r) ==
    LET rest == batch[r] \ {current[r]} IN
    /\ batch' = [batch EXCEPT ![r] = rest]
    /\ pc' = [pc EXCEPT ![r] = IF ~Settling(r) THEN "reserve"
                               ELSE IF rest = {} THEN "plan" ELSE "settle"]
    /\ current' = [current EXCEPT ![r] = 0]
    /\ answer' = [answer EXCEPT ![r] = "none"]
    /\ UNCHANGED planVars

(* The update does not look at the status the row has by now. *)
Complete(r) ==
    /\ pc[r] = "await" /\ answer[r] = "recorded"
    /\ trades' = [trades EXCEPT ![current[r]].status = "COMPLETED"]
    /\ Continue(r)
    /\ UNCHANGED <<bookVars, billingVars>>

(* Mutant: the trade is left pending when its energy goes back. *)
ReleaseKeepsPending(r) ==
    LET t == current[r] IN
    /\ pc[r] = "await" /\ answer[r] = "refused"
    /\ FitsOriginal(t)
    /\ GiveBackEnergy(trades[t].offer, trades[t].request, trades[t].kwh)
    /\ Continue(r)
    /\ UNCHANGED <<trades, billingVars>>

(* releaseReservation: neither the lock nor the trade's status is looked at. *)
Release(r) ==
    LET t == current[r] IN
    /\ pc[r] = "await" /\ answer[r] = "refused"
    /\ FitsOriginal(t)
    /\ GiveBackEnergy(trades[t].offer, trades[t].request, trades[t].kwh)
    /\ trades' = [trades EXCEPT ![t].status = "FAILED"]
    /\ Continue(r)
    /\ UNCHANGED billingVars

(* A row constraint rolls the release back and the error ends the run. *)
ReleaseViolatesCheck(r) ==
    /\ pc[r] = "await" /\ answer[r] = "refused"
    /\ ~FitsOriginal(current[r])
    /\ GoIdle(r)
    /\ UNCHANGED <<bookVars, trades, billingVars>>

(* The request of a call that ended unanswered may still reach billing. *)
StillUnderWay(r) == IF answer[r] = "none" THEN late \cup {current[r]} ELSE late

(* Mutants: a call that ended without an answer is taken for a refusal, or *)
(* for success.                                                            *)
UnknownIsRefusal(r) ==
    LET t == current[r] IN
    /\ pc[r] = "await"
    /\ FitsOriginal(t)
    /\ GiveBackEnergy(trades[t].offer, trades[t].request, trades[t].kwh)
    /\ trades' = [trades EXCEPT ![t].status = "FAILED"]
    /\ Continue(r)
    /\ late' = StillUnderWay(r)
    /\ UNCHANGED <<recorded, credentialsValid>>

UnknownIsSuccess(r) ==
    /\ pc[r] = "await"
    /\ trades' = [trades EXCEPT ![current[r]].status = "COMPLETED"]
    /\ Continue(r)
    /\ late' = StillUnderWay(r)
    /\ UNCHANGED <<bookVars, recorded, credentialsValid>>

(* The call ended without a definite answer: it timed out, the connection  *)
(* broke, billing failed, or the answer could not be written down.  The    *)
(* trade stays pending; a settlement stops here and planning comes next.   *)
OutcomeUnknown(r) ==
    /\ pc[r] = "await"
    /\ late' = StillUnderWay(r)
    /\ batch' = [batch EXCEPT ![r] = {}]
    /\ pc' = [pc EXCEPT ![r] = IF Settling(r) THEN "plan" ELSE "reserve"]
    /\ current' = [current EXCEPT ![r] = 0]
    /\ answer' = [answer EXCEPT ![r] = "none"]
    /\ UNCHANGED <<bookVars, trades, planVars, recorded, credentialsValid>>

(* The process dies, or the database fails under the run. *)
Crash(r) ==
    /\ pc[r] # "idle"
    /\ late' = IF pc[r] = "await" THEN StillUnderWay(r) ELSE late
    /\ GoIdle(r)
    /\ UNCHANGED <<bookVars, trades, recorded, credentialsValid>>

-----------------------------------------------------------------------------
RunStep(r) ==
    \/ BeginRun(r)
    \/ \E t \in TradeIds : BillPending(r, t)
    \/ ReadOneSide(r)
    \/ PlanTrades(r)
    \/ PriceObtained(r)
    \/ PricingUnavailable(r)
    \/ \E p \in Pairs, t \in TradeIds : Reserve(r, p, t)
    \/ \E p \in Pairs : SkipReservation(r, p)
    \/ FinishRun(r)
    \/ BillReserved(r)
    \/ BillingAnswers(r)
    \/ Complete(r)
    \/ Release(r)
    \/ ReleaseViolatesCheck(r)
    \/ OutcomeUnknown(r)
    \/ Crash(r)

Next ==
    \/ \E o \in Offers : PlaceOffer(o)
    \/ \E q \in Requests : PlaceRequest(q)
    \/ \E r \in Runs : RunStep(r)
    \/ \E t \in TradeIds : BillingHandlesLate(t)
    \/ ChangeCredentials

Spec == Init /\ [][Next]_vars

-----------------------------------------------------------------------------
(* How much of an offer or a request a set of trades accounts for *)

OfOffer(S, o) ==
    [t \in TradeIds |-> IF t \in S /\ Exists(t) /\ trades[t].offer = o
                        THEN trades[t].kwh ELSE 0]
OfRequest(S, q) ==
    [t \in TradeIds |-> IF t \in S /\ Exists(t) /\ trades[t].request = q
                        THEN trades[t].kwh ELSE 0]

(* Trades that hold the energy they reserved. *)
Live == {t \in TradeIds : trades[t].status \in {"PENDING_BILLING", "COMPLETED"}}

HeldFromOffer(o) == Total(OfOffer(Live, o), MaxTrades)
HeldFromRequest(q) == Total(OfRequest(Live, q), MaxTrades)
BilledFromOffer(o) == Total(OfOffer(recorded, o), MaxTrades)
BilledFromRequest(q) == Total(OfRequest(recorded, q), MaxTrades)

PlacedOffers == {o \in Offers : offerStatus[o] # "ABSENT"}
PlacedRequests == {q \in Requests : requestStatus[q] # "ABSENT"}

-----------------------------------------------------------------------------
(* Safety *)

(* The status other readers filter on never disagrees with the amount left *)
(* (syncOfferStatus, syncRequestStatus): a row with energy is never hidden *)
(* from planning and an exhausted one is never read.                       *)
StatusAgrees ==
    /\ \A o \in PlacedOffers : offerStatus[o] = StatusFor(available[o], OfferKwh[o])
    /\ \A q \in PlacedRequests : requestStatus[q] = StatusFor(requested[q], RequestKwh[q])

(* COMPLETED is only ever written on billing's word: whatever is lost,     *)
(* retried or answered late, billing has the trade.                        *)
CompletedIsBilled ==
    \A t \in TradeIds : trades[t].status = "COMPLETED" => t \in recorded

(* No energy disappears: what an offer or a request has left, with what    *)
(* its live trades hold, is at least what it started with, however runs    *)
(* race, crash or release.                                                 *)
NothingLost ==
    /\ \A o \in PlacedOffers : available[o] + HeldFromOffer(o) >= OfferKwh[o]
    /\ \A q \in PlacedRequests : requested[q] + HeldFromRequest(q) >= RequestKwh[q]

(* No energy is held by two live trades, or held and still on sale.        *)
NothingHeldTwice ==
    /\ \A o \in PlacedOffers : available[o] + HeldFromOffer(o) <= OfferKwh[o]
    /\ \A q \in PlacedRequests : requested[q] + HeldFromRequest(q) <= RequestKwh[q]

(* Billing never charges for more than an offer had or a request asked.    *)
NothingBilledTwice ==
    /\ \A o \in Offers : BilledFromOffer(o) <= OfferKwh[o]
    /\ \A q \in Requests : BilledFromRequest(q) <= RequestKwh[q]

(* Energy is released only from a trade billing has not recorded, and no   *)
(* request still under way for that trade is ever recorded afterwards.     *)
ReleasedIsNeverBilled ==
    \A t \in TradeIds : trades[t].status = "FAILED" => t \notin recorded

(* While billing's rules accept every trade there is, two runs that read   *)
(* the same rows never hold, nor bill, more of an offer or a request than  *)
(* there is: the conditions of the reservation's updates are enough.       *)
AllAcceptable == \A t \in TradeIds : Exists(t) => trades[t].acceptable
AcceptedIsBilledOnce == AllAcceptable => NothingHeldTwice /\ NothingBilledTwice

(* A definite answer is final: once a trade is COMPLETED or FAILED no step *)
(* of any run, however stale its picture of the trade, changes it.         *)
SettledIsFinal ==
    [][\A t \in TradeIds :
          trades[t].status \in {"COMPLETED", "FAILED"} => trades'[t] = trades[t]]_vars

-----------------------------------------------------------------------------
(* Liveness.  Runs keep being started (every stored event and every        *)
(* operator request starts one), a run that can take its next step does,   *)
(* and a step that stays possible again and again is not for ever the one  *)
(* a crash or a lost answer hits.                                          *)
Fairness ==
    \A r \in Runs :
        /\ WF_vars(BeginRun(r))
        /\ SF_vars(\E t \in TradeIds : BillPending(r, t))
        /\ SF_vars(ReadOneSide(r))
        /\ SF_vars(PlanTrades(r))
        /\ SF_vars(PriceObtained(r))
        /\ SF_vars(\E p \in Pairs, t \in TradeIds : Reserve(r, p, t))
        /\ SF_vars(\E p \in Pairs : SkipReservation(r, p))
        /\ SF_vars(FinishRun(r))
        /\ SF_vars(BillReserved(r))
        /\ SF_vars(BillingAnswers(r))
        /\ SF_vars(Complete(r))
        /\ SF_vars(Release(r))

FairSpec == Spec /\ Fairness

(* A trade left without an answer is settled by some later run. *)
PendingIsSettled ==
    \A t \in TradeIds : (t \in Pending) ~> (Exists(t) /\ t \notin Pending)

(* No seller with energy left and buyer still asking wait for each other   *)
(* for ever: again and again everything that can trade has traded.         *)
NoPairWaitsForEver ==
    []<>(Tradable(available, requested) = {})

=============================================================================
