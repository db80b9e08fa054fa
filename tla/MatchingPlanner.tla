--------------------------- MODULE MatchingPlanner ---------------------------
(***************************************************************************)
(* planTrades: one pass over the offers, and for each offer one pass over  *)
(* the requests, on copies of the amounts that shrink as trades are        *)
(* planned.  One action per turn of the inner loop.                        *)
(*                                                                         *)
(* The count of skipped self-matches is only ever logged and is left out.  *)
(***************************************************************************)
EXTENDS FifoMatching, Sequences, FiniteSets

CONSTANT Amounts   \* the amounts an open offer or request can have

ASSUME PlannerAssumption ==
    /\ NOffers \in Nat /\ NRequests \in Nat
    /\ Amounts \subseteq Nat \ {0}

VARIABLES
    offer,         \* position of the outer loop; NOffers + 1 when it is over
    request,       \* position of the inner loop
    offerLeft,     \* remaining of each offer
    requestLeft,   \* remaining of each request
    planned        \* trades

vars == <<offer, request, offerLeft, requestLeft, planned>>

PlannedTrade == [offer : Offers, request : Requests, kwh : Nat \ {0}]

TypeOK ==
    /\ offer \in 1 .. NOffers + 1
    /\ request \in 1 .. NRequests + 1
    /\ offerLeft \in [Offers -> Nat]
    /\ requestLeft \in [Requests -> Nat]
    /\ planned \in Seq(PlannedTrade)

Init ==
    /\ offer = 1
    /\ request = 1
    /\ offerLeft \in [Offers -> Amounts]
    /\ requestLeft \in [Requests -> Amounts]
    /\ planned = <<>>

(* Mutant: the inner loop goes on where it stopped for the offer before. *)
NextOfferKeepsRequest ==
    /\ offer \in Offers
    /\ request \notin Requests \/ offerLeft[offer] = 0
    /\ offer' = offer + 1
    /\ request' = request
    /\ UNCHANGED <<offerLeft, requestLeft, planned>>

(* The inner loop ends with the requests, or breaks when the offer is used up. *)
NextOffer ==
    /\ offer \in Offers
    /\ request \notin Requests \/ offerLeft[offer] = 0
    /\ offer' = offer + 1
    /\ request' = 1
    /\ UNCHANGED <<offerLeft, requestLeft, planned>>

AtOpenOffer == offer \in Offers /\ request \in Requests /\ offerLeft[offer] > 0

SkipFilledRequest ==
    /\ AtOpenOffer
    /\ requestLeft[request] = 0
    /\ request' = request + 1
    /\ UNCHANGED <<offer, offerLeft, requestLeft, planned>>

SkipOwnRequest ==
    /\ AtOpenOffer
    /\ requestLeft[request] > 0
    /\ Seller[offer] = Buyer[request]
    /\ request' = request + 1
    /\ UNCHANGED <<offer, offerLeft, requestLeft, planned>>

(* Mutant: a household may trade with itself. *)
PushToOwn ==
    LET kwh == TradeKwh(offerLeft, requestLeft, <<offer, request>>) IN
    /\ AtOpenOffer
    /\ requestLeft[request] > 0
    /\ planned' = Append(planned, [offer |-> offer, request |-> request, kwh |-> kwh])
    /\ offerLeft' = [offerLeft EXCEPT ![offer] = @ - kwh]
    /\ requestLeft' = [requestLeft EXCEPT ![request] = @ - kwh]
    /\ request' = request + 1
    /\ UNCHANGED offer

PushTrade ==
    LET kwh == TradeKwh(offerLeft, requestLeft, <<offer, request>>) IN
    /\ AtOpenOffer
    /\ requestLeft[request] > 0
    /\ Seller[offer] # Buyer[request]
    /\ planned' = Append(planned, [offer |-> offer, request |-> request, kwh |-> kwh])
    /\ offerLeft' = [offerLeft EXCEPT ![offer] = @ - kwh]
    /\ requestLeft' = [requestLeft EXCEPT ![request] = @ - kwh]
    /\ request' = request + 1
    /\ UNCHANGED offer

Next == NextOffer \/ SkipFilledRequest \/ SkipOwnRequest \/ PushTrade

Spec == Init /\ [][Next]_vars

(* The loop has no reason to stop before its end. *)
FairSpec == Spec /\ WF_vars(Next)

-----------------------------------------------------------------------------
(* The nested loops plan exactly the first-come-first-served trades, in    *)
(* that order and with those amounts.                                      *)
Fifo == INSTANCE FifoPlanning
PlansFifo == Fifo!Spec

(* ... and do not stop while anything can still be traded. *)
PlansEverything == Fifo!FairSpec

(* A pair the loops have passed never has to be revisited: whatever is     *)
(* planned later cannot make it tradable again.                            *)
PassedIsSpent ==
    \A p \in Tradable(offerLeft, requestLeft) : ~Before(p, <<offer, request>>)

UsedUp == {o \in Offers : offerLeft[o] = 0}
Filled == {q \in Requests : requestLeft[q] = 0}

(* Every trade uses up an offer or a request, so a run never reserves and  *)
(* bills more trades than there are open orders.                           *)
PlanIsShort == Len(planned) <= Cardinality(UsedUp) + Cardinality(Filled)
=============================================================================
