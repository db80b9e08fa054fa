------------------------ MODULE TradeMatchingProofs ------------------------
(***************************************************************************)
(* Theorems about TradeMatching, and about the figures and the paged list  *)
(* of trades that are read from it, for every number of offers, requests,  *)
(* trades and concurrent runs, every amount, every batch size and every    *)
(* size of a page.                                                         *)
(***************************************************************************)
EXTENDS MarketStatistics, TotalsProofs

-----------------------------------------------------------------------------
(* What a run, a late request and billing's records refer to exists. *)
ReferencesExist ==
    /\ \A r \in Runs : pc[r] \in {"bill", "await"} =>
                          current[r] \in TradeIds /\ Exists(current[r])
    /\ \A r \in Runs : \A t \in batch[r] : Exists(t)
    /\ \A t \in late : Exists(t)
    /\ \A t \in recorded : Exists(t)

(* An answer belongs to the call the run is waiting on, and "recorded" is  *)
(* only ever said of a trade billing has.                                  *)
AnswersAreTrue ==
    \A r \in Runs : /\ answer[r] # "none" => pc[r] = "await"
                    /\ answer[r] = "recorded" => current[r] \in recorded

TypeInv == TypeOK /\ ReferencesExist /\ AnswersAreTrue

-----------------------------------------------------------------------------
(* A planned trade is for a positive amount, no more than either side has. *)
LEMMA TradeKwhBounds ==
  ASSUME NEW left \in [Offers -> Nat], NEW wanted \in [Requests -> Nat],
         NEW p, IsNextTrade(left, wanted, p)
  PROVE  /\ p[1] \in Offers /\ p[2] \in Requests
         /\ TradeKwh(left, wanted, p) \in Nat \ {0}
         /\ TradeKwh(left, wanted, p) <= left[p[1]]
         /\ TradeKwh(left, wanted, p) <= wanted[p[2]]
BY DEF IsNextTrade, Tradable, Pairs, TradeKwh

LEMMA OpenRowsType ==
  ASSUME TypeOK
  PROVE  OpenOffers \in [Offers -> Nat] /\ OpenRequests \in [Requests -> Nat]
BY DEF TypeOK, OpenOffers, OpenRequests

LEMMA GoIdleKeepsTypes ==
  ASSUME TypeOK, NEW r \in Runs, GoIdle(r)
  PROVE  /\ pc' \in [Runs -> RunPoint]
         /\ batch' \in [Runs -> SUBSET TradeIds]
         /\ current' \in [Runs -> TradeIds \cup {0}]
         /\ offerLeft' \in [Runs -> [Offers -> Nat]]
         /\ requestLeft' \in [Runs -> [Requests -> Nat]]
         /\ answer' \in [Runs -> {"none", "recorded", "refused"}]
<1>1. Nothing \in [Offers -> Nat] /\ NothingWanted \in [Requests -> Nat]
  BY DEF Nothing, NothingWanted
<1> QED BY <1>1 DEF GoIdle, TypeOK, RunPoint

LEMMA ContinueKeepsTypes ==
  ASSUME TypeOK, NEW r \in Runs, Continue(r)
  PROVE  /\ pc' \in [Runs -> RunPoint]
         /\ batch' \in [Runs -> SUBSET TradeIds]
         /\ current' \in [Runs -> TradeIds \cup {0}]
         /\ offerLeft' \in [Runs -> [Offers -> Nat]]
         /\ requestLeft' \in [Runs -> [Requests -> Nat]]
         /\ answer' \in [Runs -> {"none", "recorded", "refused"}]
BY DEF Continue, TypeOK, RunPoint, planVars

LEMMA TypeInvInit == Init => TypeInv
BY MatchingAssumption
   DEF Init, TypeInv, TypeOK, ReferencesExist, AnswersAreTrue, Nothing,
       NothingWanted, OrderStatus, RunPoint, Exists, NoTrade

-----------------------------------------------------------------------------
LEMMA TypeOKStep == TypeInv /\ [Next]_vars => TypeOK'
<1> SUFFICES ASSUME TypeInv, [Next]_vars PROVE TypeOK'
  OBVIOUS
<1> USE MatchingAssumption
<1>0. TypeOK /\ ReferencesExist
  BY DEF TypeInv
<1>1. ASSUME NEW o \in Offers, PlaceOffer(o) PROVE TypeOK'
  BY <1>0, <1>1 DEF PlaceOffer, TypeOK, OrderStatus, runVars, billingVars
<1>2. ASSUME NEW q \in Requests, PlaceRequest(q) PROVE TypeOK'
  BY <1>0, <1>2 DEF PlaceRequest, TypeOK, OrderStatus, runVars, billingVars
<1>3. ASSUME NEW r \in Runs, BeginRun(r) PROVE TypeOK'
  BY <1>0, <1>3 DEF BeginRun, TypeOK, RunPoint, OldestPending, Pending,
                    bookVars, planVars, billingVars
<1>4. ASSUME NEW r \in Runs, NEW t \in TradeIds, BillPending(r, t) PROVE TypeOK'
  BY <1>0, <1>4 DEF BillPending, TypeOK, RunPoint, bookVars, planVars, billingVars
<1>a. ASSUME NEW r \in Runs, ReadOneSide(r) PROVE TypeOK'
  <2>1. OpenOffers \in [Offers -> Nat] /\ OpenRequests \in [Requests -> Nat]
    BY <1>0, OpenRowsType
  <2>2. /\ offerLeft' \in [Runs -> [Offers -> Nat]]
        /\ requestLeft' \in [Runs -> [Requests -> Nat]]
    <3>1. offerLeft \in [Runs -> [Offers -> Nat]] /\ requestLeft \in [Runs -> [Requests -> Nat]]
      BY <1>0 DEF TypeOK
    <3>2. /\ offerLeft' = offerLeft \/ offerLeft' = [offerLeft EXCEPT ![r] = OpenOffers]
          /\ requestLeft' = requestLeft \/ requestLeft' = [requestLeft EXCEPT ![r] = OpenRequests]
      BY <1>a DEF ReadOneSide
    <3> QED BY <2>1, <3>1, <3>2
  <2>3. pc' \in [Runs -> RunPoint]
    <3>1. \E point \in RunPoint : pc' = [pc EXCEPT ![r] = point]
      BY <1>a DEF ReadOneSide, RunPoint
    <3>2. pc \in [Runs -> RunPoint]
      BY <1>0 DEF TypeOK
    <3> QED BY <3>1, <3>2
  <2> QED BY <1>0, <1>a, <2>2, <2>3 DEF ReadOneSide, TypeOK, bookVars, billingVars
<1>5. ASSUME NEW r \in Runs, PlanTrades(r) PROVE TypeOK'
  <2> DEFINE left == IF pc[r] = "offersRead" THEN offerLeft[r] ELSE OpenOffers
             wanted == IF pc[r] = "requestsRead" THEN requestLeft[r] ELSE OpenRequests
  <2>1. left \in [Offers -> Nat] /\ wanted \in [Requests -> Nat]
    BY <1>0, OpenRowsType DEF TypeOK
  <2>2. CASE Tradable(left, wanted) = {}
    <3>1. GoIdle(r) /\ UNCHANGED <<bookVars, trades, billingVars>>
      BY <1>5, <2>2 DEF PlanTrades
    <3> QED BY <1>0, <3>1, GoIdleKeepsTypes DEF TypeOK, bookVars, billingVars
  <2>3. CASE Tradable(left, wanted) # {}
    <3>1. /\ pc' = [pc EXCEPT ![r] = "price"]
          /\ offerLeft' = [offerLeft EXCEPT ![r] = left]
          /\ requestLeft' = [requestLeft EXCEPT ![r] = wanted]
          /\ UNCHANGED <<batch, current, answer, bookVars, trades, billingVars>>
      BY <1>5, <2>3 DEF PlanTrades
    <3> HIDE DEF left, wanted
    <3> QED BY <1>0, <2>1, <3>1 DEF TypeOK, RunPoint, bookVars, billingVars
  <2> QED BY <2>2, <2>3
<1>6. ASSUME NEW r \in Runs, PriceObtained(r) PROVE TypeOK'
  BY <1>0, <1>6 DEF PriceObtained, TypeOK, RunPoint, bookVars, planVars, billingVars
<1>7. ASSUME NEW r \in Runs, PricingUnavailable(r) PROVE TypeOK'
  BY <1>0, <1>7, GoIdleKeepsTypes DEF PricingUnavailable, TypeOK, bookVars, billingVars
<1>8. ASSUME NEW r \in Runs, NEW p \in Pairs, NEW t \in TradeIds, Reserve(r, p, t)
      PROVE  TypeOK'
  <2> DEFINE kwh == TradeKwh(offerLeft[r], requestLeft[r], p)
  <2>1. IsNextTrade(offerLeft[r], requestLeft[r], p)
    BY <1>8 DEF Reserve
  <2>2. offerLeft[r] \in [Offers -> Nat] /\ requestLeft[r] \in [Requests -> Nat]
    BY <1>0 DEF TypeOK
  <2>3. /\ p[1] \in Offers /\ p[2] \in Requests
        /\ kwh \in Nat \ {0}
        /\ kwh <= offerLeft[r][p[1]] /\ kwh <= requestLeft[r][p[2]]
    BY <2>1, <2>2, TradeKwhBounds
  <2> HIDE DEF kwh
  <2>4. kwh <= available[p[1]] /\ kwh <= requested[p[2]]
    BY <1>0, <1>8, <2>3 DEF Reserve, StillThere, kwh, TypeOK
  <2>5. TakeEnergy(p[1], p[2], kwh) /\ AdvancePlan(r, p)
    BY <1>8 DEF Reserve, kwh
  <2>6. /\ available' \in [Offers -> Nat] /\ requested' \in [Requests -> Nat]
        /\ offerStatus' \in [Offers -> OrderStatus]
        /\ requestStatus' \in [Requests -> OrderStatus]
    BY <1>0, <2>3, <2>4, <2>5 DEF TakeEnergy, TypeOK, StatusFor, OrderStatus
  <2>7. /\ offerLeft' \in [Runs -> [Offers -> Nat]]
        /\ requestLeft' \in [Runs -> [Requests -> Nat]]
    <3>1. /\ offerLeft' = [offerLeft EXCEPT ![r][p[1]] = @ - kwh]
          /\ requestLeft' = [requestLeft EXCEPT ![r][p[2]] = @ - kwh]
      BY <2>5 DEF AdvancePlan, kwh
    <3> QED BY <1>0, <2>2, <2>3, <3>1 DEF TypeOK
  <2>8. trades' \in [TradeIds -> Trade \cup {NoTrade}]
    <3>1. PICK ok \in BOOLEAN :
             trades' = [trades EXCEPT ![t] =
                 [status |-> "PENDING_BILLING", offer |-> p[1], request |-> p[2],
                  kwh |-> kwh, acceptable |-> ok]]
      BY <1>8 DEF Reserve, kwh
    <3>2. [status |-> "PENDING_BILLING", offer |-> p[1], request |-> p[2],
           kwh |-> kwh, acceptable |-> ok] \in Trade
      BY <2>3 DEF Trade, TradeStatus
    <3> QED BY <1>0, <3>1, <3>2 DEF TypeOK
  <2>9. /\ pc' = [pc EXCEPT ![r] = "bill"] /\ current' = [current EXCEPT ![r] = t]
        /\ UNCHANGED <<batch, answer, billingVars>>
    BY <1>8 DEF Reserve
  <2> QED BY <1>0, <2>6, <2>7, <2>8, <2>9 DEF TypeOK, RunPoint, billingVars
<1>9. ASSUME NEW r \in Runs, NEW p \in Pairs, SkipReservation(r, p) PROVE TypeOK'
  <2> DEFINE kwh == TradeKwh(offerLeft[r], requestLeft[r], p)
  <2>1. offerLeft[r] \in [Offers -> Nat] /\ requestLeft[r] \in [Requests -> Nat]
    BY <1>0 DEF TypeOK
  <2>2. /\ p[1] \in Offers /\ p[2] \in Requests /\ kwh \in Nat
        /\ kwh <= offerLeft[r][p[1]] /\ kwh <= requestLeft[r][p[2]]
    BY <1>9, <2>1, TradeKwhBounds DEF SkipReservation
  <2>3. /\ offerLeft' = [offerLeft EXCEPT ![r][p[1]] = @ - kwh]
        /\ requestLeft' = [requestLeft EXCEPT ![r][p[2]] = @ - kwh]
    BY <1>9 DEF SkipReservation, AdvancePlan
  <2> HIDE DEF kwh
  <2>4. /\ offerLeft' \in [Runs -> [Offers -> Nat]]
        /\ requestLeft' \in [Runs -> [Requests -> Nat]]
    BY <1>0, <2>1, <2>2, <2>3 DEF TypeOK
  <2>5. UNCHANGED <<bookVars, trades, pc, batch, current, answer, billingVars>>
    BY <1>9 DEF SkipReservation
  <2> QED BY <1>0, <2>4, <2>5 DEF TypeOK, bookVars, billingVars
<1>10. ASSUME NEW r \in Runs, FinishRun(r) PROVE TypeOK'
  BY <1>0, <1>10, GoIdleKeepsTypes DEF FinishRun, TypeOK, bookVars, billingVars
<1>11. ASSUME NEW r \in Runs, BillReserved(r) PROVE TypeOK'
  BY <1>0, <1>11 DEF BillReserved, TypeOK, RunPoint, bookVars, planVars, billingVars
<1>12. ASSUME NEW r \in Runs, BillingAnswers(r) PROVE TypeOK'
  <2>1. current[r] \in TradeIds
    BY <1>0, <1>12 DEF BillingAnswers, ReferencesExist
  <2> QED BY <1>0, <1>12, <2>1 DEF BillingAnswers, TypeOK, bookVars, planVars
<1>13. ASSUME NEW r \in Runs, Complete(r) PROVE TypeOK'
  <2>1. current[r] \in TradeIds /\ trades[current[r]] \in Trade
    BY <1>0, <1>13 DEF Complete, ReferencesExist, Exists, TypeOK, NoTrade
  <2>2. trades' \in [TradeIds -> Trade \cup {NoTrade}]
    BY <1>0, <1>13, <2>1 DEF Complete, TypeOK, Trade, TradeStatus
  <2>3. Continue(r) /\ UNCHANGED <<bookVars, billingVars>>
    BY <1>13 DEF Complete
  <2> QED BY <1>0, <2>2, <2>3, ContinueKeepsTypes DEF TypeOK, bookVars, billingVars
<1>14. ASSUME NEW r \in Runs, Release(r) PROVE TypeOK'
  <2> DEFINE t == current[r]
  <2>1. t \in TradeIds /\ trades[t] \in Trade
    BY <1>0, <1>14 DEF Release, ReferencesExist, Exists, TypeOK, NoTrade
  <2>2. trades' \in [TradeIds -> Trade \cup {NoTrade}]
    BY <1>0, <1>14, <2>1 DEF Release, TypeOK, Trade, TradeStatus
  <2>3. /\ trades[t].offer \in Offers /\ trades[t].request \in Requests
        /\ trades[t].kwh \in Nat
    BY <2>1 DEF Trade
  <2>4. /\ GiveBackEnergy(trades[t].offer, trades[t].request, trades[t].kwh)
        /\ Continue(r) /\ UNCHANGED billingVars
    BY <1>14 DEF Release
  <2>5. /\ available' \in [Offers -> Nat] /\ requested' \in [Requests -> Nat]
        /\ offerStatus' \in [Offers -> OrderStatus]
        /\ requestStatus' \in [Requests -> OrderStatus]
    BY <1>0, <2>3, <2>4 DEF GiveBackEnergy, TypeOK, StatusFor, OrderStatus
  <2> QED BY <1>0, <2>2, <2>4, <2>5, ContinueKeepsTypes DEF TypeOK, billingVars
<1>15. ASSUME NEW r \in Runs, ReleaseViolatesCheck(r) PROVE TypeOK'
  BY <1>0, <1>15, GoIdleKeepsTypes DEF ReleaseViolatesCheck, TypeOK, bookVars, billingVars
<1>16. ASSUME NEW r \in Runs, OutcomeUnknown(r) PROVE TypeOK'
  <2>1. current[r] \in TradeIds
    BY <1>0, <1>16 DEF OutcomeUnknown, StillUnderWay, ReferencesExist
  <2> QED BY <1>0, <1>16, <2>1
             DEF OutcomeUnknown, StillUnderWay, TypeOK, RunPoint, bookVars, planVars
<1>17. ASSUME NEW r \in Runs, Crash(r) PROVE TypeOK'
  <2>1. late' \in SUBSET TradeIds
    BY <1>0, <1>17 DEF Crash, StillUnderWay, ReferencesExist, TypeOK
  <2> QED BY <1>0, <1>17, <2>1, GoIdleKeepsTypes DEF Crash, StillUnderWay, TypeOK, bookVars
<1>18. ASSUME NEW t \in TradeIds, BillingHandlesLate(t) PROVE TypeOK'
  BY <1>0, <1>18 DEF BillingHandlesLate, TypeOK, bookVars, runVars
<1>19. CASE ChangeCredentials
  BY <1>0, <1>19 DEF ChangeCredentials, TypeOK, bookVars, runVars
<1>20. CASE UNCHANGED vars
  BY <1>0, <1>20 DEF TypeOK, vars, bookVars, runVars, billingVars
<1> QED
  BY <1>1, <1>2, <1>3, <1>4, <1>5, <1>6, <1>7, <1>8, <1>9, <1>10, <1>11, <1>12,
     <1>13, <1>14, <1>15, <1>16, <1>17, <1>18, <1>19, <1>20, <1>a DEF Next, RunStep

-----------------------------------------------------------------------------
(* Every way a step can touch the book of offers and requests or the       *)
(* trades: the other actions leave both alone.                             *)
LEMMA BookSteps ==
  ASSUME [Next]_vars
  PROVE  \/ \E o \in Offers : PlaceOffer(o)
         \/ \E q \in Requests : PlaceRequest(q)
         \/ \E r \in Runs, p \in Pairs, t \in TradeIds : Reserve(r, p, t)
         \/ \E r \in Runs : Complete(r)
         \/ \E r \in Runs : Release(r)
         \/ UNCHANGED <<bookVars, trades>>
BY DEF Next, RunStep, vars, BeginRun, BillPending, ReadOneSide, PlanTrades, PriceObtained,
       PricingUnavailable, SkipReservation, FinishRun, BillReserved,
       BillingAnswers, ReleaseViolatesCheck, OutcomeUnknown, Crash,
       BillingHandlesLate, ChangeCredentials, bookVars

(* ... and every way a step can touch billing's records. *)
LEMMA RecordedStep ==
  ASSUME [Next]_vars
  PROVE  \/ \E r \in Runs : BillingAnswers(r)
         \/ \E t \in TradeIds : BillingHandlesLate(t)
         \/ UNCHANGED recorded
<1>1. ASSUME NEW r \in Runs, RunStep(r)
      PROVE  BillingAnswers(r) \/ UNCHANGED recorded
  BY <1>1 DEF RunStep, BeginRun, BillPending, ReadOneSide, PlanTrades, PriceObtained,
              PricingUnavailable, Reserve, SkipReservation, FinishRun,
              BillReserved, Complete, Release, ReleaseViolatesCheck,
              OutcomeUnknown, Crash, billingVars
<1>2. CASE \E o \in Offers : PlaceOffer(o)
  BY <1>2 DEF PlaceOffer, billingVars
<1>3. CASE \E q \in Requests : PlaceRequest(q)
  BY <1>3 DEF PlaceRequest, billingVars
<1> QED BY <1>1, <1>2, <1>3 DEF Next, ChangeCredentials, vars, billingVars

(* A trade, once made, keeps its parties, its amount and its payload. *)
LEMMA TradesStay ==
  ASSUME TypeInv, [Next]_vars
  PROVE  \A t \in TradeIds : Exists(t) =>
            /\ Exists(t)'
            /\ trades'[t].offer = trades[t].offer
            /\ trades'[t].request = trades[t].request
            /\ trades'[t].kwh = trades[t].kwh
            /\ trades'[t].acceptable = trades[t].acceptable
<1> SUFFICES ASSUME NEW t \in TradeIds, Exists(t)
             PROVE  /\ Exists(t)'
                    /\ trades'[t].offer = trades[t].offer
                    /\ trades'[t].request = trades[t].request
                    /\ trades'[t].kwh = trades[t].kwh
                    /\ trades'[t].acceptable = trades[t].acceptable
  OBVIOUS
<1>0. TypeOK /\ ReferencesExist /\ trades[t] \in Trade
  BY DEF TypeInv, TypeOK, Exists, NoTrade
<1>1. CASE \E r \in Runs, p \in Pairs, u \in TradeIds : Reserve(r, p, u)
  BY <1>0, <1>1 DEF Reserve, Exists, TypeOK
<1>2. CASE \E r \in Runs : Complete(r)
  <2>1. PICK r \in Runs : trades' = [trades EXCEPT ![current[r]].status = "COMPLETED"]
    BY <1>2 DEF Complete
  <2> QED BY <1>0, <2>1 DEF TypeOK, Exists, Trade
<1>3. CASE \E r \in Runs : Release(r)
  <2>1. PICK r \in Runs : trades' = [trades EXCEPT ![current[r]].status = "FAILED"]
    BY <1>3 DEF Release
  <2> QED BY <1>0, <2>1 DEF TypeOK, Exists, Trade
<1>4. CASE UNCHANGED trades
  BY <1>4 DEF Exists
<1> QED BY <1>1, <1>2, <1>3, <1>4, BookSteps DEF PlaceOffer, PlaceRequest

LEMMA ReferencesStep == TypeInv /\ [Next]_vars => ReferencesExist'
<1> SUFFICES ASSUME TypeInv, [Next]_vars PROVE ReferencesExist'
  OBVIOUS
<1>0. TypeOK /\ TypeOK' /\ ReferencesExist
  BY TypeOKStep DEF TypeInv
<1>a. \A t \in TradeIds : Exists(t) => Exists(t)'
  BY TradesStay
<1>1. ASSUME NEW o \in Offers, PlaceOffer(o) PROVE ReferencesExist'
  BY <1>0, <1>a, <1>1 DEF PlaceOffer, ReferencesExist, Exists, runVars, billingVars
<1>2. ASSUME NEW q \in Requests, PlaceRequest(q) PROVE ReferencesExist'
  BY <1>0, <1>a, <1>2 DEF PlaceRequest, ReferencesExist, Exists, runVars, billingVars
<1>3. ASSUME NEW r \in Runs, BeginRun(r) PROVE ReferencesExist'
  BY <1>0, <1>3 DEF BeginRun, ReferencesExist, TypeOK, RunPoint, OldestPending,
                    Pending, Exists, bookVars, planVars, billingVars
<1>4. ASSUME NEW r \in Runs, NEW t \in TradeIds, BillPending(r, t)
      PROVE  ReferencesExist'
  BY <1>0, <1>4 DEF BillPending, ReferencesExist, Exists, TypeOK, bookVars,
                    planVars, billingVars
<1>b. ASSUME NEW r \in Runs, ReadOneSide(r) PROVE ReferencesExist'
  BY <1>0, <1>b DEF ReadOneSide, ReferencesExist, Exists, TypeOK, billingVars
<1>5. ASSUME NEW r \in Runs, PlanTrades(r) PROVE ReferencesExist'
  <2>1. UNCHANGED <<trades, late, recorded>>
    BY <1>5 DEF PlanTrades, billingVars
  <2>2. CASE GoIdle(r)
    BY <1>0, <2>1, <2>2 DEF GoIdle, ReferencesExist, Exists, TypeOK
  <2>3. CASE pc' = [pc EXCEPT ![r] = "price"] /\ UNCHANGED <<batch, current>>
    BY <1>0, <2>1, <2>3 DEF ReferencesExist, Exists, TypeOK
  <2> QED BY <1>5, <2>2, <2>3 DEF PlanTrades
<1>6. ASSUME NEW r \in Runs, PriceObtained(r) PROVE ReferencesExist'
  BY <1>0, <1>6 DEF PriceObtained, ReferencesExist, Exists, TypeOK, billingVars
<1>7. ASSUME NEW r \in Runs, PricingUnavailable(r) PROVE ReferencesExist'
  BY <1>0, <1>7 DEF PricingUnavailable, GoIdle, ReferencesExist, Exists, TypeOK,
                    billingVars
<1>8. ASSUME NEW r \in Runs, NEW p \in Pairs, NEW t \in TradeIds, Reserve(r, p, t)
      PROVE  ReferencesExist'
  <2>1. /\ pc' = [pc EXCEPT ![r] = "bill"] /\ current' = [current EXCEPT ![r] = t]
        /\ UNCHANGED <<batch, answer, billingVars>>
    BY <1>8 DEF Reserve
  <2>2. Exists(t)'
    BY <1>0, <1>8 DEF Reserve, Exists, TypeOK
  <2> QED BY <1>0, <1>a, <2>1, <2>2 DEF ReferencesExist, TypeOK, billingVars
<1>9. ASSUME NEW r \in Runs, NEW p \in Pairs, SkipReservation(r, p)
      PROVE  ReferencesExist'
  BY <1>0, <1>9 DEF SkipReservation, ReferencesExist, Exists, billingVars
<1>10. ASSUME NEW r \in Runs, FinishRun(r) PROVE ReferencesExist'
  BY <1>0, <1>10 DEF FinishRun, GoIdle, ReferencesExist, Exists, TypeOK, billingVars
<1>11. ASSUME NEW r \in Runs, BillReserved(r) PROVE ReferencesExist'
  BY <1>0, <1>11 DEF BillReserved, ReferencesExist, Exists, TypeOK, billingVars
<1>12. ASSUME NEW r \in Runs, BillingAnswers(r) PROVE ReferencesExist'
  BY <1>0, <1>12 DEF BillingAnswers, ReferencesExist, Exists, TypeOK
<1>13. ASSUME NEW r \in Runs, Continue(r), UNCHANGED billingVars
      PROVE  ReferencesExist'
  BY <1>0, <1>a, <1>13 DEF Continue, ReferencesExist, TypeOK, billingVars
<1>14. ASSUME NEW r \in Runs, ReleaseViolatesCheck(r) PROVE ReferencesExist'
  BY <1>0, <1>14 DEF ReleaseViolatesCheck, GoIdle, ReferencesExist, Exists, TypeOK,
                     billingVars
<1>15. ASSUME NEW r \in Runs, OutcomeUnknown(r) PROVE ReferencesExist'
  BY <1>0, <1>15 DEF OutcomeUnknown, StillUnderWay, ReferencesExist, Exists, TypeOK
<1>16. ASSUME NEW r \in Runs, Crash(r) PROVE ReferencesExist'
  BY <1>0, <1>16 DEF Crash, StillUnderWay, GoIdle, ReferencesExist, Exists, TypeOK
<1>17. ASSUME NEW t \in TradeIds, BillingHandlesLate(t) PROVE ReferencesExist'
  BY <1>0, <1>17 DEF BillingHandlesLate, ReferencesExist, Exists, runVars
<1>18. CASE ChangeCredentials
  BY <1>0, <1>18 DEF ChangeCredentials, ReferencesExist, Exists, runVars
<1>19. CASE UNCHANGED vars
  BY <1>0, <1>19 DEF ReferencesExist, Exists, vars, runVars, billingVars
<1> QED
  BY <1>1, <1>2, <1>3, <1>4, <1>5, <1>6, <1>7, <1>8, <1>9, <1>10, <1>11, <1>12,
     <1>13, <1>14, <1>15, <1>16, <1>17, <1>18, <1>19, <1>b
     DEF Next, RunStep, Complete, Release

LEMMA AnswersStep == TypeInv /\ [Next]_vars => AnswersAreTrue'
<1> SUFFICES ASSUME TypeInv, [Next]_vars PROVE AnswersAreTrue'
  OBVIOUS
<1>0. TypeOK /\ AnswersAreTrue
  BY DEF TypeInv
<1>1. CASE UNCHANGED <<runVars, recorded>>
  BY <1>0, <1>1 DEF AnswersAreTrue, runVars
<1>2. ASSUME NEW r \in Runs, GoIdle(r), UNCHANGED recorded PROVE AnswersAreTrue'
  BY <1>0, <1>2 DEF GoIdle, AnswersAreTrue, TypeOK
<1>3. ASSUME NEW r \in Runs, NEW point \in RunPoint, answer[r] = "none",
             pc' = [pc EXCEPT ![r] = point],
             \A s \in Runs : s # r => current'[s] = current[s],
             UNCHANGED <<answer, recorded>>
      PROVE  AnswersAreTrue'
  BY <1>0, <1>3 DEF AnswersAreTrue, TypeOK
<1>4. ASSUME NEW r \in Runs, BillingAnswers(r) PROVE AnswersAreTrue'
  BY <1>0, <1>4 DEF BillingAnswers, AnswersAreTrue, TypeOK
<1>5. ASSUME NEW r \in Runs, Continue(r), UNCHANGED recorded PROVE AnswersAreTrue'
  BY <1>0, <1>5 DEF Continue, AnswersAreTrue, TypeOK
<1>6. ASSUME NEW r \in Runs, OutcomeUnknown(r) PROVE AnswersAreTrue'
  BY <1>0, <1>6 DEF OutcomeUnknown, StillUnderWay, AnswersAreTrue, TypeOK
<1>7. ASSUME NEW t \in TradeIds, BillingHandlesLate(t) PROVE AnswersAreTrue'
  BY <1>0, <1>7 DEF BillingHandlesLate, AnswersAreTrue, runVars
<1>8. ASSUME NEW r \in Runs, RunStep(r) PROVE AnswersAreTrue'
  <2>1. CASE pc[r] # "await"
    <3>1. answer[r] = "none"
      BY <1>0, <2>1 DEF AnswersAreTrue, TypeOK
    <3>2. CASE BeginRun(r)
      BY <1>0, <1>3, <3>1, <3>2 DEF BeginRun, RunPoint, billingVars
    <3>3. CASE \E t \in TradeIds : BillPending(r, t)
      BY <1>0, <1>3, <3>1, <3>3 DEF BillPending, RunPoint, billingVars, TypeOK
    <3>9. CASE ReadOneSide(r)
      BY <1>0, <1>3, <3>1, <3>9 DEF ReadOneSide, RunPoint, billingVars
    <3>4. CASE PlanTrades(r)
      BY <1>0, <1>2, <1>3, <3>1, <3>4 DEF PlanTrades, RunPoint, billingVars
    <3>5. CASE PriceObtained(r) \/ BillReserved(r)
      BY <1>0, <1>3, <3>1, <3>5 DEF PriceObtained, BillReserved, RunPoint, billingVars
    <3>6. CASE PricingUnavailable(r) \/ FinishRun(r) \/ Crash(r)
      BY <1>2, <3>6 DEF PricingUnavailable, FinishRun, Crash, billingVars
    <3>7. CASE \E p \in Pairs, t \in TradeIds : Reserve(r, p, t)
      <4>1. PICK p \in Pairs, t \in TradeIds : Reserve(r, p, t)
        BY <3>7
      <4>2. /\ pc' = [pc EXCEPT ![r] = "bill"]
            /\ current' = [current EXCEPT ![r] = t]
            /\ UNCHANGED <<answer, recorded>>
        BY <4>1 DEF Reserve, billingVars
      <4>3. "bill" \in RunPoint
        BY DEF RunPoint
      <4>4. \A s \in Runs : s # r => current'[s] = current[s]
        BY <1>0, <4>2 DEF TypeOK
      <4> HIDE DEF RunPoint
      <4> QED BY <1>3, <3>1, <4>2, <4>3, <4>4
    <3>8. CASE \E p \in Pairs : SkipReservation(r, p)
      BY <1>0, <3>8 DEF SkipReservation, AnswersAreTrue, billingVars
    <3> QED
      BY <1>8, <2>1, <3>2, <3>3, <3>4, <3>5, <3>6, <3>7, <3>8, <3>9
         DEF RunStep, BillingAnswers, Complete, Release, ReleaseViolatesCheck,
             OutcomeUnknown
  <2>2. CASE pc[r] = "await"
    BY <1>2, <1>4, <1>5, <1>6, <1>8, <2>2
       DEF RunStep, BeginRun, BillPending, ReadOneSide, PlanTrades, PriceObtained,
           PricingUnavailable, Reserve, SkipReservation, FinishRun, BillReserved,
           Complete, Release, ReleaseViolatesCheck, Crash, billingVars
  <2> QED BY <2>1, <2>2
<1>9. CASE \E o \in Offers : PlaceOffer(o)
  BY <1>1, <1>9 DEF PlaceOffer, billingVars
<1>10. CASE \E q \in Requests : PlaceRequest(q)
  BY <1>1, <1>10 DEF PlaceRequest, billingVars
<1> QED
  BY <1>1, <1>7, <1>8, <1>9, <1>10 DEF Next, ChangeCredentials, vars, billingVars

(* The tables, the runs and billing's answers always have the values their *)
(* columns and variables are declared with, and refer to rows that exist.  *)
LEMMA TypeInvariance == Spec => []TypeInv
<1>1. Init => TypeInv
  BY TypeInvInit
<1>2. TypeInv /\ [Next]_vars => TypeInv'
  BY TypeOKStep, ReferencesStep, AnswersStep DEF TypeInv
<1> QED BY <1>1, <1>2, PTL DEF Spec

(* Type correctness: in particular nothing on offer or asked for is ever   *)
(* negative, however many runs reserve from the same rows at once (reserve *)
(* re-checks both amounts in its own transaction).                         *)
THEOREM TypeCorrectness == Spec => []TypeOK
BY TypeInvariance, PTL DEF TypeInv

-----------------------------------------------------------------------------
LEMMA StatusAgreesStep == TypeInv /\ StatusAgrees /\ [Next]_vars => StatusAgrees'
<1> SUFFICES ASSUME TypeInv, StatusAgrees, [Next]_vars PROVE StatusAgrees'
  OBVIOUS
<1> USE MatchingAssumption
<1>0. TypeOK /\ ReferencesExist
  BY DEF TypeInv
<1>1. ASSUME NEW o \in Offers, PlaceOffer(o) PROVE StatusAgrees'
  BY <1>0, <1>1 DEF PlaceOffer, StatusAgrees, StatusFor, TypeOK, PlacedOffers,
                    PlacedRequests
<1>2. ASSUME NEW q \in Requests, PlaceRequest(q) PROVE StatusAgrees'
  BY <1>0, <1>2 DEF PlaceRequest, StatusAgrees, StatusFor, TypeOK, PlacedOffers,
                    PlacedRequests
<1>3. ASSUME NEW o \in Offers, NEW q \in Requests, NEW kwh \in Nat,
             TakeEnergy(o, q, kwh) \/ GiveBackEnergy(o, q, kwh)
      PROVE  StatusAgrees'
  <2>1. \E left \in Int, wanted \in Int :
           /\ available' = [available EXCEPT ![o] = left]
           /\ requested' = [requested EXCEPT ![q] = wanted]
           /\ offerStatus' = [offerStatus EXCEPT ![o] = StatusFor(left, OfferKwh[o])]
           /\ requestStatus' = [requestStatus EXCEPT ![q] = StatusFor(wanted, RequestKwh[q])]
    <3>1. CASE TakeEnergy(o, q, kwh)
      <4>1. available[o] - kwh \in Int /\ requested[q] - kwh \in Int
        BY <1>0 DEF TypeOK
      <4> QED BY <3>1, <4>1 DEF TakeEnergy
    <3>2. CASE GiveBackEnergy(o, q, kwh)
      <4>1. available[o] + kwh \in Int /\ requested[q] + kwh \in Int
        BY <1>0 DEF TypeOK
      <4> QED BY <3>2, <4>1 DEF GiveBackEnergy
    <3> QED BY <1>3, <3>1, <3>2
  <2>2. \A p \in Offers : p # o => /\ available'[p] = available[p]
                                   /\ offerStatus'[p] = offerStatus[p]
    BY <1>0, <2>1 DEF TypeOK
  <2>3. \A p \in Requests : p # q => /\ requested'[p] = requested[p]
                                     /\ requestStatus'[p] = requestStatus[p]
    BY <1>0, <2>1 DEF TypeOK
  <2>4. /\ offerStatus'[o] = StatusFor(available'[o], OfferKwh[o])
        /\ requestStatus'[q] = StatusFor(requested'[q], RequestKwh[q])
    BY <1>0, <2>1 DEF TypeOK
  <2> QED BY <2>2, <2>3, <2>4 DEF StatusAgrees, PlacedOffers, PlacedRequests
<1>4. ASSUME NEW r \in Runs, NEW p \in Pairs, NEW t \in TradeIds, Reserve(r, p, t)
      PROVE  StatusAgrees'
  <2> DEFINE kwh == TradeKwh(offerLeft[r], requestLeft[r], p)
  <2>1. /\ IsNextTrade(offerLeft[r], requestLeft[r], p)
        /\ TakeEnergy(p[1], p[2], kwh)
    BY <1>4 DEF Reserve
  <2>2. offerLeft[r] \in [Offers -> Nat] /\ requestLeft[r] \in [Requests -> Nat]
    BY <1>0 DEF TypeOK
  <2>3. p[1] \in Offers /\ p[2] \in Requests /\ kwh \in Nat
    BY <2>1, <2>2, TradeKwhBounds
  <2> HIDE DEF kwh
  <2> QED BY <1>3, <2>1, <2>3
<1>5. ASSUME NEW r \in Runs, Release(r) PROVE StatusAgrees'
  <2> DEFINE trade == trades[current[r]]
  <2>1. trade \in Trade
    BY <1>0, <1>5 DEF Release, ReferencesExist, Exists, TypeOK, NoTrade
  <2>2. trade.offer \in Offers /\ trade.request \in Requests /\ trade.kwh \in Nat
    BY <2>1 DEF Trade
  <2>3. GiveBackEnergy(trade.offer, trade.request, trade.kwh)
    BY <1>5 DEF Release
  <2> HIDE DEF trade
  <2> QED BY <1>3, <2>2, <2>3
<1>6. CASE UNCHANGED bookVars
  BY <1>6 DEF StatusAgrees, StatusFor, bookVars, PlacedOffers, PlacedRequests
<1> QED BY <1>1, <1>2, <1>4, <1>5, <1>6, BookSteps DEF Complete

(* The status column is always the view of the amount column that          *)
(* statusFor computes, whichever runs reserve and release concurrently     *)
(* (syncOfferStatus and syncRequestStatus run in both transactions).       *)
THEOREM StatusCorrectness == Spec => []StatusAgrees
<1>1. Init => StatusAgrees
  BY DEF Init, StatusAgrees, PlacedOffers, PlacedRequests
<1> QED BY <1>1, StatusAgreesStep, TypeInvariance, PTL DEF Spec

-----------------------------------------------------------------------------
LEMMA CompletedIsBilledStep ==
  TypeInv /\ CompletedIsBilled /\ [Next]_vars => CompletedIsBilled'
<1> SUFFICES ASSUME TypeInv, CompletedIsBilled, [Next]_vars PROVE CompletedIsBilled'
  OBVIOUS
<1>0. TypeOK /\ AnswersAreTrue
  BY DEF TypeInv
<1>1. recorded \subseteq recorded'
  BY RecordedStep DEF BillingAnswers, BillingHandlesLate
<1>2. ASSUME NEW r \in Runs, NEW p \in Pairs, NEW t \in TradeIds, Reserve(r, p, t)
      PROVE  CompletedIsBilled'
  BY <1>0, <1>1, <1>2 DEF Reserve, CompletedIsBilled, TypeOK
<1>3. ASSUME NEW r \in Runs, Complete(r) PROVE CompletedIsBilled'
  <2>1. current[r] \in recorded
    BY <1>0, <1>3 DEF Complete, AnswersAreTrue
  <2> QED BY <1>0, <1>1, <1>3, <2>1 DEF Complete, CompletedIsBilled, TypeOK
<1>4. ASSUME NEW r \in Runs, Release(r) PROVE CompletedIsBilled'
  <2>1. trades' = [trades EXCEPT ![current[r]].status = "FAILED"]
    BY <1>4 DEF Release
  <2>2. \A t \in TradeIds : trades'[t].status = "COMPLETED" => trades'[t] = trades[t]
    BY <1>0, <2>1 DEF TypeOK, Trade, NoTrade
  <2> QED BY <1>1, <2>2 DEF CompletedIsBilled
<1>5. CASE UNCHANGED trades
  BY <1>1, <1>5 DEF CompletedIsBilled
<1> QED BY <1>2, <1>3, <1>4, <1>5, BookSteps DEF PlaceOffer, PlaceRequest

(* A COMPLETED trade is in billing's records, for any number of runs, any  *)
(* losses, crashes and late requests, and even if credentials change.      *)
THEOREM CompletionIsTrue == Spec => []CompletedIsBilled
<1>1. Init => CompletedIsBilled
  BY DEF Init, CompletedIsBilled, NoTrade
<1> QED BY <1>1, CompletedIsBilledStep, TypeInvariance, PTL DEF Spec

-----------------------------------------------------------------------------
(***************************************************************************)
(* Where the energy goes: what offers and requests have left, what trades  *)
(* hold and what billing records.                                          *)
(***************************************************************************)

(* What is left of an order together with what its live trades hold. *)
OfferEnergy(o) == available[o] + HeldFromOffer(o)
RequestEnergy(q) == requested[q] + HeldFromRequest(q)

(* An order that is not placed has nothing, and no trade refers to it. *)
OnlyPlacedTrade ==
    /\ \A o \in Offers \ PlacedOffers : available[o] = 0
    /\ \A q \in Requests \ PlacedRequests : requested[q] = 0
    /\ \A t \in TradeIds : Exists(t) => /\ trades[t].offer \in PlacedOffers
                                        /\ trades[t].request \in PlacedRequests

BookInv == TypeInv /\ OnlyPlacedTrade

-----------------------------------------------------------------------------
LEMMA WeightTypes ==
  ASSUME TypeOK, NEW S
  PROVE  /\ \A o \in Offers : OfOffer(S, o) \in [1 .. MaxTrades -> Nat]
         /\ \A q \in Requests : OfRequest(S, q) \in [1 .. MaxTrades -> Nat]
<1>1. \A t \in TradeIds : Exists(t) => trades[t].kwh \in Nat
  BY DEF TypeOK, Exists, Trade, NoTrade
<1> QED BY <1>1 DEF OfOffer, OfRequest, TradeIds

LEMMA HeldTypes ==
  ASSUME TypeOK
  PROVE  /\ \A o \in Offers : HeldFromOffer(o) \in Nat
         /\ \A q \in Requests : HeldFromRequest(q) \in Nat
BY WeightTypes, TotalIsNatural, MatchingAssumption
   DEF HeldFromOffer, HeldFromRequest

LEMMA HeldTypesNext ==
  ASSUME TypeOK'
  PROVE  /\ \A o \in Offers : HeldFromOffer(o)' \in Nat
         /\ \A q \in Requests : HeldFromRequest(q)' \in Nat
<1>1. \A t \in TradeIds : Exists(t)' => trades'[t].kwh \in Nat
  BY DEF TypeOK, Exists, Trade, NoTrade
<1>2. /\ \A o \in Offers : OfOffer(Live, o)' \in [1 .. MaxTrades -> Nat]
      /\ \A q \in Requests : OfRequest(Live, q)' \in [1 .. MaxTrades -> Nat]
  BY <1>1 DEF OfOffer, OfRequest, TradeIds
<1> QED BY <1>2, TotalIsNatural, MatchingAssumption DEF HeldFromOffer, HeldFromRequest

(* One trade changing changes what is held by that trade's share. *)
LEMMA HeldAfterOneChange ==
  ASSUME TypeOK, TypeOK', NEW t \in TradeIds,
         \A u \in TradeIds : u # t => trades'[u] = trades[u]
  PROVE  /\ \A o \in Offers : HeldFromOffer(o)' + OfOffer(Live, o)[t]
                                = HeldFromOffer(o) + OfOffer(Live, o)'[t]
         /\ \A q \in Requests : HeldFromRequest(q)' + OfRequest(Live, q)[t]
                                  = HeldFromRequest(q) + OfRequest(Live, q)'[t]
<1> USE MatchingAssumption
<1>1. \A u \in TradeIds : u # t => (u \in Live <=> u \in Live') /\ (Exists(u) <=> Exists(u)')
  BY DEF Live, Exists
<1>a. \A u \in TradeIds : Exists(u)' => trades'[u].kwh \in Nat
  BY DEF TypeOK, Exists, Trade, NoTrade
<1>2. ASSUME NEW o \in Offers
      PROVE  HeldFromOffer(o)' + OfOffer(Live, o)[t]
               = HeldFromOffer(o) + OfOffer(Live, o)'[t]
  <2> DEFINE a == OfOffer(Live, o)
             b == OfOffer(Live, o)'
  <2>1. a \in [1 .. MaxTrades -> Nat]
    BY WeightTypes
  <2>2. b \in [1 .. MaxTrades -> Nat]
    BY <1>a DEF OfOffer, TradeIds
  <2>3. \A u \in 1 .. MaxTrades : u # t => b[u] = a[u]
    BY <1>1 DEF OfOffer, TradeIds
  <2>4. t \in 1 .. MaxTrades
    BY DEF TradeIds
  <2>5. HeldFromOffer(o) = Total(a, MaxTrades) /\ HeldFromOffer(o)' = Total(b, MaxTrades)
    BY DEF HeldFromOffer
  <2>7. a[t] = OfOffer(Live, o)[t] /\ b[t] = OfOffer(Live, o)'[t]
    OBVIOUS
  <2> HIDE DEF a, b
  <2>6. Total(b, MaxTrades) + a[t] = Total(a, MaxTrades) + b[t]
    BY <2>1, <2>2, <2>3, <2>4, TotalOfOneChange
  <2> QED BY <2>5, <2>6, <2>7
<1>3. ASSUME NEW q \in Requests
      PROVE  HeldFromRequest(q)' + OfRequest(Live, q)[t]
               = HeldFromRequest(q) + OfRequest(Live, q)'[t]
  <2> DEFINE a == OfRequest(Live, q)
             b == OfRequest(Live, q)'
  <2>1. a \in [1 .. MaxTrades -> Nat]
    BY WeightTypes
  <2>2. b \in [1 .. MaxTrades -> Nat]
    BY <1>a DEF OfRequest, TradeIds
  <2>3. \A u \in 1 .. MaxTrades : u # t => b[u] = a[u]
    BY <1>1 DEF OfRequest, TradeIds
  <2>4. t \in 1 .. MaxTrades
    BY DEF TradeIds
  <2>5. HeldFromRequest(q) = Total(a, MaxTrades) /\ HeldFromRequest(q)' = Total(b, MaxTrades)
    BY DEF HeldFromRequest
  <2>7. a[t] = OfRequest(Live, q)[t] /\ b[t] = OfRequest(Live, q)'[t]
    OBVIOUS
  <2> HIDE DEF a, b
  <2>6. Total(b, MaxTrades) + a[t] = Total(a, MaxTrades) + b[t]
    BY <2>1, <2>2, <2>3, <2>4, TotalOfOneChange
  <2> QED BY <2>5, <2>6, <2>7
<1> QED BY <1>2, <1>3

LEMMA HeldWhenTradesStay ==
  ASSUME UNCHANGED trades
  PROVE  /\ \A o \in Offers : HeldFromOffer(o)' = HeldFromOffer(o)
         /\ \A q \in Requests : HeldFromRequest(q)' = HeldFromRequest(q)
<1>1. Live' = Live /\ \A t \in TradeIds : Exists(t)' = Exists(t)
  BY DEF Live, Exists
<1>2. \A o \in Offers : OfOffer(Live, o)' = OfOffer(Live, o)
  BY <1>1 DEF OfOffer
<1>3. \A q \in Requests : OfRequest(Live, q)' = OfRequest(Live, q)
  BY <1>1 DEF OfRequest
<1> QED BY <1>2, <1>3 DEF HeldFromOffer, HeldFromRequest

-----------------------------------------------------------------------------
(* A reservation moves energy from one placed offer and one placed request *)
(* into a new trade.                                                       *)
LEMMA ReserveMoves ==
  ASSUME BookInv, NEW r \in Runs, NEW p \in Pairs, NEW t \in TradeIds,
         Reserve(r, p, t)
  PROVE  \E kwh \in Nat \ {0} :
            /\ p[1] \in PlacedOffers /\ p[2] \in PlacedRequests
            /\ PlacedOffers' = PlacedOffers /\ PlacedRequests' = PlacedRequests
            /\ available' = [available EXCEPT ![p[1]] = @ - kwh]
            /\ requested' = [requested EXCEPT ![p[2]] = @ - kwh]
            /\ trades[t].status = "NONE"
            /\ trades'[t].status = "PENDING_BILLING"
            /\ trades'[t].offer = p[1] /\ trades'[t].request = p[2]
            /\ trades'[t].kwh = kwh
            /\ \A u \in TradeIds : u # t => trades'[u] = trades[u]
<1> DEFINE kwh == TradeKwh(offerLeft[r], requestLeft[r], p)
<1>0. TypeOK /\ OnlyPlacedTrade
  BY DEF BookInv, TypeInv
<1>1. /\ IsNextTrade(offerLeft[r], requestLeft[r], p)
      /\ StillThere(p, kwh) /\ TakeEnergy(p[1], p[2], kwh)
  BY DEF Reserve
<1>2. p[1] \in Offers /\ p[2] \in Requests /\ kwh \in Nat \ {0}
  BY <1>0, <1>1, TradeKwhBounds DEF TypeOK
<1>3. PICK ok \in BOOLEAN :
         trades' = [trades EXCEPT ![t] =
             [status |-> "PENDING_BILLING", offer |-> p[1], request |-> p[2],
              kwh |-> kwh, acceptable |-> ok]]
  BY DEF Reserve
<1> HIDE DEF kwh
<1>4. p[1] \in PlacedOffers /\ p[2] \in PlacedRequests
  BY <1>0, <1>1, <1>2 DEF StillThere, OnlyPlacedTrade
<1>5. PlacedOffers' = PlacedOffers /\ PlacedRequests' = PlacedRequests
  BY <1>0, <1>1, <1>2, <1>4 DEF TakeEnergy, PlacedOffers, PlacedRequests,
                                StatusFor, TypeOK
<1>6. trades[t].status = "NONE"
  BY DEF Reserve, Exists
<1>7. /\ trades'[t] = [status |-> "PENDING_BILLING", offer |-> p[1],
                      request |-> p[2], kwh |-> kwh, acceptable |-> ok]
      /\ \A u \in TradeIds : u # t => trades'[u] = trades[u]
  BY <1>0, <1>3 DEF TypeOK
<1>8. /\ trades'[t].status = "PENDING_BILLING" /\ trades'[t].kwh = kwh
      /\ trades'[t].offer = p[1] /\ trades'[t].request = p[2]
  BY <1>7
<1>9. /\ available' = [available EXCEPT ![p[1]] = @ - kwh]
      /\ requested' = [requested EXCEPT ![p[2]] = @ - kwh]
  BY <1>1 DEF TakeEnergy
<1> QED BY <1>2, <1>4, <1>5, <1>6, <1>7, <1>8, <1>9

(* Billing's answer changes the status of one trade and nothing else of it. *)
LEMMA AnswerChangesStatus ==
  ASSUME BookInv, NEW r \in Runs, Complete(r) \/ Release(r)
  PROVE  /\ current[r] \in TradeIds
         /\ trades[current[r]] \in Trade
         /\ trades[current[r]].offer \in PlacedOffers
         /\ trades[current[r]].request \in PlacedRequests
         /\ trades'[current[r]]
              = [trades[current[r]] EXCEPT !.status = IF Complete(r) THEN "COMPLETED"
                                                                     ELSE "FAILED"]
         /\ \A u \in TradeIds : u # current[r] => trades'[u] = trades[u]
<1>0. TypeOK /\ OnlyPlacedTrade /\ ReferencesExist
  BY DEF BookInv, TypeInv
<1>1. current[r] \in TradeIds /\ Exists(current[r])
  BY <1>0 DEF Complete, Release, ReferencesExist
<1>2. CASE Complete(r)
  BY <1>0, <1>1, <1>2 DEF Complete, TypeOK, Exists, NoTrade, OnlyPlacedTrade
<1>3. CASE ~Complete(r) /\ Release(r)
  BY <1>0, <1>1, <1>3 DEF Release, TypeOK, Exists, NoTrade, OnlyPlacedTrade
<1> QED BY <1>2, <1>3

LEMMA ReleaseGivesBack ==
  ASSUME BookInv, NEW r \in Runs, Release(r)
  PROVE  /\ available' = [available EXCEPT ![trades[current[r]].offer]
                                               = @ + trades[current[r]].kwh]
         /\ requested' = [requested EXCEPT ![trades[current[r]].request]
                                               = @ + trades[current[r]].kwh]
         /\ trades'[current[r]].status = "FAILED"
         /\ PlacedOffers' = PlacedOffers /\ PlacedRequests' = PlacedRequests
<1> DEFINE trade == trades[current[r]]
<1>0. TypeOK
  BY DEF BookInv, TypeInv
<1>1. /\ trade \in Trade /\ current[r] \in TradeIds
      /\ trade.offer \in PlacedOffers /\ trade.request \in PlacedRequests
  BY AnswerChangesStatus
<1>2. /\ trades' = [trades EXCEPT ![current[r]].status = "FAILED"]
      /\ GiveBackEnergy(trade.offer, trade.request, trade.kwh)
  BY DEF Release
<1>3. trades'[current[r]].status = "FAILED"
  BY <1>0, <1>1, <1>2 DEF TypeOK, Trade
<1> HIDE DEF trade
<1>4. PlacedOffers' = PlacedOffers /\ PlacedRequests' = PlacedRequests
  BY <1>0, <1>1, <1>2 DEF GiveBackEnergy, PlacedOffers, PlacedRequests, StatusFor,
                          TypeOK
<1> QED BY <1>2, <1>3, <1>4 DEF GiveBackEnergy, trade

LEMMA PlacedStep ==
  ASSUME BookInv, [Next]_vars
  PROVE  OnlyPlacedTrade'
<1> USE MatchingAssumption
<1>0. TypeOK /\ TypeOK' /\ OnlyPlacedTrade
  BY TypeOKStep DEF BookInv, TypeInv
<1>1. \A t \in TradeIds : Exists(t) =>
         /\ Exists(t)' /\ trades'[t].offer = trades[t].offer
         /\ trades'[t].request = trades[t].request
  BY TradesStay DEF BookInv
<1>2. ASSUME NEW o \in Offers, PlaceOffer(o) PROVE OnlyPlacedTrade'
  BY <1>0, <1>2 DEF PlaceOffer, OnlyPlacedTrade, PlacedOffers, PlacedRequests,
                    TypeOK, Exists
<1>3. ASSUME NEW q \in Requests, PlaceRequest(q) PROVE OnlyPlacedTrade'
  BY <1>0, <1>3 DEF PlaceRequest, OnlyPlacedTrade, PlacedOffers, PlacedRequests,
                    TypeOK, Exists
<1>4. ASSUME NEW r \in Runs, NEW p \in Pairs, NEW t \in TradeIds, Reserve(r, p, t)
      PROVE  OnlyPlacedTrade'
  <2>1. PICK kwh \in Nat \ {0} :
            /\ p[1] \in PlacedOffers /\ p[2] \in PlacedRequests
            /\ PlacedOffers' = PlacedOffers /\ PlacedRequests' = PlacedRequests
            /\ available' = [available EXCEPT ![p[1]] = @ - kwh]
            /\ requested' = [requested EXCEPT ![p[2]] = @ - kwh]
            /\ trades'[t].offer = p[1] /\ trades'[t].request = p[2]
            /\ \A u \in TradeIds : u # t => trades'[u] = trades[u]
    BY <1>4, ReserveMoves
  <2>2. \A u \in TradeIds : Exists(u)' =>
            trades'[u].offer \in PlacedOffers' /\ trades'[u].request \in PlacedRequests'
    BY <1>0, <2>1 DEF OnlyPlacedTrade, Exists
  <2>3. \A o \in Offers \ PlacedOffers' : available'[o] = 0
    BY <1>0, <2>1 DEF OnlyPlacedTrade, TypeOK
  <2>4. \A q \in Requests \ PlacedRequests' : requested'[q] = 0
    BY <1>0, <2>1 DEF OnlyPlacedTrade, TypeOK
  <2> QED BY <2>2, <2>3, <2>4 DEF OnlyPlacedTrade
<1>5. ASSUME NEW r \in Runs, Complete(r) PROVE OnlyPlacedTrade'
  <2>1. \A t \in TradeIds : Exists(t)' => Exists(t)
    BY <1>5, AnswerChangesStatus DEF Exists, Trade, TradeStatus
  <2> QED BY <1>0, <1>1, <1>5, <2>1 DEF Complete, OnlyPlacedTrade, PlacedOffers,
                                        PlacedRequests, bookVars
<1>6. ASSUME NEW r \in Runs, Release(r) PROVE OnlyPlacedTrade'
  <2>1. \A t \in TradeIds : Exists(t)' => Exists(t)
    BY <1>6, AnswerChangesStatus DEF Exists, Trade, TradeStatus
  <2>2. /\ \A o \in Offers \ PlacedOffers : available'[o] = available[o]
        /\ \A q \in Requests \ PlacedRequests : requested'[q] = requested[q]
    <3>1. /\ trades[current[r]].offer \in PlacedOffers
          /\ trades[current[r]].request \in PlacedRequests
      BY <1>6, AnswerChangesStatus
    <3>2. /\ available' = [available EXCEPT ![trades[current[r]].offer]
                                               = @ + trades[current[r]].kwh]
          /\ requested' = [requested EXCEPT ![trades[current[r]].request]
                                               = @ + trades[current[r]].kwh]
      BY <1>6, ReleaseGivesBack
    <3> QED BY <1>0, <3>1, <3>2 DEF TypeOK
  <2>3. PlacedOffers' = PlacedOffers /\ PlacedRequests' = PlacedRequests
    BY <1>6, ReleaseGivesBack
  <2>4. /\ \A o \in Offers \ PlacedOffers' : available'[o] = 0
        /\ \A q \in Requests \ PlacedRequests' : requested'[q] = 0
    BY <1>0, <2>2, <2>3 DEF OnlyPlacedTrade
  <2>5. \A t \in TradeIds : Exists(t)' => /\ trades'[t].offer \in PlacedOffers'
                                          /\ trades'[t].request \in PlacedRequests'
    BY <1>0, <1>1, <2>1, <2>3 DEF OnlyPlacedTrade
  <2> QED BY <2>4, <2>5 DEF OnlyPlacedTrade
<1>7. CASE UNCHANGED <<bookVars, trades>>
  BY <1>0, <1>7 DEF OnlyPlacedTrade, PlacedOffers, PlacedRequests, bookVars, Exists
<1> QED BY <1>2, <1>3, <1>4, <1>5, <1>6, <1>7, BookSteps

LEMMA BookInvariance == Spec => []BookInv
<1>1. Init => BookInv
  BY TypeInvInit DEF BookInv, Init, OnlyPlacedTrade, PlacedOffers, PlacedRequests,
                     Nothing, NothingWanted, Exists, NoTrade
<1>2. BookInv /\ [Next]_vars => BookInv'
  BY PlacedStep, TypeOKStep, ReferencesStep, AnswersStep DEF BookInv, TypeInv
<1> QED BY <1>1, <1>2, PTL DEF Spec

-----------------------------------------------------------------------------
(* What a trade holds of an order, before and after a step. *)
LEMMA ShareOf ==
  ASSUME NEW t \in TradeIds
  PROVE  /\ \A o \in Offers : OfOffer(Live, o)[t]
              = IF trades[t].status \in {"PENDING_BILLING", "COMPLETED"}
                   /\ trades[t].offer = o THEN trades[t].kwh ELSE 0
         /\ \A q \in Requests : OfRequest(Live, q)[t]
              = IF trades[t].status \in {"PENDING_BILLING", "COMPLETED"}
                   /\ trades[t].request = q THEN trades[t].kwh ELSE 0
         /\ \A o \in Offers : OfOffer(Live, o)'[t]
              = IF trades'[t].status \in {"PENDING_BILLING", "COMPLETED"}
                   /\ trades'[t].offer = o THEN trades'[t].kwh ELSE 0
         /\ \A q \in Requests : OfRequest(Live, q)'[t]
              = IF trades'[t].status \in {"PENDING_BILLING", "COMPLETED"}
                   /\ trades'[t].request = q THEN trades'[t].kwh ELSE 0
BY DEF OfOffer, OfRequest, Live, Exists

LEMMA ReserveKeepsEnergy ==
  ASSUME BookInv, TypeOK', NEW r \in Runs, NEW p \in Pairs, NEW t \in TradeIds,
         Reserve(r, p, t)
  PROVE  /\ \A o \in Offers : OfferEnergy(o)' = OfferEnergy(o)
         /\ \A q \in Requests : RequestEnergy(q)' = RequestEnergy(q)
<1>0. TypeOK
  BY DEF BookInv, TypeInv
<1>1. PICK kwh \in Nat \ {0} :
         /\ available' = [available EXCEPT ![p[1]] = @ - kwh]
         /\ requested' = [requested EXCEPT ![p[2]] = @ - kwh]
         /\ trades[t].status = "NONE"
         /\ trades'[t].status = "PENDING_BILLING"
         /\ trades'[t].offer = p[1] /\ trades'[t].request = p[2]
         /\ trades'[t].kwh = kwh
         /\ \A u \in TradeIds : u # t => trades'[u] = trades[u]
  BY ReserveMoves
<1>2. ASSUME NEW o \in Offers PROVE OfferEnergy(o)' = OfferEnergy(o)
  <2>1. HeldFromOffer(o)' + OfOffer(Live, o)[t]
          = HeldFromOffer(o) + OfOffer(Live, o)'[t]
    BY <1>0, <1>1, HeldAfterOneChange
  <2>2. OfOffer(Live, o)[t] = 0 /\ OfOffer(Live, o)'[t] = IF p[1] = o THEN kwh ELSE 0
    BY <1>1, ShareOf
  <2>3. HeldFromOffer(o) \in Nat /\ HeldFromOffer(o)' \in Nat
    BY <1>0, HeldTypes, HeldTypesNext
  <2>4. available'[o] = IF p[1] = o THEN available[o] - kwh ELSE available[o]
    BY <1>0, <1>1 DEF TypeOK
  <2>5. available[o] \in Nat
    BY <1>0 DEF TypeOK
  <2> QED BY <2>1, <2>2, <2>3, <2>4, <2>5 DEF OfferEnergy
<1>3. ASSUME NEW q \in Requests PROVE RequestEnergy(q)' = RequestEnergy(q)
  <2>1. HeldFromRequest(q)' + OfRequest(Live, q)[t]
          = HeldFromRequest(q) + OfRequest(Live, q)'[t]
    BY <1>0, <1>1, HeldAfterOneChange
  <2>2. OfRequest(Live, q)[t] = 0 /\ OfRequest(Live, q)'[t] = IF p[2] = q THEN kwh ELSE 0
    BY <1>1, ShareOf
  <2>3. HeldFromRequest(q) \in Nat /\ HeldFromRequest(q)' \in Nat
    BY <1>0, HeldTypes, HeldTypesNext
  <2>4. requested'[q] = IF p[2] = q THEN requested[q] - kwh ELSE requested[q]
    BY <1>0, <1>1 DEF TypeOK
  <2>5. requested[q] \in Nat
    BY <1>0 DEF TypeOK
  <2> QED BY <2>1, <2>2, <2>3, <2>4, <2>5 DEF RequestEnergy
<1> QED BY <1>2, <1>3

(* Completing a trade that still holds its energy changes nothing; a trade *)
(* that was released in the meantime takes its energy a second time.       *)
LEMMA CompleteKeepsEnergy ==
  ASSUME BookInv, TypeOK', NEW r \in Runs, Complete(r)
  PROVE  /\ \A o \in Offers :
              /\ OfferEnergy(o)' >= OfferEnergy(o)
              /\ trades[current[r]].status # "FAILED" => OfferEnergy(o)' = OfferEnergy(o)
         /\ \A q \in Requests :
              /\ RequestEnergy(q)' >= RequestEnergy(q)
              /\ trades[current[r]].status # "FAILED" => RequestEnergy(q)' = RequestEnergy(q)
<1> DEFINE t == current[r]
<1>0. TypeOK /\ UNCHANGED <<available, requested>>
  BY DEF BookInv, TypeInv, Complete, bookVars
<1>1. t \in TradeIds /\ \A u \in TradeIds : u # t => trades'[u] = trades[u]
  BY AnswerChangesStatus
<1>a. /\ trades[t] \in Trade
      /\ trades'[t] = [trades[t] EXCEPT !.status = "COMPLETED"]
  BY AnswerChangesStatus
<1> HIDE DEF t
<1>2. /\ trades'[t].status = "COMPLETED" /\ trades'[t].kwh = trades[t].kwh
      /\ trades'[t].offer = trades[t].offer /\ trades'[t].request = trades[t].request
      /\ trades[t].kwh \in Nat
      /\ trades[t].status \in {"PENDING_BILLING", "COMPLETED", "FAILED"}
  BY <1>a DEF Trade, TradeStatus
<1>3. ASSUME NEW o \in Offers
      PROVE  /\ OfferEnergy(o)' >= OfferEnergy(o)
             /\ trades[t].status # "FAILED" => OfferEnergy(o)' = OfferEnergy(o)
  <2>1. HeldFromOffer(o)' + OfOffer(Live, o)[t]
          = HeldFromOffer(o) + OfOffer(Live, o)'[t]
    BY <1>0, <1>1, HeldAfterOneChange
  <2>2. /\ OfOffer(Live, o)[t]
             = IF trades[t].status # "FAILED" /\ trades[t].offer = o
               THEN trades[t].kwh ELSE 0
        /\ OfOffer(Live, o)'[t] = IF trades[t].offer = o THEN trades[t].kwh ELSE 0
    BY <1>1, <1>2, ShareOf
  <2>3. HeldFromOffer(o) \in Nat /\ HeldFromOffer(o)' \in Nat /\ available[o] \in Nat
    BY <1>0, HeldTypes, HeldTypesNext DEF TypeOK
  <2> QED BY <1>0, <1>2, <2>1, <2>2, <2>3 DEF OfferEnergy
<1>4. ASSUME NEW q \in Requests
      PROVE  /\ RequestEnergy(q)' >= RequestEnergy(q)
             /\ trades[t].status # "FAILED" => RequestEnergy(q)' = RequestEnergy(q)
  <2>1. HeldFromRequest(q)' + OfRequest(Live, q)[t]
          = HeldFromRequest(q) + OfRequest(Live, q)'[t]
    BY <1>0, <1>1, HeldAfterOneChange
  <2>2. /\ OfRequest(Live, q)[t]
             = IF trades[t].status # "FAILED" /\ trades[t].request = q
               THEN trades[t].kwh ELSE 0
        /\ OfRequest(Live, q)'[t] = IF trades[t].request = q THEN trades[t].kwh ELSE 0
    BY <1>1, <1>2, ShareOf
  <2>3. HeldFromRequest(q) \in Nat /\ HeldFromRequest(q)' \in Nat /\ requested[q] \in Nat
    BY <1>0, HeldTypes, HeldTypesNext DEF TypeOK
  <2> QED BY <1>0, <1>2, <2>1, <2>2, <2>3 DEF RequestEnergy
<1> QED BY <1>3, <1>4 DEF t

(* Releasing a trade that holds its energy changes nothing in total; a     *)
(* second release puts energy on sale that nobody gave up.                 *)
LEMMA ReleaseKeepsEnergy ==
  ASSUME BookInv, TypeOK', NEW r \in Runs, Release(r)
  PROVE  /\ \A o \in Offers :
              /\ OfferEnergy(o)' >= OfferEnergy(o)
              /\ trades[current[r]].status # "FAILED" => OfferEnergy(o)' = OfferEnergy(o)
         /\ \A q \in Requests :
              /\ RequestEnergy(q)' >= RequestEnergy(q)
              /\ trades[current[r]].status # "FAILED" => RequestEnergy(q)' = RequestEnergy(q)
<1> DEFINE t == current[r]
<1>0. TypeOK
  BY DEF BookInv, TypeInv
<1>1. /\ t \in TradeIds /\ trades[t] \in Trade
      /\ \A u \in TradeIds : u # t => trades'[u] = trades[u]
  BY AnswerChangesStatus
<1>2. /\ available' = [available EXCEPT ![trades[t].offer] = @ + trades[t].kwh]
      /\ requested' = [requested EXCEPT ![trades[t].request] = @ + trades[t].kwh]
      /\ trades'[t].status = "FAILED"
  BY ReleaseGivesBack
<1> HIDE DEF t
<1>3. /\ trades[t].kwh \in Nat
      /\ trades[t].status \in {"PENDING_BILLING", "COMPLETED", "FAILED"}
  BY <1>1 DEF Trade, TradeStatus
<1>4. ASSUME NEW o \in Offers
      PROVE  /\ OfferEnergy(o)' >= OfferEnergy(o)
             /\ trades[t].status # "FAILED" => OfferEnergy(o)' = OfferEnergy(o)
  <2>1. HeldFromOffer(o)' + OfOffer(Live, o)[t]
          = HeldFromOffer(o) + OfOffer(Live, o)'[t]
    BY <1>0, <1>1, HeldAfterOneChange
  <2>2. /\ OfOffer(Live, o)[t]
             = IF trades[t].status # "FAILED" /\ trades[t].offer = o
               THEN trades[t].kwh ELSE 0
        /\ OfOffer(Live, o)'[t] = 0
    BY <1>1, <1>2, <1>3, ShareOf
  <2>3. HeldFromOffer(o) \in Nat /\ HeldFromOffer(o)' \in Nat /\ available[o] \in Nat
    BY <1>0, HeldTypes, HeldTypesNext DEF TypeOK
  <2>4. available'[o] = IF trades[t].offer = o THEN available[o] + trades[t].kwh
                                               ELSE available[o]
    BY <1>0, <1>2 DEF TypeOK
  <2> QED BY <1>3, <2>1, <2>2, <2>3, <2>4 DEF OfferEnergy
<1>5. ASSUME NEW q \in Requests
      PROVE  /\ RequestEnergy(q)' >= RequestEnergy(q)
             /\ trades[t].status # "FAILED" => RequestEnergy(q)' = RequestEnergy(q)
  <2>1. HeldFromRequest(q)' + OfRequest(Live, q)[t]
          = HeldFromRequest(q) + OfRequest(Live, q)'[t]
    BY <1>0, <1>1, HeldAfterOneChange
  <2>2. /\ OfRequest(Live, q)[t]
             = IF trades[t].status # "FAILED" /\ trades[t].request = q
               THEN trades[t].kwh ELSE 0
        /\ OfRequest(Live, q)'[t] = 0
    BY <1>1, <1>2, <1>3, ShareOf
  <2>3. HeldFromRequest(q) \in Nat /\ HeldFromRequest(q)' \in Nat /\ requested[q] \in Nat
    BY <1>0, HeldTypes, HeldTypesNext DEF TypeOK
  <2>4. requested'[q] = IF trades[t].request = q THEN requested[q] + trades[t].kwh
                                                 ELSE requested[q]
    BY <1>0, <1>2 DEF TypeOK
  <2> QED BY <1>3, <2>1, <2>2, <2>3, <2>4 DEF RequestEnergy
<1> QED BY <1>4, <1>5 DEF t

(* Placing an order brings its own energy and disturbs no other order. *)
LEMMA PlacingBringsEnergy ==
  ASSUME BookInv, TypeOK',
         (\E o \in Offers : PlaceOffer(o)) \/ (\E q \in Requests : PlaceRequest(q))
  PROVE  /\ \A o \in Offers :
              \/ o \notin PlacedOffers /\ OfferEnergy(o)' = OfferKwh[o]
              \/ /\ OfferEnergy(o)' = OfferEnergy(o)
                 /\ o \in PlacedOffers' <=> o \in PlacedOffers
         /\ \A q \in Requests :
              \/ q \notin PlacedRequests /\ RequestEnergy(q)' = RequestKwh[q]
              \/ /\ RequestEnergy(q)' = RequestEnergy(q)
                 /\ q \in PlacedRequests' <=> q \in PlacedRequests
<1>0. TypeOK /\ OnlyPlacedTrade /\ UNCHANGED trades
  BY DEF BookInv, TypeInv, PlaceOffer, PlaceRequest
<1>1. /\ \A o \in Offers : HeldFromOffer(o)' = HeldFromOffer(o)
      /\ \A q \in Requests : HeldFromRequest(q)' = HeldFromRequest(q)
  BY <1>0, HeldWhenTradesStay
<1>2. ASSUME NEW o \in Offers \ PlacedOffers PROVE HeldFromOffer(o) = 0
  <2>1. \A t \in 1 .. MaxTrades : OfOffer(Live, o)[t] = 0
    BY <1>0, <1>2 DEF OnlyPlacedTrade, OfOffer, TradeIds
  <2> QED BY <1>0, <2>1, TotalOfNothing, WeightTypes, MatchingAssumption
             DEF HeldFromOffer
<1>3. ASSUME NEW q \in Requests \ PlacedRequests PROVE HeldFromRequest(q) = 0
  <2>1. \A t \in 1 .. MaxTrades : OfRequest(Live, q)[t] = 0
    BY <1>0, <1>3 DEF OnlyPlacedTrade, OfRequest, TradeIds
  <2> QED BY <1>0, <2>1, TotalOfNothing, WeightTypes, MatchingAssumption
             DEF HeldFromRequest
<1>4. ASSUME NEW p \in Offers, PlaceOffer(p)
      PROVE  /\ p \notin PlacedOffers /\ OfferEnergy(p)' = OfferKwh[p]
             /\ \A o \in Offers : o # p => /\ OfferEnergy(o)' = OfferEnergy(o)
                                           /\ (o \in PlacedOffers' <=> o \in PlacedOffers)
             /\ \A q \in Requests : /\ RequestEnergy(q)' = RequestEnergy(q)
                                    /\ (q \in PlacedRequests' <=> q \in PlacedRequests)
  <2>1. p \notin PlacedOffers
    BY <1>4 DEF PlaceOffer, PlacedOffers
  <2>2. /\ available'[p] = OfferKwh[p]
        /\ \A o \in Offers : o # p => /\ available'[o] = available[o]
                                      /\ offerStatus'[o] = offerStatus[o]
        /\ UNCHANGED <<requested, requestStatus>>
    BY <1>0, <1>4 DEF PlaceOffer, TypeOK
  <2>3. HeldFromOffer(p)' = 0 /\ OfferKwh[p] \in Nat
    BY <1>1, <1>2, <2>1, MatchingAssumption
  <2> QED BY <1>1, <2>1, <2>2, <2>3 DEF OfferEnergy, RequestEnergy, PlacedOffers,
                                        PlacedRequests
<1>5. ASSUME NEW p \in Requests, PlaceRequest(p)
      PROVE  /\ p \notin PlacedRequests /\ RequestEnergy(p)' = RequestKwh[p]
             /\ \A q \in Requests : q # p => /\ RequestEnergy(q)' = RequestEnergy(q)
                                             /\ (q \in PlacedRequests' <=> q \in PlacedRequests)
             /\ \A o \in Offers : /\ OfferEnergy(o)' = OfferEnergy(o)
                                  /\ (o \in PlacedOffers' <=> o \in PlacedOffers)
  <2>1. p \notin PlacedRequests
    BY <1>5 DEF PlaceRequest, PlacedRequests
  <2>2. /\ requested'[p] = RequestKwh[p]
        /\ \A q \in Requests : q # p => /\ requested'[q] = requested[q]
                                        /\ requestStatus'[q] = requestStatus[q]
        /\ UNCHANGED <<available, offerStatus>>
    BY <1>0, <1>5 DEF PlaceRequest, TypeOK
  <2>3. HeldFromRequest(p)' = 0 /\ RequestKwh[p] \in Nat
    BY <1>1, <1>3, <2>1, MatchingAssumption
  <2> QED BY <1>1, <2>1, <2>2, <2>3 DEF OfferEnergy, RequestEnergy, PlacedOffers,
                                        PlacedRequests
<1>6. CASE \E o \in Offers : PlaceOffer(o)
  <2>1. PICK p \in Offers : PlaceOffer(p)
    BY <1>6
  <2> QED BY <1>4, <2>1
<1>7. CASE \E q \in Requests : PlaceRequest(q)
  <2>1. PICK p \in Requests : PlaceRequest(p)
    BY <1>7
  <2> QED BY <1>5, <2>1
<1> QED BY <1>6, <1>7

-----------------------------------------------------------------------------
LEMMA NothingLostStep == BookInv /\ NothingLost /\ [Next]_vars => NothingLost'
<1> SUFFICES ASSUME BookInv, NothingLost, [Next]_vars PROVE NothingLost'
  OBVIOUS
<1>0. TypeOK /\ TypeOK'
  BY TypeOKStep DEF BookInv, TypeInv
<1>1. /\ \A o \in PlacedOffers : OfferEnergy(o) >= OfferKwh[o]
      /\ \A q \in PlacedRequests : RequestEnergy(q) >= RequestKwh[q]
  BY DEF NothingLost, OfferEnergy, RequestEnergy
<1>2. /\ \A o \in Offers : OfferEnergy(o) \in Nat /\ OfferEnergy(o)' \in Nat
      /\ \A q \in Requests : RequestEnergy(q) \in Nat /\ RequestEnergy(q)' \in Nat
  BY <1>0, HeldTypes, HeldTypesNext DEF TypeOK, OfferEnergy, RequestEnergy
<1>3. /\ \A o \in Offers : OfferKwh[o] \in Nat
      /\ \A q \in Requests : RequestKwh[q] \in Nat
  BY MatchingAssumption
<1>4. SUFFICES /\ \A o \in PlacedOffers' : OfferEnergy(o)' >= OfferKwh[o]
               /\ \A q \in PlacedRequests' : RequestEnergy(q)' >= RequestKwh[q]
  BY <1>4 DEF NothingLost, OfferEnergy, RequestEnergy
<1>5. PlacedOffers \subseteq Offers /\ PlacedRequests \subseteq Requests
      /\ PlacedOffers' \subseteq Offers /\ PlacedRequests' \subseteq Requests
  BY DEF PlacedOffers, PlacedRequests
<1>6. ASSUME \A o \in Offers : OfferEnergy(o)' >= OfferEnergy(o),
             \A q \in Requests : RequestEnergy(q)' >= RequestEnergy(q),
             PlacedOffers' = PlacedOffers, PlacedRequests' = PlacedRequests
      PROVE  /\ \A o \in PlacedOffers' : OfferEnergy(o)' >= OfferKwh[o]
             /\ \A q \in PlacedRequests' : RequestEnergy(q)' >= RequestKwh[q]
  BY <1>1, <1>2, <1>3, <1>5, <1>6
<1>7. CASE (\E o \in Offers : PlaceOffer(o)) \/ (\E q \in Requests : PlaceRequest(q))
  <2>1. /\ \A o \in Offers :
              \/ o \notin PlacedOffers /\ OfferEnergy(o)' = OfferKwh[o]
              \/ /\ OfferEnergy(o)' = OfferEnergy(o)
                 /\ o \in PlacedOffers' <=> o \in PlacedOffers
        /\ \A q \in Requests :
              \/ q \notin PlacedRequests /\ RequestEnergy(q)' = RequestKwh[q]
              \/ /\ RequestEnergy(q)' = RequestEnergy(q)
                 /\ q \in PlacedRequests' <=> q \in PlacedRequests
    BY <1>0, <1>7, PlacingBringsEnergy
  <2> QED BY <1>1, <1>2, <1>3, <1>5, <2>1
<1>8. CASE \E r \in Runs, p \in Pairs, t \in TradeIds : Reserve(r, p, t)
  <2>1. PICK r \in Runs, p \in Pairs, t \in TradeIds : Reserve(r, p, t)
    BY <1>8
  <2>2. PlacedOffers' = PlacedOffers /\ PlacedRequests' = PlacedRequests
    BY <2>1, ReserveMoves
  <2>3. /\ \A o \in Offers : OfferEnergy(o)' = OfferEnergy(o)
        /\ \A q \in Requests : RequestEnergy(q)' = RequestEnergy(q)
    BY <1>0, <2>1, ReserveKeepsEnergy
  <2>4. /\ \A o \in Offers : OfferEnergy(o)' >= OfferEnergy(o)
        /\ \A q \in Requests : RequestEnergy(q)' >= RequestEnergy(q)
    BY <1>2, <2>3
  <2> QED BY <1>6, <2>2, <2>4
<1>9. CASE \E r \in Runs : Complete(r)
  <2>1. PICK r \in Runs : Complete(r)
    BY <1>9
  <2>2. PlacedOffers' = PlacedOffers /\ PlacedRequests' = PlacedRequests
    BY <2>1 DEF Complete, bookVars, PlacedOffers, PlacedRequests
  <2>3. /\ \A o \in Offers : OfferEnergy(o)' >= OfferEnergy(o)
        /\ \A q \in Requests : RequestEnergy(q)' >= RequestEnergy(q)
    BY <1>0, <2>1, CompleteKeepsEnergy
  <2> QED BY <1>6, <2>2, <2>3
<1>10. CASE \E r \in Runs : Release(r)
  <2>1. PICK r \in Runs : Release(r)
    BY <1>10
  <2>2. PlacedOffers' = PlacedOffers /\ PlacedRequests' = PlacedRequests
    BY <2>1, ReleaseGivesBack
  <2>3. /\ \A o \in Offers : OfferEnergy(o)' >= OfferEnergy(o)
        /\ \A q \in Requests : RequestEnergy(q)' >= RequestEnergy(q)
    BY <1>0, <2>1, ReleaseKeepsEnergy
  <2> QED BY <1>6, <2>2, <2>3
<1>11. CASE UNCHANGED <<bookVars, trades>>
  <2>1. UNCHANGED <<available, offerStatus, requested, requestStatus, trades>>
    BY <1>11 DEF bookVars
  <2>2. PlacedOffers' = PlacedOffers /\ PlacedRequests' = PlacedRequests
    BY <2>1 DEF PlacedOffers, PlacedRequests
  <2>3. /\ \A o \in Offers : OfferEnergy(o)' >= OfferEnergy(o)
        /\ \A q \in Requests : RequestEnergy(q)' >= RequestEnergy(q)
    BY <1>2, <2>1, HeldWhenTradesStay DEF OfferEnergy, RequestEnergy
  <2> QED BY <1>6, <2>2, <2>3
<1> QED BY <1>7, <1>8, <1>9, <1>10, <1>11, BookSteps

(* No energy disappears: whatever runs race, crash, release twice or are   *)
(* refused, every kWh an order came with is still on it or held by one of  *)
(* its live trades (reserve and releaseReservation move it in one          *)
(* transaction).                                                           *)
THEOREM NoEnergyDisappears == Spec => []NothingLost
<1>1. Init => NothingLost
  BY DEF Init, NothingLost, PlacedOffers, PlacedRequests
<1> QED BY <1>1, NothingLostStep, BookInvariance, PTL DEF Spec

-----------------------------------------------------------------------------
(***************************************************************************)
(* When is energy held, billed and settled at most once?  TradeMatching    *)
(* has two weak spots: a trade released by two runs, and a refusal that    *)
(* says nothing about an earlier request for the same trade.  The theorems *)
(* here show that these are the only two: with one run at a time, or with  *)
(* no refusals, nothing is held twice; with refusals that are about the    *)
(* payload alone, a released trade is never billed and an answer is final. *)
(***************************************************************************)

OneRun == \A r, s \in Runs : r = s
NoRefusals == ~PayloadMayBeRefused /\ ~CredentialsMayBreak

(* The run settles only trades that are still pending. *)
SettlesPending ==
    /\ \A r \in Runs : pc[r] \in {"bill", "await"} =>
                          trades[current[r]].status = "PENDING_BILLING"
    /\ \A r \in Runs : \A t \in batch[r] : trades[t].status = "PENDING_BILLING"

(* Billing's answers, its records and the trades agree on what the rules   *)
(* say of the payload.                                                     *)
AnswersAreAboutPayload ==
    /\ credentialsValid
    /\ \A r \in Runs : answer[r] = "refused" => ~trades[current[r]].acceptable
    /\ \A t \in recorded : trades[t].acceptable
    /\ \A t \in TradeIds : trades[t].status = "FAILED" => ~trades[t].acceptable

(* No run acts on a trade that has been released. *)
NoStaleAnswer ==
    \A r \in Runs : pc[r] = "await" => trades[current[r]].status # "FAILED"

-----------------------------------------------------------------------------
LEMMA HeldOnceStep ==
  BookInv /\ NoStaleAnswer /\ NothingHeldTwice /\ [Next]_vars => NothingHeldTwice'
<1> SUFFICES ASSUME BookInv, NoStaleAnswer, NothingHeldTwice, [Next]_vars
             PROVE  NothingHeldTwice'
  OBVIOUS
<1>0. TypeOK /\ TypeOK'
  BY TypeOKStep DEF BookInv, TypeInv
<1>1. /\ \A o \in PlacedOffers : OfferEnergy(o) <= OfferKwh[o]
      /\ \A q \in PlacedRequests : RequestEnergy(q) <= RequestKwh[q]
  BY DEF NothingHeldTwice, OfferEnergy, RequestEnergy
<1>2. /\ \A o \in Offers : OfferKwh[o] \in Nat
      /\ \A q \in Requests : RequestKwh[q] \in Nat
  BY MatchingAssumption
<1>3. /\ PlacedOffers \subseteq Offers /\ PlacedRequests \subseteq Requests
      /\ PlacedOffers' \subseteq Offers /\ PlacedRequests' \subseteq Requests
  BY DEF PlacedOffers, PlacedRequests
<1>4. SUFFICES /\ \A o \in PlacedOffers' : OfferEnergy(o)' <= OfferKwh[o]
               /\ \A q \in PlacedRequests' : RequestEnergy(q)' <= RequestKwh[q]
  BY <1>4 DEF NothingHeldTwice, OfferEnergy, RequestEnergy
<1>5. ASSUME \A o \in Offers : OfferEnergy(o)' = OfferEnergy(o),
             \A q \in Requests : RequestEnergy(q)' = RequestEnergy(q),
             PlacedOffers' = PlacedOffers, PlacedRequests' = PlacedRequests
      PROVE  /\ \A o \in PlacedOffers' : OfferEnergy(o)' <= OfferKwh[o]
             /\ \A q \in PlacedRequests' : RequestEnergy(q)' <= RequestKwh[q]
  BY <1>1, <1>3, <1>5
<1>6. CASE (\E o \in Offers : PlaceOffer(o)) \/ (\E q \in Requests : PlaceRequest(q))
  <2>1. /\ \A o \in Offers :
              \/ o \notin PlacedOffers /\ OfferEnergy(o)' = OfferKwh[o]
              \/ /\ OfferEnergy(o)' = OfferEnergy(o)
                 /\ o \in PlacedOffers' <=> o \in PlacedOffers
        /\ \A q \in Requests :
              \/ q \notin PlacedRequests /\ RequestEnergy(q)' = RequestKwh[q]
              \/ /\ RequestEnergy(q)' = RequestEnergy(q)
                 /\ q \in PlacedRequests' <=> q \in PlacedRequests
    BY <1>0, <1>6, PlacingBringsEnergy
  <2> QED BY <1>1, <1>2, <1>3, <2>1
<1>7. CASE \E r \in Runs, p \in Pairs, t \in TradeIds : Reserve(r, p, t)
  <2>1. PICK r \in Runs, p \in Pairs, t \in TradeIds : Reserve(r, p, t)
    BY <1>7
  <2>2. PlacedOffers' = PlacedOffers /\ PlacedRequests' = PlacedRequests
    BY <2>1, ReserveMoves
  <2>3. /\ \A o \in Offers : OfferEnergy(o)' = OfferEnergy(o)
        /\ \A q \in Requests : RequestEnergy(q)' = RequestEnergy(q)
    BY <1>0, <2>1, ReserveKeepsEnergy
  <2> QED BY <1>5, <2>2, <2>3
<1>8. CASE \E r \in Runs : Complete(r)
  <2>1. PICK r \in Runs : Complete(r)
    BY <1>8
  <2>2. PlacedOffers' = PlacedOffers /\ PlacedRequests' = PlacedRequests
    BY <2>1 DEF Complete, bookVars, PlacedOffers, PlacedRequests
  <2>3. trades[current[r]].status # "FAILED"
    BY <2>1 DEF Complete, NoStaleAnswer
  <2>4. /\ \A o \in Offers : OfferEnergy(o)' = OfferEnergy(o)
        /\ \A q \in Requests : RequestEnergy(q)' = RequestEnergy(q)
    BY <1>0, <2>1, <2>3, CompleteKeepsEnergy
  <2> QED BY <1>5, <2>2, <2>4
<1>9. CASE \E r \in Runs : Release(r)
  <2>1. PICK r \in Runs : Release(r)
    BY <1>9
  <2>2. PlacedOffers' = PlacedOffers /\ PlacedRequests' = PlacedRequests
    BY <2>1, ReleaseGivesBack
  <2>3. trades[current[r]].status # "FAILED"
    BY <2>1 DEF Release, NoStaleAnswer
  <2>4. /\ \A o \in Offers : OfferEnergy(o)' = OfferEnergy(o)
        /\ \A q \in Requests : RequestEnergy(q)' = RequestEnergy(q)
    BY <1>0, <2>1, <2>3, ReleaseKeepsEnergy
  <2> QED BY <1>5, <2>2, <2>4
<1>10. CASE UNCHANGED <<bookVars, trades>>
  <2>1. UNCHANGED <<available, offerStatus, requested, requestStatus, trades>>
    BY <1>10 DEF bookVars
  <2>2. PlacedOffers' = PlacedOffers /\ PlacedRequests' = PlacedRequests
    BY <2>1 DEF PlacedOffers, PlacedRequests
  <2>3. /\ \A o \in Offers : OfferEnergy(o)' = OfferEnergy(o)
        /\ \A q \in Requests : RequestEnergy(q)' = RequestEnergy(q)
    BY <2>1, HeldWhenTradesStay DEF OfferEnergy, RequestEnergy
  <2> QED BY <1>5, <2>2, <2>3
<1> QED BY <1>6, <1>7, <1>8, <1>9, <1>10, BookSteps

-----------------------------------------------------------------------------
LEMMA SettlesPendingStep ==
  ASSUME OneRun
  PROVE  TypeInv /\ SettlesPending /\ [Next]_vars => SettlesPending'
<1> SUFFICES ASSUME TypeInv, SettlesPending, [Next]_vars PROVE SettlesPending'
  OBVIOUS
<1>0. TypeOK /\ TypeOK' /\ ReferencesExist
  BY TypeOKStep DEF TypeInv
<1>1. CASE UNCHANGED <<runVars, trades>>
  BY <1>1 DEF SettlesPending, runVars
<1>2. ASSUME NEW r \in Runs, GoIdle(r), UNCHANGED trades PROVE SettlesPending'
  BY <1>0, <1>2 DEF GoIdle, SettlesPending, TypeOK
<1>3. ASSUME NEW r \in Runs, BeginRun(r) PROVE SettlesPending'
  BY <1>0, <1>3 DEF BeginRun, SettlesPending, TypeOK, OldestPending, Pending
<1>4. ASSUME NEW r \in Runs, NEW t \in TradeIds, BillPending(r, t)
      PROVE  SettlesPending'
  BY <1>0, <1>4 DEF BillPending, SettlesPending, TypeOK
<1>5. ASSUME NEW r \in Runs, NEW point \in RunPoint, UNCHANGED <<batch, current, trades>>,
             pc' = [pc EXCEPT ![r] = point],
             point \in {"bill", "await"} => pc[r] \in {"bill", "await"}
      PROVE  SettlesPending'
  BY <1>0, <1>5 DEF SettlesPending, TypeOK
<1>6. ASSUME NEW r \in Runs, PlanTrades(r) PROVE SettlesPending'
  BY <1>2, <1>5, <1>6 DEF PlanTrades, RunPoint
<1>7. ASSUME NEW r \in Runs, NEW p \in Pairs, NEW t \in TradeIds, Reserve(r, p, t)
      PROVE  SettlesPending'
  <2>1. /\ pc' = [pc EXCEPT ![r] = "bill"] /\ current' = [current EXCEPT ![r] = t]
        /\ UNCHANGED batch
    BY <1>7 DEF Reserve
  <2>2. trades'[t].status = "PENDING_BILLING"
    BY <1>0, <1>7 DEF Reserve, TypeOK
  <2>3. \A u \in TradeIds : u # t => trades'[u] = trades[u]
    BY <1>0, <1>7 DEF Reserve, TypeOK
  <2>4. \A s \in Runs : s = r
    BY DEF OneRun
  <2> QED BY <1>0, <2>1, <2>2, <2>3, <2>4 DEF SettlesPending, TypeOK
<1>8. ASSUME NEW r \in Runs, Complete(r) \/ Release(r) PROVE SettlesPending'
  <2>1. \A u \in TradeIds : u # current[r] => trades'[u] = trades[u]
    BY <1>0, <1>8 DEF Complete, Release, TypeOK
  <2>2. Continue(r)
    BY <1>8 DEF Complete, Release
  <2>3. pc'[r] \notin {"bill", "await"} /\ batch'[r] = batch[r] \ {current[r]}
    BY <1>0, <2>2 DEF Continue, TypeOK
  <2>4. \A s \in Runs : s = r
    BY DEF OneRun
  <2> QED BY <1>0, <2>1, <2>3, <2>4 DEF SettlesPending, TypeOK
<1>9. ASSUME NEW r \in Runs, OutcomeUnknown(r) PROVE SettlesPending'
  BY <1>0, <1>9 DEF OutcomeUnknown, SettlesPending, TypeOK
<1>10. ASSUME NEW r \in Runs, RunStep(r) PROVE SettlesPending'
  <2>1. CASE PriceObtained(r)
    BY <1>5, <2>1 DEF PriceObtained, RunPoint
  <2>6. CASE ReadOneSide(r)
    BY <1>5, <2>6 DEF ReadOneSide, RunPoint
  <2>2. CASE BillReserved(r)
    BY <1>5, <2>2 DEF BillReserved, RunPoint
  <2>3. CASE \E p \in Pairs : SkipReservation(r, p)
    BY <2>3 DEF SkipReservation, SettlesPending
  <2>4. CASE BillingAnswers(r)
    BY <2>4 DEF BillingAnswers, SettlesPending
  <2>5. CASE PricingUnavailable(r) \/ FinishRun(r) \/ ReleaseViolatesCheck(r) \/ Crash(r)
    BY <1>2, <2>5 DEF PricingUnavailable, FinishRun, ReleaseViolatesCheck, Crash
  <2> QED BY <1>3, <1>4, <1>6, <1>7, <1>8, <1>9, <1>10, <2>1, <2>2, <2>3, <2>4,
             <2>5, <2>6 DEF RunStep
<1>11. CASE \E o \in Offers : PlaceOffer(o)
  BY <1>1, <1>11 DEF PlaceOffer
<1>12. CASE \E q \in Requests : PlaceRequest(q)
  BY <1>1, <1>12 DEF PlaceRequest
<1> QED BY <1>1, <1>10, <1>11, <1>12
           DEF Next, BillingHandlesLate, ChangeCredentials, vars

-----------------------------------------------------------------------------
LEMMA AboutPayloadStep ==
  ASSUME ~CredentialsMayBreak
  PROVE  TypeInv /\ AnswersAreAboutPayload /\ [Next]_vars => AnswersAreAboutPayload'
<1> SUFFICES ASSUME TypeInv, AnswersAreAboutPayload, [Next]_vars
             PROVE  AnswersAreAboutPayload'
  OBVIOUS
<1>0. TypeOK /\ TypeOK' /\ ReferencesExist /\ AnswersAreTrue
  BY TypeOKStep DEF TypeInv
<1>1. \A t \in TradeIds : Exists(t) => trades'[t].acceptable = trades[t].acceptable
  BY TradesStay
<1>2. \A t \in recorded : trades'[t].acceptable
  BY <1>0, <1>1 DEF AnswersAreAboutPayload, ReferencesExist, TypeOK
<1>3. CASE UNCHANGED <<runVars, trades, recorded, credentialsValid>>
  BY <1>3 DEF AnswersAreAboutPayload, runVars
<1>4. ASSUME NEW r \in Runs, UNCHANGED <<trades, recorded, credentialsValid>>,
             answer'[r] = "none",
             \A s \in Runs : s # r => /\ answer'[s] = answer[s]
                                      /\ current'[s] = current[s]
      PROVE  AnswersAreAboutPayload'
  BY <1>0, <1>4 DEF AnswersAreAboutPayload, TypeOK
<1>6. ASSUME NEW r \in Runs, NEW p \in Pairs, NEW t \in TradeIds, Reserve(r, p, t)
      PROVE  AnswersAreAboutPayload'
  <2>1. /\ current' = [current EXCEPT ![r] = t]
        /\ UNCHANGED <<answer, recorded, credentialsValid>>
    BY <1>6 DEF Reserve, billingVars
  <2>2. answer[r] = "none"
    BY <1>0, <1>6 DEF Reserve, AnswersAreTrue, TypeOK
  <2>3. \A s \in Runs : answer'[s] = "refused" => /\ answer[s] = "refused"
                                                  /\ current'[s] = current[s]
    BY <1>0, <2>1, <2>2 DEF TypeOK
  <2>4. \A s \in Runs : answer[s] = "refused" => ~trades'[current[s]].acceptable
    BY <1>0, <1>1 DEF AnswersAreTrue, ReferencesExist, AnswersAreAboutPayload
  <2>5. \A u \in TradeIds : trades'[u].status = "FAILED" => trades'[u] = trades[u]
    BY <1>0, <1>6 DEF Reserve, TypeOK
  <2> QED BY <1>2, <2>1, <2>3, <2>4, <2>5 DEF AnswersAreAboutPayload
<1>7. ASSUME NEW r \in Runs, BillingAnswers(r) PROVE AnswersAreAboutPayload'
  <2>1. /\ UNCHANGED <<trades, current, credentialsValid>>
        /\ \A s \in Runs : s # r => answer'[s] = answer[s]
        /\ recorded' = IF Refuses(current[r]) THEN recorded
                                              ELSE recorded \cup {current[r]}
        /\ answer'[r] = IF Refuses(current[r]) THEN "refused" ELSE "recorded"
    BY <1>0, <1>7 DEF BillingAnswers, TypeOK
  <2> QED BY <2>1 DEF AnswersAreAboutPayload, Refuses
<1>8. ASSUME NEW r \in Runs, Complete(r) PROVE AnswersAreAboutPayload'
  <2>1. /\ trades' = [trades EXCEPT ![current[r]].status = "COMPLETED"]
        /\ UNCHANGED <<recorded, credentialsValid>>
        /\ \A s \in Runs : answer'[s] = "refused" => /\ answer[s] = "refused"
                                                     /\ current'[s] = current[s]
    BY <1>0, <1>8 DEF Complete, Continue, billingVars, TypeOK
  <2>2. current[r] \in TradeIds /\ Exists(current[r])
    BY <1>0, <1>8 DEF Complete, ReferencesExist
  <2>3. trades'[current[r]].status = "COMPLETED"
    BY <1>0, <2>1, <2>2 DEF TypeOK, Exists, Trade, NoTrade
  <2>4. \A u \in TradeIds : trades'[u].status = "FAILED" => trades'[u] = trades[u]
    BY <1>0, <2>1, <2>3 DEF TypeOK
  <2>5. \A s \in Runs : answer[s] = "refused" => ~trades'[current[s]].acceptable
    BY <1>0, <1>1 DEF AnswersAreTrue, ReferencesExist, AnswersAreAboutPayload
  <2> QED BY <1>2, <2>1, <2>4, <2>5 DEF AnswersAreAboutPayload
<1>9. ASSUME NEW r \in Runs, Release(r) PROVE AnswersAreAboutPayload'
  <2>1. /\ trades' = [trades EXCEPT ![current[r]].status = "FAILED"]
        /\ UNCHANGED <<recorded, credentialsValid>>
        /\ \A s \in Runs : answer'[s] = "refused" => /\ answer[s] = "refused"
                                                     /\ current'[s] = current[s]
    BY <1>0, <1>9 DEF Release, Continue, billingVars, TypeOK
  <2>2. /\ current[r] \in TradeIds /\ Exists(current[r])
        /\ ~trades[current[r]].acceptable
    BY <1>0, <1>9 DEF Release, ReferencesExist, AnswersAreAboutPayload
  <2>3. \A u \in TradeIds : u # current[r] => trades'[u] = trades[u]
    BY <1>0, <2>1 DEF TypeOK
  <2>4. \A u \in TradeIds : trades'[u].status = "FAILED" => ~trades'[u].acceptable
    BY <1>1, <2>2, <2>3 DEF AnswersAreAboutPayload
  <2>5. \A s \in Runs : answer[s] = "refused" => ~trades'[current[s]].acceptable
    BY <1>0, <1>1 DEF AnswersAreTrue, ReferencesExist, AnswersAreAboutPayload
  <2> QED BY <1>2, <2>1, <2>4, <2>5 DEF AnswersAreAboutPayload
<1>10. ASSUME NEW t \in TradeIds, BillingHandlesLate(t) PROVE AnswersAreAboutPayload'
  BY <1>10 DEF BillingHandlesLate, AnswersAreAboutPayload, Refuses, runVars
<1>11. ASSUME NEW r \in Runs, GoIdle(r), UNCHANGED <<trades, recorded, credentialsValid>>
       PROVE  AnswersAreAboutPayload'
  BY <1>0, <1>4, <1>11 DEF GoIdle, TypeOK
<1>12. ASSUME NEW r \in Runs, OutcomeUnknown(r) PROVE AnswersAreAboutPayload'
  BY <1>0, <1>4, <1>12 DEF OutcomeUnknown, TypeOK
<1>13. ASSUME NEW r \in Runs, RunStep(r) PROVE AnswersAreAboutPayload'
  <2>1. CASE BeginRun(r) \/ ReadOneSide(r) \/ PriceObtained(r) \/ BillReserved(r)
             \/ (\E p \in Pairs : SkipReservation(r, p))
    BY <2>1 DEF BeginRun, ReadOneSide, PriceObtained, BillReserved, SkipReservation,
                billingVars, AnswersAreAboutPayload
  <2>2. CASE \E t \in TradeIds : BillPending(r, t)
    <3>1. PICK t \in TradeIds : BillPending(r, t)
      BY <2>2
    <3>2. answer'[r] = "none"
      BY <1>0, <3>1 DEF BillPending, AnswersAreTrue, TypeOK
    <3> QED BY <1>0, <1>4, <3>1, <3>2 DEF BillPending, billingVars, TypeOK
  <2>3. CASE PlanTrades(r)
    <3>1. CASE GoIdle(r)
      BY <1>11, <2>3, <3>1 DEF PlanTrades, billingVars
    <3>2. CASE UNCHANGED <<current, answer>>
      BY <2>3, <3>2 DEF PlanTrades, billingVars, AnswersAreAboutPayload
    <3> QED BY <2>3, <3>1, <3>2 DEF PlanTrades
  <2>4. CASE PricingUnavailable(r) \/ FinishRun(r) \/ ReleaseViolatesCheck(r) \/ Crash(r)
    BY <1>11, <2>4 DEF PricingUnavailable, FinishRun, ReleaseViolatesCheck, Crash,
                       billingVars
  <2> QED BY <1>6, <1>7, <1>8, <1>9, <1>12, <1>13, <2>1, <2>2, <2>3, <2>4 DEF RunStep
<1>14. CASE \E o \in Offers : PlaceOffer(o)
  BY <1>3, <1>14 DEF PlaceOffer, billingVars
<1>15. CASE \E q \in Requests : PlaceRequest(q)
  BY <1>3, <1>15 DEF PlaceRequest, billingVars
<1>16. CASE UNCHANGED vars
  BY <1>3, <1>16 DEF vars, billingVars
<1> QED BY <1>10, <1>13, <1>14, <1>15, <1>16 DEF Next, ChangeCredentials

LEMMA AcceptableStep ==
  ASSUME ~PayloadMayBeRefused
  PROVE  TypeInv /\ AllAcceptable /\ [Next]_vars => AllAcceptable'
<1> SUFFICES ASSUME TypeInv, AllAcceptable, [Next]_vars PROVE AllAcceptable'
  OBVIOUS
<1>0. TypeOK /\ ReferencesExist
  BY DEF TypeInv
<1>1. \A t \in TradeIds : Exists(t) => trades'[t].acceptable = trades[t].acceptable
  BY TradesStay
<1>2. CASE \E r \in Runs, p \in Pairs, t \in TradeIds : Reserve(r, p, t)
  <2>1. PICK r \in Runs, p \in Pairs, t \in TradeIds : Reserve(r, p, t)
    BY <1>2
  <2>2. trades'[t].acceptable
    BY <1>0, <2>1 DEF Reserve, TypeOK
  <2>3. \A u \in TradeIds : u # t => trades'[u] = trades[u]
    BY <1>0, <2>1 DEF Reserve, TypeOK
  <2> QED BY <2>2, <2>3 DEF AllAcceptable, Exists
<1>3. ASSUME NEW r \in Runs, Complete(r) \/ Release(r) PROVE AllAcceptable'
  <2>1. \A u \in TradeIds : u # current[r] => trades'[u] = trades[u]
    BY <1>0, <1>3 DEF Complete, Release, TypeOK
  <2>2. Exists(current[r])
    BY <1>0, <1>3 DEF Complete, Release, ReferencesExist
  <2> QED BY <1>1, <2>1, <2>2 DEF AllAcceptable, Exists
<1>4. CASE UNCHANGED trades
  BY <1>4 DEF AllAcceptable, Exists
<1> QED BY <1>2, <1>3, <1>4, BookSteps DEF PlaceOffer, PlaceRequest

-----------------------------------------------------------------------------
LEMMA PayloadInvariance ==
  ASSUME ~CredentialsMayBreak
  PROVE  Spec => []AnswersAreAboutPayload
<1>1. Init => AnswersAreAboutPayload
  BY DEF Init, AnswersAreAboutPayload, NoTrade
<1>2. TypeInv /\ AnswersAreAboutPayload /\ [Next]_vars => AnswersAreAboutPayload'
  BY AboutPayloadStep
<1> QED BY <1>1, <1>2, TypeInvariance, PTL DEF Spec

LEMMA NoStaleAnswers ==
  ASSUME OneRun \/ NoRefusals
  PROVE  Spec => []NoStaleAnswer
<1>1. CASE OneRun
  <2>1. Init => SettlesPending
    BY DEF Init, SettlesPending
  <2>2. TypeInv /\ SettlesPending /\ [Next]_vars => SettlesPending'
    BY <1>1, SettlesPendingStep
  <2>3. SettlesPending => NoStaleAnswer
    BY DEF SettlesPending, NoStaleAnswer
  <2> QED BY <2>1, <2>2, <2>3, TypeInvariance, PTL DEF Spec
<1>2. CASE NoRefusals
  <2>1. ~CredentialsMayBreak /\ ~PayloadMayBeRefused
    BY <1>2 DEF NoRefusals
  <2>2. Init => AllAcceptable
    BY DEF Init, AllAcceptable, Exists, NoTrade
  <2>3. TypeInv /\ AllAcceptable /\ [Next]_vars => AllAcceptable'
    BY <2>1, AcceptableStep
  <2>4. Spec => []AnswersAreAboutPayload
    BY <2>1, PayloadInvariance
  <2>5. TypeInv /\ AllAcceptable /\ AnswersAreAboutPayload => NoStaleAnswer
    BY DEF TypeInv, ReferencesExist, AllAcceptable, AnswersAreAboutPayload,
           NoStaleAnswer
  <2> QED BY <2>2, <2>3, <2>4, <2>5, TypeInvariance, PTL DEF Spec
<1> QED BY <1>1, <1>2

(* With one run at a time, or while billing refuses nothing, no kWh is     *)
(* held by two trades or both held and on sale, through every crash, lost  *)
(* answer, late request and race that is left.                             *)
THEOREM EnergyHeldOnce ==
  ASSUME OneRun \/ NoRefusals
  PROVE  Spec => []NothingHeldTwice
<1>1. Init => NothingHeldTwice
  BY DEF Init, NothingHeldTwice, PlacedOffers, PlacedRequests
<1>2. Spec => []NoStaleAnswer
  BY NoStaleAnswers
<1> QED BY <1>1, <1>2, HeldOnceStep, BookInvariance, PTL DEF Spec

(* As long as a refusal is about the payload (the service's credentials    *)
(* stay valid), releasing is safe: whatever number of runs, retries and    *)
(* late requests there are, billing never records a released trade.        *)
THEOREM ReleasedNeverBilled ==
  ASSUME ~CredentialsMayBreak
  PROVE  Spec => []ReleasedIsNeverBilled
<1>1. AnswersAreAboutPayload => ReleasedIsNeverBilled
  BY DEF AnswersAreAboutPayload, ReleasedIsNeverBilled
<1> QED BY <1>1, PayloadInvariance, PTL

(* Under the same condition a definite answer is final: the updates of     *)
(* billAndSettle and releaseReservation do not look at the status a trade  *)
(* has by then, yet never change a settled one.                            *)
THEOREM SettledStaysSettled ==
  ASSUME ~CredentialsMayBreak
  PROVE  Spec => SettledIsFinal
<1>1. ASSUME TypeInv, AnswersAreAboutPayload, CompletedIsBilled, [Next]_vars
      PROVE  \A t \in TradeIds :
                trades[t].status \in {"COMPLETED", "FAILED"} => trades'[t] = trades[t]
  <2>0. TypeOK /\ ReferencesExist /\ AnswersAreTrue
    BY <1>1 DEF TypeInv
  <2>1. CASE \E r \in Runs, p \in Pairs, t \in TradeIds : Reserve(r, p, t)
    BY <2>0, <2>1 DEF Reserve, Exists, TypeOK
  <2>2. ASSUME NEW r \in Runs, NEW s, trades' = [trades EXCEPT ![current[r]].status = s],
               current[r] \in TradeIds, Exists(current[r]),
               trades[current[r]].status \in {s, "PENDING_BILLING"}
        PROVE  \A t \in TradeIds :
                  trades[t].status \in {"COMPLETED", "FAILED"} => trades'[t] = trades[t]
    <3>1. trades[current[r]] \in Trade
      BY <2>0, <2>2 DEF TypeOK, Exists, NoTrade
    <3>2. trades[current[r]].status = s => trades'[current[r]] = trades[current[r]]
      BY <2>0, <2>2, <3>1 DEF TypeOK, Trade
    <3> QED BY <2>0, <2>2, <3>2 DEF TypeOK
  <2>3. CASE \E r \in Runs : Complete(r)
    <3>1. PICK r \in Runs : Complete(r)
      BY <2>3
    <3>2. /\ current[r] \in TradeIds /\ Exists(current[r])
          /\ trades[current[r]].acceptable
      BY <1>1, <2>0, <3>1 DEF Complete, ReferencesExist, AnswersAreTrue,
                              AnswersAreAboutPayload
    <3>3. trades[current[r]].status \in {"COMPLETED", "PENDING_BILLING"}
      BY <1>1, <2>0, <3>2 DEF AnswersAreAboutPayload, Exists, TypeOK, Trade,
                              TradeStatus, NoTrade
    <3> QED BY <2>2, <3>1, <3>2, <3>3 DEF Complete
  <2>4. CASE \E r \in Runs : Release(r)
    <3>1. PICK r \in Runs : Release(r)
      BY <2>4
    <3>2. /\ current[r] \in TradeIds /\ Exists(current[r])
          /\ ~trades[current[r]].acceptable
      BY <1>1, <2>0, <3>1 DEF Release, ReferencesExist, AnswersAreAboutPayload
    <3>3. trades[current[r]].status # "COMPLETED"
      BY <1>1, <3>2 DEF CompletedIsBilled, AnswersAreAboutPayload
    <3>4. trades[current[r]].status \in {"FAILED", "PENDING_BILLING"}
      BY <2>0, <3>2, <3>3 DEF Exists, TypeOK, Trade, TradeStatus, NoTrade
    <3> QED BY <2>2, <3>1, <3>2, <3>4 DEF Release
  <2>5. CASE UNCHANGED trades
    BY <2>5
  <2> QED BY <1>1, <2>1, <2>3, <2>4, <2>5, BookSteps DEF PlaceOffer, PlaceRequest
<1>2. Spec => [](TypeInv /\ AnswersAreAboutPayload /\ CompletedIsBilled)
  BY TypeInvariance, PayloadInvariance, CompletionIsTrue, PTL
<1> QED BY <1>1, <1>2, PTL DEF Spec, SettledIsFinal

(* What billing has recorded is held by live trades. *)
LEMMA BilledIsHeld ==
  ASSUME BookInv, NothingHeldTwice, ReleasedIsNeverBilled
  PROVE  NothingBilledTwice
<1>0. TypeOK /\ ReferencesExist /\ OnlyPlacedTrade
  BY DEF BookInv, TypeInv
<1>1. recorded \subseteq Live
  BY <1>0 DEF ReleasedIsNeverBilled, ReferencesExist, Live, Exists, TypeOK,
                    Trade, TradeStatus, NoTrade
<1>2. ASSUME NEW o \in Offers PROVE BilledFromOffer(o) <= OfferKwh[o]
  <2>1. /\ OfOffer(recorded, o) \in [1 .. MaxTrades -> Nat]
        /\ OfOffer(Live, o) \in [1 .. MaxTrades -> Nat]
    BY <1>0, WeightTypes
  <2>2. \A t \in 1 .. MaxTrades : OfOffer(recorded, o)[t] <= OfOffer(Live, o)[t]
    <3>1. \A t \in TradeIds : Exists(t) => trades[t].kwh \in Nat
      BY <1>0 DEF TypeOK, Exists, Trade, NoTrade
    <3> QED BY <1>1, <3>1 DEF OfOffer, TradeIds
  <2>3. BilledFromOffer(o) <= HeldFromOffer(o)
    BY <2>1, <2>2, TotalIsMonotone, MatchingAssumption
       DEF BilledFromOffer, HeldFromOffer
  <2>4. /\ BilledFromOffer(o) \in Nat /\ HeldFromOffer(o) \in Nat
        /\ available[o] \in Nat /\ OfferKwh[o] \in Nat
    BY <1>0, <2>1, TotalIsNatural, MatchingAssumption
       DEF BilledFromOffer, HeldFromOffer, TypeOK
  <2>5. CASE o \in PlacedOffers
    <3>1. available[o] + HeldFromOffer(o) <= OfferKwh[o]
      BY <2>5 DEF NothingHeldTwice
    <3> QED BY <2>3, <2>4, <3>1
  <2>6. CASE o \notin PlacedOffers
    <3>1. \A t \in 1 .. MaxTrades : OfOffer(recorded, o)[t] = 0
      BY <1>0, <2>6 DEF OnlyPlacedTrade, OfOffer, TradeIds
    <3>2. BilledFromOffer(o) = 0
      BY <2>1, <3>1, TotalOfNothing, MatchingAssumption DEF BilledFromOffer
    <3> QED BY <2>4, <3>2
  <2> QED BY <2>5, <2>6
<1>3. ASSUME NEW q \in Requests PROVE BilledFromRequest(q) <= RequestKwh[q]
  <2>1. /\ OfRequest(recorded, q) \in [1 .. MaxTrades -> Nat]
        /\ OfRequest(Live, q) \in [1 .. MaxTrades -> Nat]
    BY <1>0, WeightTypes
  <2>2. \A t \in 1 .. MaxTrades : OfRequest(recorded, q)[t] <= OfRequest(Live, q)[t]
    <3>1. \A t \in TradeIds : Exists(t) => trades[t].kwh \in Nat
      BY <1>0 DEF TypeOK, Exists, Trade, NoTrade
    <3> QED BY <1>1, <3>1 DEF OfRequest, TradeIds
  <2>3. BilledFromRequest(q) <= HeldFromRequest(q)
    BY <2>1, <2>2, TotalIsMonotone, MatchingAssumption
       DEF BilledFromRequest, HeldFromRequest
  <2>4. /\ BilledFromRequest(q) \in Nat /\ HeldFromRequest(q) \in Nat
        /\ requested[q] \in Nat /\ RequestKwh[q] \in Nat
    BY <1>0, <2>1, TotalIsNatural, MatchingAssumption
       DEF BilledFromRequest, HeldFromRequest, TypeOK
  <2>5. CASE q \in PlacedRequests
    <3>1. requested[q] + HeldFromRequest(q) <= RequestKwh[q]
      BY <2>5 DEF NothingHeldTwice
    <3> QED BY <2>3, <2>4, <3>1
  <2>6. CASE q \notin PlacedRequests
    <3>1. \A t \in 1 .. MaxTrades : OfRequest(recorded, q)[t] = 0
      BY <1>0, <2>6 DEF OnlyPlacedTrade, OfRequest, TradeIds
    <3>2. BilledFromRequest(q) = 0
      BY <2>1, <3>1, TotalOfNothing, MatchingAssumption DEF BilledFromRequest
    <3> QED BY <2>4, <3>2
  <2> QED BY <2>5, <2>6
<1> QED BY <1>2, <1>3 DEF NothingBilledTwice

(* Both together: with valid credentials, and with one run at a time or no *)
(* refusals, billing charges for no more energy than an offer had and a    *)
(* request asked for.                                                      *)
THEOREM EnergyBilledOnce ==
  ASSUME ~CredentialsMayBreak, OneRun \/ ~PayloadMayBeRefused
  PROVE  Spec => []NothingBilledTwice
<1>1. OneRun \/ NoRefusals
  BY DEF NoRefusals
<1>2. Spec => []NothingHeldTwice
  BY <1>1, EnergyHeldOnce
<1>3. Spec => []ReleasedIsNeverBilled
  BY ReleasedNeverBilled
<1> QED BY <1>2, <1>3, BilledIsHeld, BookInvariance, PTL

(* Any number of runs may race over the same rows: until billing's rules    *)
(* refuse a trade for what it says, no kWh is held or billed twice.        *)
THEOREM AcceptedIsHeldAndBilledOnce ==
  ASSUME ~CredentialsMayBreak
  PROVE  Spec => []AcceptedIsBilledOnce
<1> DEFINE HeldOnce == AllAcceptable => NothingHeldTwice
<1>1. Init => HeldOnce
  BY DEF Init, NothingHeldTwice, PlacedOffers, PlacedRequests
<1>2. ASSUME BookInv, AnswersAreAboutPayload, HeldOnce, [Next]_vars
      PROVE  HeldOnce'
  <2> SUFFICES ASSUME AllAcceptable' PROVE NothingHeldTwice'
    OBVIOUS
  <2>1. AllAcceptable
    <3>1. \A t \in TradeIds : Exists(t) => Exists(t)' /\ trades'[t].acceptable = trades[t].acceptable
      BY <1>2, TradesStay DEF BookInv, TypeInv
    <3> QED BY <3>1 DEF AllAcceptable
  <2>2. NoStaleAnswer
    BY <1>2, <2>1 DEF BookInv, TypeInv, ReferencesExist, AllAcceptable,
                      AnswersAreAboutPayload, NoStaleAnswer
  <2> QED BY <1>2, <2>1, <2>2, HeldOnceStep
<1>3. ASSUME BookInv, AnswersAreAboutPayload, HeldOnce
      PROVE  AcceptedIsBilledOnce
  BY <1>3, BilledIsHeld DEF AcceptedIsBilledOnce, AnswersAreAboutPayload, ReleasedIsNeverBilled
<1> QED BY <1>1, <1>2, <1>3, BookInvariance, PayloadInvariance, PTL DEF Spec

-----------------------------------------------------------------------------
(***************************************************************************)
(* The list of trades, page by page.                                       *)
(***************************************************************************)
Younger == {p \in TradeIds \X TradeIds : p[1] > p[2]}
Made == {t \in TradeIds : Exists(t)}

LEMMA NewestFirstIsInOrder ==
  ASSUME NEW T \in SUBSET TradeIds
  PROVE  NewestFirst(T) = InOrder(Younger, T) /\ TellsApart(Younger, T) /\ IsFiniteSet(T)
<1>1. \A t \in T : {s \in T : s > t} = {s \in T : <<s, t>> \in Younger}
  BY DEF Younger
<1>2. \A t \in T : Cardinality({s \in T : s > t}) = Place(Younger, T, t)
  BY <1>1 DEF Place
<1>3. \A n \in 1 .. Cardinality(T) :
        (CHOOSE r \in T : Cardinality({s \in T : s > r}) = n - 1)
        = CHOOSE r \in T : Place(Younger, T, r) = n - 1
  BY <1>2
<1>4. NewestFirst(T) = [n \in 1 .. Cardinality(T) |-> CHOOSE r \in T : Cardinality({s \in T : s > r}) = n - 1]
  BY DEF NewestFirst, Ordered
<1>5. NewestFirst(T) = InOrder(Younger, T)
  BY <1>3, <1>4 DEF InOrder
<1>6. TellsApart(Younger, T)
  BY DEF TellsApart, Younger, TradeIds
<1>7. IsFiniteSet(T)
  <2>1. IsFiniteSet(TradeIds)
    <3>1. TradeIds \in SUBSET Nat /\ \A n \in TradeIds : n <= MaxTrades
      BY MatchingAssumption DEF TradeIds
    <3> QED BY <3>1, MatchingAssumption, FS_BoundedSetOfNaturals
  <2> QED BY <2>1, FS_Subset
<1> QED BY <1>5, <1>6, <1>7

Reading ==
    [at : {"rows", "total", "done"}, filter : {"ANY"}, page : Nat \ {0},
     shown : Seq(TradeIds), owed : SUBSET TradeIds]

(* Nothing that was owed and is not on the pages before this one was left  *)
(* out: it stands on this page or a later one.                             *)
Ahead(pages) ==
    \A t \in listing.owed : \/ \E i \in DOMAIN listing.shown : listing.shown[i] = t
                            \/ Place(Younger, Made, t) >= pages * PageSize

PagesInv ==
    /\ TypeInv
    /\ listing = Idle \/ listing \in Reading
    /\ listing # Idle => listing.owed \subseteq Made
    /\ listing.at = "rows" => Ahead(listing.page - 1)
    /\ listing.at = "total" => Ahead(listing.page)
    /\ listing.at = "done" => \A t \in listing.owed :
                                  \E i \in DOMAIN listing.shown : listing.shown[i] = t

LEMMA ListedIsMade == Listed("ANY") = Made
BY DEF Listed, Made

LEMMA PlacesKnown ==
  ASSUME NEW t \in Made
  PROVE  Place(Younger, Made, t) \in Nat /\ Place(Younger, Made, t) < Cardinality(Made)
<1>1. Made \in SUBSET TradeIds
  BY DEF Made
<1> QED BY <1>1, NewestFirstIsInOrder, PlaceBounds

LEMMA MarketMoves ==
  ASSUME PagesInv, [Next]_vars, TypeInv', listing' = listing
  PROVE  PagesInv'
<1>1. Made \in SUBSET Made' /\ Made' \in SUBSET TradeIds
  BY TradesStay DEF Made, PagesInv
<1>2. \A t \in Made : /\ Place(Younger, Made, t) \in Nat /\ Place(Younger, Made', t) \in Nat
                      /\ Place(Younger, Made, t) <= Place(Younger, Made', t)
  <2>1. IsFiniteSet(Made')
    BY <1>1, NewestFirstIsInOrder
  <2> QED BY <1>1, <2>1, PlacesOnlyGrow
<1>3. \A n \in Nat : n * PageSize \in Nat
  BY WindowsAssumption
<1>4. ASSUME listing # Idle
      PROVE  listing.owed \in SUBSET Made /\ listing.page \in Nat /\ listing.page - 1 \in Nat
  BY <1>4 DEF PagesInv, Reading
<1>5. listing.at = "rows" => Ahead(listing.page - 1)'
  <2>1. SUFFICES ASSUME listing.at = "rows" PROVE Ahead(listing.page - 1)'
    OBVIOUS
  <2>2. listing # Idle /\ Ahead(listing.page - 1)
    BY <2>1 DEF PagesInv, Idle
  <2>3. \A t \in listing.owed : \/ \E i \in DOMAIN listing.shown : listing.shown[i] = t
                                \/ Place(Younger, Made', t) >= (listing.page - 1) * PageSize
    BY <1>2, <1>3, <1>4, <2>2 DEF Ahead
  <2> QED BY <2>3 DEF Ahead
<1>6. listing.at = "total" => Ahead(listing.page)'
  <2>1. SUFFICES ASSUME listing.at = "total" PROVE Ahead(listing.page)'
    OBVIOUS
  <2>2. listing # Idle /\ Ahead(listing.page)
    BY <2>1 DEF PagesInv, Idle
  <2>3. \A t \in listing.owed : \/ \E i \in DOMAIN listing.shown : listing.shown[i] = t
                                \/ Place(Younger, Made', t) >= listing.page * PageSize
    BY <1>2, <1>3, <1>4, <2>2 DEF Ahead
  <2> QED BY <2>3 DEF Ahead
<1> QED BY <1>1, <1>5, <1>6 DEF PagesInv

LEMMA PageStays == \A seq, page : PageOf(seq, page) = PageIn(seq, PageSize, page)
BY DEF PageOf, PageIn

LEMMA BeginListingStep ==
  ASSUME PagesInv, BeginListing("ANY"), TypeInv'
  PROVE  PagesInv'
<1>1. Made' = Made /\ Made \in SUBSET TradeIds
  BY DEF BeginListing, List, vars, Made, Exists
<1>2. listing' = [at |-> "rows", filter |-> "ANY", page |-> 1, shown |-> <<>>, owed |-> Made]
  BY ListedIsMade DEF BeginListing, List
<1>3. \A t \in Made : Place(Younger, Made, t) >= 0 * PageSize
  <2>1. 0 * PageSize = 0
    BY WindowsAssumption
  <2> QED BY <2>1, PlacesKnown
<1>4. listing' \in Reading
  BY <1>1, <1>2 DEF Reading
<1>5. listing'.owed = Made /\ listing'.page - 1 = 0 /\ listing'.at = "rows"
  BY <1>2
<1>6. Ahead(0)'
  BY <1>1, <1>3, <1>5 DEF Ahead
<1>7. Ahead(listing.page - 1)'
  BY <1>5, <1>6 DEF Ahead
<1> QED BY <1>1, <1>4, <1>5, <1>7 DEF PagesInv

LEMMA ListingRowsStep ==
  ASSUME PagesInv, ListingRows, TypeInv'
  PROVE  PagesInv'
<1> DEFINE rows == NewestFirst(Made)
           here == PageOf(rows, listing.page)
<1>1. Made' = Made /\ Made \in SUBSET TradeIds
  BY DEF ListingRows, List, vars, Made, Exists
<1>2. listing \in Reading /\ listing.at = "rows"
  BY DEF ListingRows, PagesInv, Idle
<1>3. Listed(listing.filter) = Made
  BY <1>2, ListedIsMade DEF Reading
<1>4. rows = InOrder(Younger, Made) /\ TellsApart(Younger, Made) /\ IsFiniteSet(Made)
  BY <1>1, NewestFirstIsInOrder
<1>5. here \in Seq(TradeIds)
  <2>1. Cardinality(Made) \in Nat
    BY <1>4, FS_CardinalityType
  <2>2. \A n \in 1 .. Cardinality(Made) : rows[n] \in TradeIds
    BY <1>1, <1>4, EveryPlaceIsTaken
  <2>3. rows \in [1 .. Cardinality(Made) -> TradeIds]
    <3>1. rows = [n \in 1 .. Cardinality(Made) |-> rows[n]]
      BY <1>4 DEF InOrder
    <3> HIDE DEF rows
    <3> QED BY <2>2, <3>1
  <2>4. rows \in Seq(TradeIds)
    <3> HIDE DEF rows
    <3> QED BY <2>1, <2>3
  <2>5. listing.page * PageSize \in Nat /\ (listing.page - 1) * PageSize + 1 \in Nat \ {0}
    <3>1. listing.page \in Nat /\ listing.page - 1 \in Nat /\ PageSize \in Nat
      BY <1>2, WindowsAssumption DEF Reading
    <3>2. \A a, b \in Nat : a * b \in Nat
      OBVIOUS
    <3> QED BY <3>1, <3>2
  <2> QED BY <2>4, <2>5, SubSeqProperties DEF PageOf
<1> HIDE DEF here
<1>6. /\ listing' = [listing EXCEPT !.at = "total", !.shown = @ \o here]
      /\ listing'.page = listing.page /\ listing'.owed = listing.owed
      /\ listing'.at = "total" /\ listing'.shown = listing.shown \o here
      /\ listing' \in Reading
  <2>1. listing' = [listing EXCEPT !.at = "total", !.shown = @ \o here]
    BY <1>3 DEF ListingRows, List, here
  <2>2. listing.shown \o here \in Seq(TradeIds)
    BY <1>2, <1>5 DEF Reading
  <2> QED BY <1>2, <2>1, <2>2 DEF Reading
<1>7. \A t \in listing.owed :
          \/ \E i \in DOMAIN (listing.shown \o here) : (listing.shown \o here)[i] = t
          \/ Place(Younger, Made, t) >= listing.page * PageSize
  <2>1. SUFFICES ASSUME NEW t \in listing.owed, Place(Younger, Made, t) < listing.page * PageSize
                 PROVE  \E i \in DOMAIN (listing.shown \o here) : (listing.shown \o here)[i] = t
    <3>1. listing.page * PageSize \in Nat
      BY <1>2, WindowsAssumption DEF Reading
    <3>2. \A t \in listing.owed : Place(Younger, Made, t) \in Nat
      BY <1>2, PlacesKnown DEF PagesInv, Idle
    <3> QED BY <2>1, <3>1, <3>2
  <2>2. t \in Made
    BY <1>2 DEF PagesInv, Idle
  <2>3. CASE \E i \in DOMAIN listing.shown : listing.shown[i] = t
    <3>1. PICK i \in DOMAIN listing.shown : listing.shown[i] = t
      BY <2>3
    <3>2. listing.shown \in Seq(TradeIds)
      BY <1>2 DEF Reading
    <3>3. i \in DOMAIN (listing.shown \o here) /\ (listing.shown \o here)[i] = t
      BY <1>5, <3>1, <3>2
    <3> QED BY <3>3
  <2>4. CASE Place(Younger, Made, t) >= (listing.page - 1) * PageSize
    <3>1. listing.page \in Nat \ {0}
      BY <1>2 DEF Reading
    <3>2. here = PageIn(InOrder(Younger, Made), PageSize, listing.page)
      BY <1>4, PageStays DEF here
    <3>3. \E i \in DOMAIN here : here[i] = t
      BY <1>4, <2>1, <2>2, <2>4, <3>1, <3>2, OnItsPage, WindowsAssumption
    <3>4. PICK i \in DOMAIN here : here[i] = t
      BY <3>3
    <3>5. listing.shown \in Seq(TradeIds)
      BY <1>2 DEF Reading
    <3>6. Len(listing.shown) + i \in DOMAIN (listing.shown \o here)
          /\ (listing.shown \o here)[Len(listing.shown) + i] = t
      BY <1>5, <3>4, <3>5
    <3> QED BY <3>6
  <2> QED BY <1>2, <2>3, <2>4 DEF PagesInv, Ahead
<1>8. Ahead(listing.page)'
  BY <1>1, <1>6, <1>7 DEF Ahead
<1>9. listing'.owed \subseteq Made' /\ listing' # Idle
  <2>1. listing # Idle
    BY <1>2 DEF Idle
  <2> HIDE DEF rows
  <2> QED BY <1>1, <1>6, <2>1 DEF PagesInv, Idle
<1> QED BY <1>6, <1>8, <1>9 DEF PagesInv

LEMMA ListingTotalStep ==
  ASSUME PagesInv, ListingTotal, TypeInv'
  PROVE  PagesInv'
<1> DEFINE more == listing.page * PageSize < Cardinality(Made)
<1>1. Made' = Made /\ Made \in SUBSET TradeIds
  BY DEF ListingTotal, List, vars, Made, Exists
<1>2. listing \in Reading /\ listing.at = "total"
  BY DEF ListingTotal, PagesInv, Idle
<1>3. Listed(listing.filter) = Made
  BY <1>2, ListedIsMade DEF Reading
<1>4. /\ listing' \in Reading
      /\ listing'.page = listing.page + 1 /\ listing'.owed = listing.owed
      /\ listing'.shown = listing.shown /\ listing'.at = IF more THEN "rows" ELSE "done"
  <2>1. listing' = [listing EXCEPT !.at = IF more THEN "rows" ELSE "done", !.page = @ + 1]
    BY <1>3 DEF ListingTotal, List
  <2>2. listing.page + 1 \in Nat \ {0}
    BY <1>2 DEF Reading
  <2> HIDE DEF more
  <2> QED BY <1>2, <2>1, <2>2 DEF Reading
<1>5. listing'.owed \subseteq Made' /\ listing' # Idle
  BY <1>1, <1>2, <1>4 DEF PagesInv, Idle
<1>6. Ahead(listing.page)
  BY <1>2 DEF PagesInv
<1>7. listing'.page - 1 = listing.page
  BY <1>2, <1>4 DEF Reading
<1>8. Ahead(listing.page - 1)'
  BY <1>1, <1>4, <1>6, <1>7 DEF Ahead
<1>9. ASSUME ~more
      PROVE  \A t \in listing.owed : \E i \in DOMAIN listing.shown : listing.shown[i] = t
  <2>1. listing.page * PageSize \in Nat /\ Cardinality(Made) \in Nat
    BY <1>1, <1>2, WindowsAssumption, NewestFirstIsInOrder, FS_CardinalityType DEF Reading
  <2>2. \A t \in listing.owed : Place(Younger, Made, t) \in Nat
                                /\ Place(Younger, Made, t) < Cardinality(Made)
    BY <1>2, PlacesKnown DEF PagesInv, Idle
  <2> QED BY <1>6, <1>9, <2>1, <2>2 DEF Ahead
<1> QED BY <1>4, <1>5, <1>8, <1>9 DEF PagesInv

(* GET /matches, page after page, while runs make and settle trades: every *)
(* trade there was when the reader began is on one of the pages.           *)
THEOREM EveryTradeIsShown ==
  ASSUME Filters \subseteq {"ANY"}
  PROVE  StatSpec => []PagesSkipNothing
<1>1. StatInit => PagesInv
  BY TypeInvInit DEF StatInit, PagesInv, Idle
<1>2. ASSUME PagesInv, [StatNext]_allVars PROVE PagesInv'
  <2>1. [Next]_vars /\ TypeInv'
    <3>1. [Next]_vars
      BY <1>2 DEF StatNext, allVars, MarketStep, NextHour, Summarise, SummaryTrades,
                  SummaryHouseholds, SummaryOffers, SummaryRequests, Rank, RankingRows,
                  RankingTotal, List, BeginListing, ListingRows, ListingTotal, vars
    <3> QED BY <1>2, <3>1, TypeOKStep, ReferencesStep, AnswersStep DEF PagesInv, TypeInv
  <2>2. CASE listing' = listing
    BY <1>2, <2>1, <2>2, MarketMoves
  <2>3. CASE \E f \in Filters : BeginListing(f)
    BY <1>2, <2>1, <2>3, BeginListingStep
  <2>4. CASE ListingRows
    BY <1>2, <2>1, <2>4, ListingRowsStep
  <2>5. CASE ListingTotal
    BY <1>2, <2>1, <2>5, ListingTotalStep
  <2> QED BY <1>2, <2>2, <2>3, <2>4, <2>5
          DEF StatNext, allVars, statVars, MarketStep, NextHour, Summarise, SummaryTrades,
              SummaryHouseholds, SummaryOffers, SummaryRequests, Rank, RankingRows, RankingTotal
<1>3. PagesInv => PagesSkipNothing
  <2>1. \A s : ToSet(s) = {s[i] : i \in DOMAIN s}
    BY DEF ToSet
  <2> QED BY <2>1 DEF PagesInv, PagesSkipNothing
<1> QED BY <1>1, <1>2, <1>3, PTL DEF StatSpec

-----------------------------------------------------------------------------
(***************************************************************************)
(* What the market tells its readers.                                      *)
(***************************************************************************)
Kwh == [t \in TradeIds |-> IF Exists(t) THEN trades[t].kwh ELSE 0]

LEMMA FiniteMarket ==
  /\ IsFiniteSet(TradeIds) /\ IsFiniteSet(Offers) /\ IsFiniteSet(Requests)
  /\ TradeIds = 1 .. MaxTrades /\ MaxTrades \in Nat
<1>1. 1 \in Int /\ MaxTrades \in Int /\ NOffers \in Int /\ NRequests \in Int /\ MaxTrades \in Nat
  BY MatchingAssumption
<1> QED BY <1>1, FS_Interval DEF TradeIds, Offers, Requests

LEMMA KwhType ==
  ASSUME TypeOK
  PROVE  Kwh \in [TradeIds -> Nat]
BY DEF TypeOK, Kwh, Exists, Trade, NoTrade

LEMMA EnergyIsSum ==
  ASSUME TypeOK, NEW T \in SUBSET Made
  PROVE  EnergyOf(T) = SumOver(Kwh, T) /\ EnergyOf(T) \in Nat /\ IsFiniteSet(T)
<1> DEFINE all == [t \in TradeIds |-> IF t \in T THEN trades[t].kwh ELSE 0]
<1>1. T \in SUBSET TradeIds /\ \A t \in T : Exists(t)
  BY DEF Made
<1>2. \A t \in TradeIds : all[t] = IF t \in T THEN Kwh[t] ELSE 0
  BY <1>1 DEF Kwh
<1>3. EnergyOf(T) = Total(all, MaxTrades) /\ DOMAIN all = TradeIds
      /\ all = [t \in TradeIds |-> all[t]]
  BY DEF EnergyOf
<1> HIDE DEF all
<1>4. \A t \in TradeIds : all[t] \in Nat
  BY <1>2, KwhType
<1>5. all \in [1 .. MaxTrades -> Nat]
  BY <1>3, <1>4, FiniteMarket
<1>6. Total(all, MaxTrades) = SumOver(all, TradeIds) /\ Total(all, MaxTrades) \in Nat
  BY <1>5, FiniteMarket, TotalIsSum, TotalIsNatural
<1>7. SumOver(all, TradeIds) = SumOver(all, T)
  <2>1. \A t \in TradeIds : all[t] \in Int /\ (t \notin T => all[t] = 0)
    BY <1>2, <1>4
  <2> QED BY ONLY <1>1, <2>1, FiniteMarket, SumOverSome
<1>8. IsFiniteSet(T)
  BY <1>1, FiniteMarket, FS_Subset
<1>9. SumOver(all, T) = SumOver(Kwh, T)
  BY <1>1, <1>2, <1>8, SumOverSame
<1> QED BY <1>3, <1>6, <1>7, <1>8, <1>9

LEMMA RowsOfAWindow ==
  ASSUME NEW w
  PROVE  /\ TradesIn(w, TradeStatus) \in SUBSET Made
         /\ TradesIn(w, {"COMPLETED"}) \in SUBSET TradesIn(w, TradeStatus)
         /\ TradesIn(w, {"COMPLETED"}) \in SUBSET Made
         /\ IsFiniteSet(TradesIn(w, TradeStatus)) /\ IsFiniteSet(TradesIn(w, {"COMPLETED"}))
<1>1. /\ TradesIn(w, TradeStatus) \in SUBSET Made
      /\ TradesIn(w, {"COMPLETED"}) \in SUBSET TradesIn(w, TradeStatus)
      /\ TradesIn(w, TradeStatus) \in SUBSET TradeIds
  BY DEF TradesIn, TradeStatus, Made, Exists
<1> HIDE DEF TradesIn
<1> QED BY <1>1, FiniteMarket, FS_Subset

(* Rows are dated by the time there are, a trade after its offer and its   *)
(* request, which are of two households.                                   *)
TradeFits(t) ==
    LET o == trades[t].offer
        q == trades[t].request
    IN  /\ o \in PlacedOffers /\ q \in PlacedRequests
        /\ Seller[o] # Buyer[q]
        /\ createdAt.offer[o] <= createdAt.trade[t]
        /\ createdAt.request[q] <= createdAt.trade[t]

DatesInv ==
    /\ hour \in Nat
    /\ \A o \in PlacedOffers : createdAt.offer[o] \in 0 .. hour
    /\ \A q \in PlacedRequests : createdAt.request[q] \in 0 .. hour
    /\ \A t \in TradeIds : Exists(t) => createdAt.trade[t] \in 0 .. hour /\ TradeFits(t)

-----------------------------------------------------------------------------
(* A trend has each trade of its window in one bucket. *)
LEMMA TrendsAddUp ==
  ASSUME BookInv, DatesInv
  PROVE  TrendAddsUp
<1> SUFFICES ASSUME NEW w \in Windows
    PROVE LET trend == Trend(w)
              row == TradeRow(w)
          IN  /\ FoldFunction(+, 0, [h \in DOMAIN trend |-> trend[h].trades]) = row.total
              /\ FoldFunction(+, 0, [h \in DOMAIN trend |-> trend[h].completed]) = row.completed
              /\ FoldFunction(+, 0, [h \in DOMAIN trend |-> trend[h].energy]) = row.completedEnergy
  BY DEF TrendAddsUp
<1> DEFINE H == w.from .. w.to - 1
           trend == Trend(w)
           row == TradeRow(w)
           all == TradesIn(w, TradeStatus)
           done == TradesIn(w, {"COMPLETED"})
           side == createdAt.trade
           numbers == [h \in DOMAIN trend |-> trend[h].trades]
           completed == [h \in DOMAIN trend |-> trend[h].completed]
           energy == [h \in DOMAIN trend |-> trend[h].energy]
<1>1. DOMAIN trend = H /\ DOMAIN numbers = H /\ DOMAIN completed = H /\ DOMAIN energy = H
  BY DEF Trend
<1>2. \A h \in H : {t \in all : side[t] = h} \cap done = {t \in done : side[t] = h}
  BY RowsOfAWindow
<1>3. \A h \in H : /\ numbers[h] = Cardinality({t \in all : side[t] = h})
                   /\ completed[h] = Cardinality({t \in done : side[t] = h})
                   /\ energy[h] = EnergyOf({t \in done : side[t] = h})
  BY <1>1, <1>2 DEF Trend
<1>4. w.from \in Int /\ w.to \in Int /\ w.to - 1 \in Int /\ IsFiniteSet(H)
  <2>1. w.from \in Int /\ w.to \in Int /\ w.to - 1 \in Int
    BY DEF Windows
  <2> QED BY <2>1, FS_Interval
<1>5. \A t \in all : side[t] \in H
  <2>1. \A t \in all : side[t] \in Int
    BY RowsOfAWindow DEF DatesInv, Made
  <2>2. \A t \in all : w.from <= side[t] /\ side[t] < w.to
    BY DEF TradesIn, InWindow
  <2> QED BY <1>4, <2>1, <2>2
<1>6. row.total = Cardinality(all) /\ row.completed = Cardinality(done)
      /\ row.completedEnergy = EnergyOf(done)
  BY DEF TradeRow
<1>7. all \in SUBSET Made /\ done \in SUBSET Made /\ done \in SUBSET all
      /\ IsFiniteSet(all) /\ IsFiniteSet(done)
  BY RowsOfAWindow
<1>8. TypeOK
  BY DEF BookInv, TypeInv
<1> HIDE DEF H, trend, row, all, done, numbers, completed, energy, side
<1>9. /\ CountShares(numbers, side, all, H)
      /\ CountShares(completed, side, done, H)
  BY <1>3, <1>5, <1>7 DEF CountShares
<1>10. Shares(energy, Kwh, side, done, H)
  <2>1. \A t \in done : Kwh[t] \in Nat /\ side[t] \in H
    BY <1>5, <1>7, <1>8, KwhType DEF Made
  <2>2. \A h \in H : {t \in done : side[t] = h} \in SUBSET Made
    BY <1>7
  <2>3. \A h \in H : energy[h] = SumOver(Kwh, {t \in done : side[t] = h})
    BY <1>3, <1>8, <2>2, EnergyIsSum
  <2> QED BY <2>1, <2>3 DEF Shares
<1>11. SumOver(numbers, H) = row.total
  BY <1>4, <1>6, <1>7, <1>9, CountsAddUp
<1>12. SumOver(completed, H) = row.completed
  BY <1>4, <1>6, <1>7, <1>9, CountsAddUp
<1>13. SumOver(energy, H) = row.completedEnergy
  <2>1. SumOver(energy, H) = SumOver(Kwh, done)
    BY <1>4, <1>7, <1>10, SharesAddUp
  <2> QED BY <1>6, <1>7, <1>8, <2>1, EnergyIsSum
<1>14. /\ FoldFunction(+, 0, numbers) = SumOver(numbers, H)
       /\ FoldFunction(+, 0, completed) = SumOver(completed, H)
       /\ FoldFunction(+, 0, energy) = SumOver(energy, H)
  BY <1>1, FoldFunctionIsSumOver
<1>15. /\ FoldFunction(+, 0, numbers) = row.total
       /\ FoldFunction(+, 0, completed) = row.completed
       /\ FoldFunction(+, 0, energy) = row.completedEnergy
  BY <1>11, <1>12, <1>13, <1>14
<1> QED BY <1>15 DEF numbers, completed, energy, trend, row

(* What the households of a ranking sold is what they bought. *)
LEMMA SalesAreBuys ==
  ASSUME BookInv, NEW w
  PROVE  SoldAsBought(Traders(w))
<1> DEFINE rows == Traders(w)
           S == DOMAIN rows
           done == TradesIn(w, {"COMPLETED"})
           seller == [t \in TradeIds |-> Seller[trades[t].offer]]
           buyer == [t \in TradeIds |-> Buyer[trades[t].request]]
           sold == [h \in S |-> rows[h].sold]
           bought == [h \in S |-> rows[h].bought]
<1>1. done \in SUBSET Made /\ IsFiniteSet(done) /\ done \in SUBSET TradeIds
  BY RowsOfAWindow DEF Made
<1>2. \A h : /\ AsSeller(done, h) = {t \in done : seller[t] = h}
             /\ AsBuyer(done, h) = {t \in done : buyer[t] = h}
  BY <1>1 DEF AsSeller, AsBuyer
<1>3. rows = [h \in {x \in HouseholdIds : AsSeller(done, x) \cup AsBuyer(done, x) # {}} |->
                [sold |-> EnergyOf(AsSeller(done, h)), bought |-> EnergyOf(AsBuyer(done, h))]]
  BY DEF Traders
<1>4. TypeOK
  BY DEF BookInv, TypeInv
<1>5. \A t \in done : trades[t].offer \in Offers /\ trades[t].request \in Requests
  BY <1>1, <1>4 DEF TypeOK, Made, Exists, Trade, NoTrade
<1>6. \A t \in done : seller[t] \in HouseholdIds /\ buyer[t] \in HouseholdIds
  BY <1>1, <1>5 DEF HouseholdIds
<1> HIDE DEF rows, done, seller, buyer
<1>7. S = {x \in HouseholdIds : AsSeller(done, x) \cup AsBuyer(done, x) # {}}
      /\ \A h \in S : /\ sold[h] = EnergyOf({t \in done : seller[t] = h})
                      /\ bought[h] = EnergyOf({t \in done : buyer[t] = h})
  BY <1>2, <1>3
<1>8. \A t \in done : seller[t] \in S /\ buyer[t] \in S
  BY <1>2, <1>6, <1>7
<1>9. IsFiniteSet(S)
  <2> DEFINE sellers == {Seller[o] : o \in Offers}
             buyers == {Buyer[q] : q \in Requests}
  <2>1. IsFiniteSet(sellers) /\ IsFiniteSet(buyers)
    BY FiniteMarket, ImageIsFinite
  <2>2. HouseholdIds = sellers \cup buyers
    BY DEF HouseholdIds
  <2> HIDE DEF sellers, buyers
  <2>3. IsFiniteSet(HouseholdIds)
    BY <2>1, <2>2, FS_Union
  <2>4. S \in SUBSET HouseholdIds
    BY <1>7
  <2> QED BY <2>3, <2>4, FS_Subset
<1>10. DOMAIN sold = S /\ DOMAIN bought = S
  OBVIOUS
<1> HIDE DEF S, sold, bought
<1>11. \A t \in done : Kwh[t] \in Int
  <2>1. \A t \in done : Kwh[t] \in Nat
    BY <1>1, <1>4, KwhType
  <2> QED BY <2>1
<1>12. \A h \in S : /\ sold[h] = SumOver(Kwh, {t \in done : seller[t] = h})
                    /\ bought[h] = SumOver(Kwh, {t \in done : buyer[t] = h})
  <2>1. \A h \in S : /\ {t \in done : seller[t] = h} \in SUBSET Made
                     /\ {t \in done : buyer[t] = h} \in SUBSET Made
    BY <1>1
  <2> QED BY <1>4, <1>7, <2>1, EnergyIsSum
<1>13. Shares(sold, Kwh, seller, done, S) /\ Shares(bought, Kwh, buyer, done, S)
  BY <1>8, <1>11, <1>12 DEF Shares
<1>14. SumOver(sold, S) = SumOver(Kwh, done) /\ SumOver(bought, S) = SumOver(Kwh, done)
  BY <1>1, <1>9, <1>13, SharesAddUp
<1>15. FoldFunction(+, 0, sold) = FoldFunction(+, 0, bought)
  BY <1>10, <1>14, FoldFunctionIsSumOver
<1> QED BY <1>15 DEF sold, bought, S, rows, SoldAsBought

(* In a book whose statuses say what is left, energy and rows add up. *)
Agrees(rows, status, original, remaining) ==
    \A i \in rows : /\ original[i] \in Nat /\ remaining[i] \in Nat
                    /\ status[i] = StatusFor(remaining[i], original[i])

Balances(book) ==
    /\ book.totalKwh = book.matchedKwh + book.openKwh
    /\ book.total = book.open + book.partiallyMatched + book.matched

LEMMA BookBalances ==
  ASSUME NEW rows, IsFiniteSet(rows), NEW status, NEW original, NEW remaining,
         Agrees(rows, status, original, remaining)
  PROVE  /\ Balances(BookOf(rows, status, original, remaining))
         /\ BookOf(rows, status, original, remaining).matchedKwh
              = SumOver(original, rows) - SumOver(remaining, rows)
         /\ SumOver(original, rows) \in Nat /\ SumOver(remaining, rows) \in Nat
<1> DEFINE book == BookOf(rows, status, original, remaining)
           open == {i \in rows : status[i] \in {"OPEN"}}
           partly == {i \in rows : status[i] \in {"PARTIALLY_MATCHED"}}
           full == {i \in rows : status[i] \in {"MATCHED"}}
           left == {i \in rows : status[i] \in OpenStatus}
           all == [i \in rows |-> original[i]]
           rest == [i \in rows |-> remaining[i]]
           still == [i \in left |-> remaining[i]]
<1>1. \A i \in rows : /\ original[i] \in Nat /\ remaining[i] \in Nat
                      /\ status[i] \in {"OPEN", "PARTIALLY_MATCHED", "MATCHED"}
                      /\ status[i] = "MATCHED" <=> remaining[i] = 0
  BY DEF Agrees, StatusFor
<1>2. /\ book.total = Cardinality(rows) /\ book.open = Cardinality(open)
      /\ book.partiallyMatched = Cardinality(partly) /\ book.matched = Cardinality(full)
      /\ book.totalKwh = FoldFunction(+, 0, all)
      /\ book.matchedKwh = FoldFunction(+, 0, all) - FoldFunction(+, 0, rest)
      /\ book.openKwh = FoldFunction(+, 0, still)
  BY DEF BookOf
<1>3. /\ open \in SUBSET rows /\ partly \in SUBSET rows /\ full \in SUBSET rows
      /\ left \in SUBSET rows
      /\ rows = (open \cup partly) \cup full /\ open \cap partly = {}
      /\ (open \cup partly) \cap full = {}
      /\ \A i \in rows : i \notin left => remaining[i] = 0
  BY <1>1 DEF OpenStatus
<1>4. /\ DOMAIN all = rows /\ \A i \in rows : all[i] = original[i]
      /\ DOMAIN rest = rows /\ \A i \in rows : rest[i] = remaining[i]
      /\ DOMAIN still = left /\ \A i \in left : still[i] = remaining[i]
  OBVIOUS
<1> HIDE DEF book, open, partly, full, left, all, rest, still
<1>5. /\ IsFiniteSet(open) /\ IsFiniteSet(partly) /\ IsFiniteSet(full) /\ IsFiniteSet(left)
  BY <1>3, FS_Subset
<1>6. Cardinality(rows) = Cardinality(open) + Cardinality(partly) + Cardinality(full)
  <2>1. IsFiniteSet(open \cup partly)
        /\ Cardinality(open \cup partly) = Cardinality(open) + Cardinality(partly) - 0
    BY <1>3, <1>5, FS_Union, FS_EmptySet
  <2>2. Cardinality(rows) = Cardinality(open \cup partly) + Cardinality(full) - 0
    BY <1>3, <1>5, <2>1, FS_Union, FS_EmptySet
  <2>3. Cardinality(open) \in Nat /\ Cardinality(partly) \in Nat /\ Cardinality(full) \in Nat
    BY <1>5, FS_CardinalityType
  <2> QED BY <2>1, <2>2, <2>3
<1>7. FoldFunction(+, 0, all) = SumOver(original, rows)
  <2>1. FoldFunction(+, 0, all) = SumOver(all, rows)
    BY <1>4, FoldFunctionIsSumOver
  <2> QED BY <1>4, <2>1, SumOverSame
<1>8. FoldFunction(+, 0, rest) = SumOver(remaining, rows)
  <2>1. FoldFunction(+, 0, rest) = SumOver(rest, rows)
    BY <1>4, FoldFunctionIsSumOver
  <2> QED BY <1>4, <2>1, SumOverSame
<1>9. FoldFunction(+, 0, still) = SumOver(remaining, rows)
  <2>1. FoldFunction(+, 0, still) = SumOver(still, left)
    BY <1>4, FoldFunctionIsSumOver
  <2>2. SumOver(still, left) = SumOver(remaining, left)
    BY <1>4, <1>5, SumOverSame
  <2>3. \A i \in rows : remaining[i] \in Int
    BY <1>1
  <2>4. SumOver(remaining, rows) = SumOver(remaining, left)
    BY ONLY IsFiniteSet(rows), <1>3, <2>3, SumOverSome
  <2> QED BY <2>1, <2>2, <2>4
<1>10. SumOver(original, rows) \in Nat /\ SumOver(remaining, rows) \in Nat
  BY <1>1, SumOverNatural
<1>11. Balances(book) /\ book.matchedKwh = SumOver(original, rows) - SumOver(remaining, rows)
  <2> DEFINE a == SumOver(original, rows)
             b == SumOver(remaining, rows)
  <2>1. a \in Nat /\ b \in Nat
    BY <1>10
  <2>2. book.totalKwh = a /\ book.matchedKwh = a - b /\ book.openKwh = b
    BY <1>2, <1>7, <1>8, <1>9
  <2>3. book.total = book.open + book.partiallyMatched + book.matched
    BY <1>2, <1>6
  <2>4. book.matchedKwh = a - b
    BY <2>2
  <2> HIDE DEF a, b
  <2>5. a = (a - b) + b
    BY <2>1
  <2>6. book.totalKwh = book.matchedKwh + book.openKwh
    BY <2>2, <2>5
  <2> QED BY <2>3, <2>4, <2>6 DEF Balances, a, b
<1> QED BY <1>10, <1>11 DEF book

-----------------------------------------------------------------------------
(* What an order has given away is at least what its completed trades hold.*)
LEMMA OrdersCoverTrades ==
  ASSUME BookInv, NothingHeldTwice, NEW T \in SUBSET Live
  PROVE  /\ \A o \in PlacedOffers :
              SumOver(Kwh, {t \in T : trades[t].offer = o}) <= OfferKwh[o] - available[o]
         /\ \A q \in PlacedRequests :
              SumOver(Kwh, {t \in T : trades[t].request = q}) <= RequestKwh[q] - requested[q]
<1>1. TypeOK
  BY DEF BookInv, TypeInv
<1>2. Live \in SUBSET Made /\ Made \in SUBSET TradeIds /\ T \in SUBSET Made
  BY DEF Live, Made, Exists
<1>3. ASSUME NEW part \in SUBSET T, NEW held \in [1 .. MaxTrades -> Nat],
             \A t \in TradeIds : t \in part => held[t] = trades[t].kwh
      PROVE  SumOver(Kwh, part) <= Total(held, MaxTrades) /\ SumOver(Kwh, part) \in Nat
  <2> DEFINE f == [t \in TradeIds |-> IF t \in part THEN trades[t].kwh ELSE 0]
  <2>1. part \in SUBSET Made
    BY <1>2
  <2>2. EnergyOf(part) = SumOver(Kwh, part) /\ EnergyOf(part) \in Nat
    BY <1>1, <2>1, EnergyIsSum
  <2>3. EnergyOf(part) = Total(f, MaxTrades)
    BY DEF EnergyOf
  <2>4. f \in [1 .. MaxTrades -> Nat] /\ \A i \in 1 .. MaxTrades : f[i] <= held[i]
    <3>1. \A t \in part : trades[t].kwh \in Nat
      BY <1>1, <2>1 DEF TypeOK, Made, Exists, Trade, NoTrade
    <3>2. \A t \in TradeIds : f[t] \in Nat
      BY <3>1
    <3>3. \A t \in TradeIds : f[t] <= held[t]
      <4>1. \A t \in TradeIds : held[t] \in Nat
        BY FiniteMarket
      <4> QED BY <1>3, <3>1, <4>1
    <3> QED BY <3>2, <3>3, FiniteMarket
  <2> HIDE DEF f
  <2>5. Total(f, MaxTrades) <= Total(held, MaxTrades)
    BY <2>4, FiniteMarket, TotalIsMonotone
  <2> QED BY <2>2, <2>3, <2>5
<1>4. ASSUME NEW o \in PlacedOffers
      PROVE  SumOver(Kwh, {t \in T : trades[t].offer = o}) <= OfferKwh[o] - available[o]
  <2> DEFINE part == {t \in T : trades[t].offer = o}
             held == OfOffer(Live, o)
  <2>1. o \in Offers
    BY DEF PlacedOffers
  <2>2. held \in [1 .. MaxTrades -> Nat]
    BY <1>1, <2>1, WeightTypes
  <2>3. part \in SUBSET T /\ \A t \in TradeIds : t \in part => held[t] = trades[t].kwh
    BY <1>2 DEF OfOffer, Made
  <2>4. HeldFromOffer(o) = Total(held, MaxTrades) /\ HeldFromOffer(o) \in Nat
    BY <1>1, <2>1, HeldTypes DEF HeldFromOffer
  <2> HIDE DEF part, held
  <2>5. SumOver(Kwh, part) <= HeldFromOffer(o) /\ SumOver(Kwh, part) \in Nat
    BY <1>3, <2>2, <2>3, <2>4
  <2>6. available[o] + HeldFromOffer(o) <= OfferKwh[o]
    BY DEF NothingHeldTwice
  <2>7. available[o] \in Nat /\ OfferKwh[o] \in Nat
    BY <1>1, <2>1, MatchingAssumption DEF TypeOK
  <2>8. SumOver(Kwh, part) <= OfferKwh[o] - available[o]
    BY <2>4, <2>5, <2>6, <2>7
  <2> QED BY <2>8 DEF part
<1>5. ASSUME NEW q \in PlacedRequests
      PROVE  SumOver(Kwh, {t \in T : trades[t].request = q}) <= RequestKwh[q] - requested[q]
  <2> DEFINE part == {t \in T : trades[t].request = q}
             held == OfRequest(Live, q)
  <2>1. q \in Requests
    BY DEF PlacedRequests
  <2>2. held \in [1 .. MaxTrades -> Nat]
    BY <1>1, <2>1, WeightTypes
  <2>3. part \in SUBSET T /\ \A t \in TradeIds : t \in part => held[t] = trades[t].kwh
    BY <1>2 DEF OfRequest, Made
  <2>4. HeldFromRequest(q) = Total(held, MaxTrades) /\ HeldFromRequest(q) \in Nat
    BY <1>1, <2>1, HeldTypes DEF HeldFromRequest
  <2> HIDE DEF part, held
  <2>5. SumOver(Kwh, part) <= HeldFromRequest(q) /\ SumOver(Kwh, part) \in Nat
    BY <1>3, <2>2, <2>3, <2>4
  <2>6. requested[q] + HeldFromRequest(q) <= RequestKwh[q]
    BY DEF NothingHeldTwice
  <2>7. requested[q] \in Nat /\ RequestKwh[q] \in Nat
    BY <1>1, <2>1, MatchingAssumption DEF TypeOK
  <2>8. SumOver(Kwh, part) <= RequestKwh[q] - requested[q]
    BY <2>4, <2>5, <2>6, <2>7
  <2> QED BY <2>8 DEF part
<1> QED BY <1>4, <1>5

(* Divided by the orders of one side, which all have given away as much as *)
(* their share, energy is covered.                                         *)
LEMMA SidesCover ==
  ASSUME NEW C, NEW S, IsFiniteSet(C), IsFiniteSet(S), NEW amount, NEW side,
         NEW original, NEW remaining,
         \A x \in C : amount[x] \in Nat /\ side[x] \in S,
         \A s \in S : /\ original[s] \in Nat /\ remaining[s] \in Nat
                      /\ SumOver(amount, {x \in C : side[x] = s}) <= original[s] - remaining[s]
  PROVE  SumOver(amount, C) <= SumOver(original, S) - SumOver(remaining, S)
<1> DEFINE shares == [s \in S |-> SumOver(amount, {x \in C : side[x] = s})]
           given == [s \in S |-> original[s] - remaining[s]]
<1>1. Shares(shares, amount, side, C, S)
  BY DEF Shares
<1>2. \A s \in S : shares[s] \in Nat
  <2>1. SUFFICES ASSUME NEW s \in S PROVE shares[s] \in Nat
    OBVIOUS
  <2> DEFINE part == {x \in C : side[x] = s}
  <2>2. part \in SUBSET C /\ shares[s] = SumOver(amount, part)
    OBVIOUS
  <2> HIDE DEF part, shares
  <2>3. IsFiniteSet(part) /\ \A x \in part : amount[x] \in Nat
    BY <2>2, FS_Subset
  <2> QED BY <2>2, <2>3, SumOverNatural
<1>3. \A s \in S : /\ original[s] \in Int /\ remaining[s] \in Int
                   /\ given[s] = original[s] - remaining[s]
                   /\ shares[s] \in Int /\ given[s] \in Int /\ shares[s] <= given[s]
  BY <1>2
<1> HIDE DEF shares, given
<1>4. SumOver(shares, S) = SumOver(amount, C)
  BY <1>1, SharesAddUp
<1>5. SumOver(shares, S) <= SumOver(given, S)
  BY ONLY IsFiniteSet(S), <1>3, SumOverMonotone
<1>6. SumOver(given, S) = SumOver(original, S) - SumOver(remaining, S)
  BY ONLY IsFiniteSet(S), <1>3, SumOverMinus
<1> QED BY <1>4, <1>5, <1>6

(* The books of a window fit, and one from the beginning covers what has   *)
(* been completed.                                                         *)
LEMMA BooksCover ==
  ASSUME BookInv, DatesInv, StatusAgrees, NothingHeldTwice, NEW w \in Windows
  PROVE  /\ Balances(OfferBook(w)) /\ Balances(RequestBook(w))
         /\ OfferBook(w).matchedKwh \in Int /\ RequestBook(w).matchedKwh \in Int
         /\ w.from = 0 =>
              /\ OfferBook(w).matchedKwh >= EnergyOf(TradesIn(w, {"COMPLETED"}))
              /\ RequestBook(w).matchedKwh >= EnergyOf(TradesIn(w, {"COMPLETED"}))
<1> DEFINE done == TradesIn(w, {"COMPLETED"})
           O == OffersIn(w)
           Q == RequestsIn(w)
           offer == [t \in TradeIds |-> trades[t].offer]
           request == [t \in TradeIds |-> trades[t].request]
<1>1. TypeOK
  BY DEF BookInv, TypeInv
<1>2. O \in SUBSET PlacedOffers /\ O \in SUBSET Offers
      /\ Q \in SUBSET PlacedRequests /\ Q \in SUBSET Requests
  BY DEF OffersIn, RequestsIn, PlacedOffers, PlacedRequests
<1>3. done \in SUBSET Live /\ done \in SUBSET Made /\ done \in SUBSET TradeIds
      /\ IsFiniteSet(done)
  BY RowsOfAWindow DEF Live, Made, TradesIn
<1>4. \A t \in done : offer[t] = trades[t].offer /\ request[t] = trades[t].request
                      /\ Kwh[t] \in Nat
  BY <1>1, <1>3, KwhType
<1>5. w.from = 0 => \A t \in done : offer[t] \in O /\ request[t] \in Q
  <2>1. SUFFICES ASSUME w.from = 0, NEW t \in done PROVE offer[t] \in O /\ request[t] \in Q
    OBVIOUS
  <2>2. createdAt.trade[t] \in 0 .. hour /\ TradeFits(t) /\ hour \in Nat
    BY <1>3 DEF DatesInv, Made
  <2>3. createdAt.trade[t] < w.to /\ w.to \in Nat
    BY DEF TradesIn, InWindow, Windows
  <2>4. /\ offer[t] \in PlacedOffers /\ request[t] \in PlacedRequests
        /\ createdAt.offer[offer[t]] <= createdAt.trade[t]
        /\ createdAt.request[request[t]] <= createdAt.trade[t]
    BY <1>4, <2>2 DEF TradeFits
  <2>5. createdAt.offer[offer[t]] \in 0 .. hour /\ createdAt.request[request[t]] \in 0 .. hour
    BY <2>4 DEF DatesInv
  <2> HIDE DEF offer, request, done
  <2> QED BY <2>1, <2>2, <2>3, <2>4, <2>5 DEF OffersIn, RequestsIn, InWindow
<1>6. /\ \A o \in O : {t \in done : offer[t] = o} = {t \in done : trades[t].offer = o}
      /\ \A q \in Q : {t \in done : request[t] = q} = {t \in done : trades[t].request = q}
  BY <1>4
<1>7. OfferBook(w) = BookOf(O, offerStatus, OfferKwh, available)
      /\ RequestBook(w) = BookOf(Q, requestStatus, RequestKwh, requested)
  BY DEF OfferBook, RequestBook
<1> HIDE DEF done, O, Q, offer, request
<1>8. IsFiniteSet(O) /\ IsFiniteSet(Q)
  BY <1>2, FiniteMarket, FS_Subset
<1>9. /\ \A o \in O : OfferKwh[o] \in Nat /\ available[o] \in Nat
      /\ \A q \in Q : RequestKwh[q] \in Nat /\ requested[q] \in Nat
  BY <1>1, <1>2, MatchingAssumption DEF TypeOK
<1>10. /\ Agrees(O, offerStatus, OfferKwh, available)
       /\ Agrees(Q, requestStatus, RequestKwh, requested)
  BY <1>2, <1>9 DEF Agrees, StatusAgrees
<1>11. /\ Balances(OfferBook(w)) /\ Balances(RequestBook(w))
       /\ OfferBook(w).matchedKwh = SumOver(OfferKwh, O) - SumOver(available, O)
       /\ RequestBook(w).matchedKwh = SumOver(RequestKwh, Q) - SumOver(requested, Q)
       /\ SumOver(OfferKwh, O) \in Nat /\ SumOver(available, O) \in Nat
       /\ SumOver(RequestKwh, Q) \in Nat /\ SumOver(requested, Q) \in Nat
  BY <1>7, <1>8, <1>10, BookBalances
<1>12. EnergyOf(done) = SumOver(Kwh, done) /\ EnergyOf(done) \in Nat
  BY <1>1, <1>3, EnergyIsSum
<1>13. /\ \A o \in O : SumOver(Kwh, {t \in done : offer[t] = o}) <= OfferKwh[o] - available[o]
       /\ \A q \in Q : SumOver(Kwh, {t \in done : request[t] = q}) <= RequestKwh[q] - requested[q]
  BY <1>2, <1>3, <1>6, OrdersCoverTrades
<1>14. ASSUME w.from = 0
       PROVE  /\ SumOver(Kwh, done) <= SumOver(OfferKwh, O) - SumOver(available, O)
              /\ SumOver(Kwh, done) <= SumOver(RequestKwh, Q) - SumOver(requested, Q)
  <2>1. /\ \A t \in done : Kwh[t] \in Nat /\ offer[t] \in O
        /\ \A t \in done : Kwh[t] \in Nat /\ request[t] \in Q
    BY <1>4, <1>5, <1>14
  <2>2. SumOver(Kwh, done) <= SumOver(OfferKwh, O) - SumOver(available, O)
    BY <1>3, <1>8, <1>9, <1>13, <2>1, SidesCover
  <2>3. SumOver(Kwh, done) <= SumOver(RequestKwh, Q) - SumOver(requested, Q)
    BY <1>3, <1>8, <1>9, <1>13, <2>1, SidesCover
  <2> QED BY <2>2, <2>3
<1>15. w.from = 0 => /\ OfferBook(w).matchedKwh >= EnergyOf(done)
                     /\ RequestBook(w).matchedKwh >= EnergyOf(done)
  BY <1>11, <1>12, <1>14
<1>16. OfferBook(w).matchedKwh \in Int /\ RequestBook(w).matchedKwh \in Int
  BY <1>11
<1> QED BY <1>11, <1>15, <1>16 DEF done

-----------------------------------------------------------------------------
(* No refusal is on its way to a trade that has been completed. *)
NoLateRefusal ==
    \A r \in Runs : answer[r] = "refused" => trades[current[r]].status # "COMPLETED"

LEMMA NoLateRefusals ==
  ASSUME OneRun \/ NoRefusals
  PROVE  Spec => []NoLateRefusal
<1>1. CASE OneRun
  <2>1. Init => SettlesPending
    BY DEF Init, SettlesPending
  <2>2. TypeInv /\ SettlesPending /\ [Next]_vars => SettlesPending'
    BY <1>1, SettlesPendingStep
  <2>3. TypeInv /\ SettlesPending => NoLateRefusal
    BY DEF TypeInv, AnswersAreTrue, SettlesPending, NoLateRefusal
  <2> QED BY <2>1, <2>2, <2>3, TypeInvariance, PTL DEF Spec
<1>2. CASE NoRefusals
  <2>1. ~CredentialsMayBreak /\ ~PayloadMayBeRefused
    BY <1>2 DEF NoRefusals
  <2>2. Init => AllAcceptable
    BY DEF Init, AllAcceptable, Exists, NoTrade
  <2>3. TypeInv /\ AllAcceptable /\ [Next]_vars => AllAcceptable'
    BY <2>1, AcceptableStep
  <2>4. Spec => []AnswersAreAboutPayload
    BY <2>1, PayloadInvariance
  <2>5. TypeInv /\ AllAcceptable /\ AnswersAreAboutPayload => NoLateRefusal
    BY DEF TypeInv, ReferencesExist, AnswersAreTrue, AllAcceptable, AnswersAreAboutPayload,
           NoLateRefusal
  <2> QED BY <2>2, <2>3, <2>4, <2>5, TypeInvariance, PTL DEF Spec
<1> QED BY <1>1, <1>2

(* Rows that have been placed stay, completed trades stay completed, and   *)
(* a trade is made of two households' orders.                              *)
LEMMA RowsStay ==
  ASSUME BookInv, NoLateRefusal, [Next]_vars
  PROVE  /\ PlacedOffers \in SUBSET PlacedOffers' /\ PlacedRequests \in SUBSET PlacedRequests'
         /\ \A t \in TradeIds :
               /\ trades[t].status = "COMPLETED" => trades'[t].status = "COMPLETED"
               /\ Exists(t)' /\ ~Exists(t) => Seller[trades'[t].offer] # Buyer[trades'[t].request]
<1>1. TypeOK /\ TypeInv
  BY DEF BookInv, TypeInv
<1>2. CASE \E o \in Offers : PlaceOffer(o)
  BY <1>1, <1>2 DEF PlaceOffer, PlacedOffers, PlacedRequests, Exists, TypeOK
<1>3. CASE \E q \in Requests : PlaceRequest(q)
  BY <1>1, <1>3 DEF PlaceRequest, PlacedOffers, PlacedRequests, Exists, TypeOK
<1>4. CASE \E r \in Runs, p \in Pairs, t \in TradeIds : Reserve(r, p, t)
  <2>1. PICK r \in Runs, p \in Pairs, t \in TradeIds : Reserve(r, p, t)
    BY <1>4
  <2>2. /\ PlacedOffers' = PlacedOffers /\ PlacedRequests' = PlacedRequests
        /\ trades[t].status = "NONE" /\ trades'[t].status = "PENDING_BILLING"
        /\ trades'[t].offer = p[1] /\ trades'[t].request = p[2]
        /\ \A u \in TradeIds : u # t => trades'[u] = trades[u]
    BY <2>1, ReserveMoves
  <2>3. Seller[p[1]] # Buyer[p[2]]
    BY <2>1 DEF Reserve, IsNextTrade, Tradable
  <2> QED BY <2>2, <2>3 DEF Exists
<1>5. CASE \E r \in Runs : Complete(r)
  <2>1. PICK r \in Runs : Complete(r)
    BY <1>5
  <2>2. /\ trades'[current[r]].status = "COMPLETED" /\ Exists(current[r])
        /\ \A u \in TradeIds : u # current[r] => trades'[u] = trades[u]
    BY <2>1, AnswerChangesStatus DEF Trade, TradeStatus, Exists
  <2>3. PlacedOffers' = PlacedOffers /\ PlacedRequests' = PlacedRequests
    BY <2>1 DEF Complete, bookVars, PlacedOffers, PlacedRequests
  <2> QED BY <2>2, <2>3 DEF Exists
<1>6. CASE \E r \in Runs : Release(r)
  <2>1. PICK r \in Runs : Release(r)
    BY <1>6
  <2>2. /\ PlacedOffers' = PlacedOffers /\ PlacedRequests' = PlacedRequests
        /\ trades[current[r]].status # "COMPLETED"
    BY <2>1, ReleaseGivesBack DEF NoLateRefusal, Release
  <2>3. /\ Exists(current[r])
        /\ \A u \in TradeIds : u # current[r] => trades'[u] = trades[u]
    BY <2>1, AnswerChangesStatus DEF Trade, TradeStatus, Exists
  <2> QED BY <2>2, <2>3 DEF Exists
<1>7. CASE UNCHANGED <<bookVars, trades>>
  BY <1>7 DEF bookVars, PlacedOffers, PlacedRequests, Exists
<1> QED BY <1>2, <1>3, <1>4, <1>5, <1>6, <1>7, BookSteps

(* What a reader who has read a trade may rely on. *)
MarketKeeps ==
    \A t \in Made : /\ t \in Made'
                    /\ trades'[t].kwh = trades[t].kwh
                    /\ createdAt'.trade[t] = createdAt.trade[t]
                    /\ trades[t].status = "COMPLETED" => trades'[t].status = "COMPLETED"

LEMMA WhateverHappens ==
  ASSUME BookInv, DatesInv, NoLateRefusal, [StatNext]_allVars
  PROVE  DatesInv' /\ MarketKeeps
<1>1. [Next]_vars
  BY DEF StatNext, allVars, MarketStep, NextHour, Summarise, SummaryTrades,
         SummaryHouseholds, SummaryOffers, SummaryRequests, Rank, RankingRows,
         RankingTotal, List, BeginListing, ListingRows, ListingTotal, vars
<1>2. OnlyPlacedTrade' /\ TypeInv
  BY <1>1, PlacedStep DEF BookInv
<1>3. /\ PlacedOffers \in SUBSET PlacedOffers' /\ PlacedRequests \in SUBSET PlacedRequests'
      /\ \A t \in TradeIds :
            /\ trades[t].status = "COMPLETED" => trades'[t].status = "COMPLETED"
            /\ Exists(t)' /\ ~Exists(t) => Seller[trades'[t].offer] # Buyer[trades'[t].request]
  BY <1>1, RowsStay
<1>4. \A t \in Made : /\ t \in Made' /\ t \in TradeIds
                      /\ trades'[t].kwh = trades[t].kwh
                      /\ trades'[t].offer = trades[t].offer
                      /\ trades'[t].request = trades[t].request
  BY <1>1, <1>2, TradesStay DEF Made
<1>5. CASE MarketStep
  <2>1. /\ hour' = hour /\ hour \in Nat
        /\ createdAt' =
            [offer |-> [o \in Offers |-> IF o \notin PlacedOffers /\ o \in PlacedOffers'
                                         THEN hour ELSE createdAt.offer[o]],
             request |-> [q \in Requests |-> IF q \notin PlacedRequests /\ q \in PlacedRequests'
                                             THEN hour ELSE createdAt.request[q]],
             trade |-> [t \in TradeIds |-> IF ~Exists(t) /\ Exists(t)'
                                           THEN hour ELSE createdAt.trade[t]]]
    BY <1>5 DEF MarketStep, DatesInv
  <2>2. /\ \A o \in Offers : createdAt'.offer[o] =
              IF o \notin PlacedOffers /\ o \in PlacedOffers' THEN hour ELSE createdAt.offer[o]
        /\ \A q \in Requests : createdAt'.request[q] =
              IF q \notin PlacedRequests /\ q \in PlacedRequests' THEN hour ELSE createdAt.request[q]
        /\ \A t \in TradeIds : createdAt'.trade[t] =
              IF ~Exists(t) /\ Exists(t)' THEN hour ELSE createdAt.trade[t]
    BY <2>1
  <2>3. /\ PlacedOffers' \in SUBSET Offers /\ PlacedRequests' \in SUBSET Requests
    BY DEF PlacedOffers, PlacedRequests
  <2>4. /\ \A o \in PlacedOffers' : createdAt'.offer[o] \in 0 .. hour
        /\ \A q \in PlacedRequests' : createdAt'.request[q] \in 0 .. hour
    BY <2>1, <2>2, <2>3 DEF DatesInv
  <2>5. ASSUME NEW t \in TradeIds, Exists(t)'
        PROVE  createdAt'.trade[t] \in 0 .. hour /\ TradeFits(t)'
    <3>1. trades'[t].offer \in PlacedOffers' /\ trades'[t].request \in PlacedRequests'
      BY <1>2, <2>5 DEF OnlyPlacedTrade
    <3>2. CASE Exists(t)
      <4>1. trades'[t].offer = trades[t].offer /\ trades'[t].request = trades[t].request
        BY <1>4, <3>2 DEF Made
      <4>2. createdAt.trade[t] \in 0 .. hour /\ TradeFits(t)
        BY <3>2 DEF DatesInv
      <4>3. /\ createdAt'.trade[t] = createdAt.trade[t]
            /\ createdAt'.offer[trades[t].offer] = createdAt.offer[trades[t].offer]
            /\ createdAt'.request[trades[t].request] = createdAt.request[trades[t].request]
        BY <2>2, <2>3, <3>1, <3>2, <4>1, <4>2 DEF TradeFits
      <4> QED BY <3>1, <4>1, <4>2, <4>3 DEF TradeFits
    <3>3. CASE ~Exists(t)
      <4>1. createdAt'.trade[t] = hour
        BY <2>2, <2>5, <3>3
      <4>2. Seller[trades'[t].offer] # Buyer[trades'[t].request]
        BY <1>3, <2>5, <3>3
      <4>3. /\ createdAt'.offer[trades'[t].offer] \in 0 .. hour
            /\ createdAt'.request[trades'[t].request] \in 0 .. hour
        BY <2>4, <3>1
      <4> QED BY <2>1, <3>1, <4>1, <4>2, <4>3 DEF TradeFits
    <3> QED BY <3>2, <3>3
  <2>6. DatesInv'
    BY <2>1, <2>4, <2>5 DEF DatesInv
  <2>7. \A t \in Made : createdAt'.trade[t] = createdAt.trade[t]
    BY <2>2 DEF Made
  <2> QED BY <1>3, <1>4, <2>6, <2>7 DEF MarketKeeps
<1>6. CASE UNCHANGED <<vars, createdAt>> /\ hour' \in {hour, hour + 1}
  <2>1. /\ PlacedOffers' = PlacedOffers /\ PlacedRequests' = PlacedRequests
        /\ trades' = trades /\ createdAt' = createdAt /\ \A t \in TradeIds : Exists(t)' = Exists(t)
        /\ hour' \in Nat /\ hour \in Nat /\ hour' >= hour
    BY <1>6 DEF vars, bookVars, PlacedOffers, PlacedRequests, Exists, DatesInv
  <2>2. DatesInv'
    BY <2>1 DEF DatesInv, TradeFits
  <2> QED BY <1>3, <1>4, <2>1, <2>2 DEF MarketKeeps
<1> QED BY <1>5, <1>6
    DEF StatNext, allVars, statVars, NextHour, Summarise, SummaryTrades,
        SummaryHouseholds, SummaryOffers, SummaryRequests, Rank, RankingRows,
        RankingTotal, List, BeginListing, ListingRows, ListingTotal

-----------------------------------------------------------------------------
(* The summary, statement by statement.  What its window has completed by  *)
(* now covers what the first statement saw.                                *)
WindowMade == TradesIn(summary.window, TradeStatus)
WindowDone == TradesIn(summary.window, {"COMPLETED"})
DoneEnergy == EnergyOf(WindowDone)

Counted == summary.trades.total > 0
Covered(book) ==
    /\ Balances(book)
    /\ summary.window.from = 0 => book.matchedKwh >= summary.trades.completedEnergy

SummaryInv ==
    /\ summary.at # "idle" => /\ summary.window \in Windows
                              /\ summary.trades.completedEnergy \in Nat
    /\ summary.at \in {"trades", "households", "offers"} =>
          summary.trades.completedEnergy <= DoneEnergy
    /\ summary.at = "trades" /\ Counted => WindowMade # {}
    /\ summary.at \in {"households", "offers", "requests"} /\ Counted => summary.households >= 2
    /\ summary.at \in {"offers", "requests"} => Covered(summary.offers)
    /\ summary.at = "requests" => Covered(summary.requests)

LEMMA DoneEnergyType ==
  TypeOK => DoneEnergy \in Nat
<1> SUFFICES ASSUME TypeOK PROVE DoneEnergy \in Nat
  OBVIOUS
<1>1. WindowDone \in SUBSET Made
  BY RowsOfAWindow DEF WindowDone
<1> QED BY <1>1, EnergyIsSum DEF DoneEnergy

LEMMA SummaryWaits ==
  ASSUME SummaryInv, BookInv, TypeOK', MarketKeeps, summary' = summary
  PROVE  SummaryInv'
<1>1. TypeOK
  BY DEF BookInv, TypeInv
<1>2. WindowMade \in SUBSET WindowMade' /\ WindowMade \in SUBSET Made
  <2>1. WindowMade \in SUBSET Made
    BY RowsOfAWindow DEF WindowMade
  <2>2. \A t \in WindowMade : t \in WindowMade'
    <3>1. \A t \in Made' : trades'[t].status \in TradeStatus /\ t \in TradeIds
      BY DEF Made, Exists, TypeOK, Trade, NoTrade
    <3> QED BY <2>1, <3>1 DEF WindowMade, TradesIn, MarketKeeps
  <2> QED BY <2>1, <2>2
<1>3. \A t \in WindowDone : t \in WindowDone' /\ trades'[t].kwh = trades[t].kwh
  <2>1. \A t \in WindowDone : t \in Made /\ t \in TradeIds /\ trades[t].status = "COMPLETED"
    BY RowsOfAWindow DEF WindowDone, TradesIn, Made
  <2> QED BY <2>1 DEF WindowDone, TradesIn, MarketKeeps
<1>4. DoneEnergy <= DoneEnergy' /\ DoneEnergy \in Nat /\ DoneEnergy' \in Nat
  <2> DEFINE a == [t \in TradeIds |-> IF t \in WindowDone THEN trades[t].kwh ELSE 0]
             b == [t \in TradeIds |-> IF t \in WindowDone' THEN trades'[t].kwh ELSE 0]
  <2>1. /\ \A t \in WindowDone : trades[t].kwh \in Nat
        /\ \A t \in WindowDone' : trades'[t].kwh \in Nat
    BY <1>1 DEF WindowDone, TradesIn, TypeOK, Trade, NoTrade
  <2>2. /\ \A t \in TradeIds : a[t] \in Nat /\ b[t] \in Nat /\ a[t] <= b[t]
        /\ a = [t \in TradeIds |-> a[t]] /\ b = [t \in TradeIds |-> b[t]]
    BY <1>3, <2>1
  <2>3. DoneEnergy = Total(a, MaxTrades) /\ DoneEnergy' = Total(b, MaxTrades)
    BY DEF DoneEnergy, EnergyOf
  <2> HIDE DEF a, b
  <2>4. a \in [1 .. MaxTrades -> Nat] /\ b \in [1 .. MaxTrades -> Nat]
        /\ \A i \in 1 .. MaxTrades : a[i] <= b[i]
    BY <2>2, FiniteMarket
  <2> QED BY <2>3, <2>4, FiniteMarket, TotalIsMonotone, TotalIsNatural
<1> HIDE DEF WindowMade, DoneEnergy
<1>5. summary'.at = summary.at /\ summary'.trades = summary.trades /\ Counted' = Counted
      /\ summary'.window = summary.window
  BY DEF Counted
<1>6. summary.at \in {"trades", "households", "offers"} =>
        summary.trades.completedEnergy <= DoneEnergy'
  <2>1. SUFFICES ASSUME summary.at \in {"trades", "households", "offers"}
                 PROVE  summary.trades.completedEnergy <= DoneEnergy'
    OBVIOUS
  <2>2. summary.trades.completedEnergy \in Nat /\ summary.trades.completedEnergy <= DoneEnergy
    BY <2>1 DEF SummaryInv
  <2> QED BY <1>4, <2>2
<1>7. summary.at = "trades" /\ Counted => WindowMade' # {}
  BY <1>2 DEF SummaryInv
<1> QED BY <1>5, <1>6, <1>7 DEF SummaryInv, Covered

LEMMA SummaryTradesStep ==
  ASSUME BookInv, NEW w \in Windows, SummaryTrades(w)
  PROVE  SummaryInv'
<1>1. summary' = [at |-> "trades", window |-> w, trades |-> TradeRow(w)]
      /\ UNCHANGED <<trades, createdAt>>
  BY DEF SummaryTrades, Summarise, vars
<1>2. TypeOK
  BY DEF BookInv, TypeInv
<1> DEFINE all == TradesIn(w, TradeStatus)
           done == TradesIn(w, {"COMPLETED"})
<1>3. WindowMade' = all /\ WindowDone' = done
  BY <1>1 DEF WindowMade, WindowDone, TradesIn
<1>4. DoneEnergy' = EnergyOf(done)
  BY <1>1, <1>3 DEF DoneEnergy, EnergyOf
<1>5. summary'.trades.total = Cardinality(all) /\ summary'.trades.completedEnergy = EnergyOf(done)
  BY <1>1 DEF TradeRow
<1>6. done \in SUBSET Made
  BY RowsOfAWindow
<1>7. EnergyOf(done) \in Nat
  BY <1>2, <1>6, EnergyIsSum
<1>8. summary'.at = "trades" /\ summary'.window = w
  BY <1>1
<1> HIDE DEF all, done
<1>9. Counted' => WindowMade' # {}
  BY <1>3, <1>5, FS_EmptySet DEF Counted
<1> QED BY <1>4, <1>5, <1>7, <1>8, <1>9 DEF SummaryInv

(* The parties of a trade are two. *)
LEMMA PartiesAreTwo ==
  ASSUME DatesInv, NEW T \in SUBSET Made, T # {}, IsFiniteSet(T)
  PROVE  Cardinality(Households(T)) >= 2
<1> DEFINE seller == [t \in TradeIds |-> Seller[trades[t].offer]]
           buyer == [t \in TradeIds |-> Buyer[trades[t].request]]
           sellers == {seller[t] : t \in T}
           buyers == {buyer[t] : t \in T}
<1>1. PICK t \in T : t \in TradeIds /\ TradeFits(t)
  BY DEF DatesInv, Made
<1>2. seller[t] # buyer[t] /\ seller[t] \in Households(T) /\ buyer[t] \in Households(T)
  BY <1>1 DEF TradeFits, Households
<1>3. Households(T) = sellers \cup buyers
  BY DEF Households, Made
<1>4. IsFiniteSet(sellers) /\ IsFiniteSet(buyers)
  <2> HIDE DEF seller, buyer
  <2> QED BY ImageIsFinite
<1> DEFINE a == seller[t]
           b == buyer[t]
           both == Households(T)
<1>5. a # b /\ a \in both /\ b \in both
  BY <1>2
<1> HIDE DEF sellers, buyers, a, b, both
<1>6. IsFiniteSet(both)
  BY <1>3, <1>4, FS_Union DEF both
<1>7. IsFiniteSet({a}) /\ Cardinality({a}) = 1
  BY FS_Singleton
<1>8. Cardinality({a} \cup {b}) = 1 + 1
  BY <1>5, <1>7, FS_AddElement
<1>9. {a} \cup {b} \in SUBSET both
  BY <1>5
<1>10. Cardinality({a} \cup {b}) <= Cardinality(both) /\ Cardinality(both) \in Nat
  BY <1>6, <1>9, FS_Subset, FS_CardinalityType
<1>11. Cardinality(both) >= 2
  BY <1>8, <1>10
<1> QED BY <1>11 DEF both

LEMMA WindowStands ==
  ASSUME UNCHANGED vars, UNCHANGED createdAt, summary'.window = summary.window
  PROVE  DoneEnergy' = DoneEnergy /\ WindowMade' = WindowMade
BY DEF DoneEnergy, WindowDone, WindowMade, TradesIn, EnergyOf, vars

LEMMA SummaryHouseholdsStep ==
  ASSUME SummaryInv, DatesInv, SummaryHouseholds
  PROVE  SummaryInv'
<1>1. /\ summary.at = "trades"
      /\ summary' = [at |-> "households", window |-> summary.window, trades |-> summary.trades,
                     households |-> Cardinality(Households(WindowMade))]
      /\ UNCHANGED vars /\ UNCHANGED createdAt
  BY DEF SummaryHouseholds, Summarise, WindowMade
<1>2. /\ summary'.at = "households" /\ summary'.window = summary.window
      /\ summary'.trades = summary.trades
      /\ summary'.households = Cardinality(Households(WindowMade))
  BY <1>1
<1>3. DoneEnergy' = DoneEnergy
  BY <1>1, <1>2, WindowStands
<1>4. Counted => summary'.households >= 2
  <2>1. WindowMade \in SUBSET Made /\ IsFiniteSet(WindowMade)
    BY RowsOfAWindow DEF WindowMade
  <2>2. Counted => WindowMade # {}
    BY <1>1 DEF SummaryInv
  <2> HIDE DEF WindowMade
  <2> QED BY <1>2, <2>1, <2>2, PartiesAreTwo
<1>5. Counted' = Counted
  BY <1>2 DEF Counted
<1>6. summary.window \in Windows /\ summary.trades.completedEnergy \in Nat
      /\ summary.trades.completedEnergy <= DoneEnergy
  BY <1>1 DEF SummaryInv
<1> QED BY <1>2, <1>3, <1>4, <1>5, <1>6 DEF SummaryInv

LEMMA SummaryOffersStep ==
  ASSUME SummaryInv, BookInv, DatesInv, StatusAgrees, NothingHeldTwice, SummaryOffers
  PROVE  SummaryInv'
<1>1. /\ summary.at = "households"
      /\ summary' = [at |-> "offers", window |-> summary.window, trades |-> summary.trades,
                     households |-> summary.households, offers |-> OfferBook(summary.window)]
      /\ UNCHANGED vars /\ UNCHANGED createdAt
  BY DEF SummaryOffers, Summarise
<1>2. /\ summary'.at = "offers" /\ summary'.window = summary.window
      /\ summary'.trades = summary.trades /\ summary'.households = summary.households
      /\ summary'.offers = OfferBook(summary.window)
  BY <1>1
<1>3. DoneEnergy' = DoneEnergy
  BY <1>1, <1>2, WindowStands
<1>4. /\ summary.window \in Windows /\ summary.trades.completedEnergy \in Nat
      /\ summary.trades.completedEnergy <= DoneEnergy
      /\ Counted => summary.households >= 2
  BY <1>1 DEF SummaryInv
<1>5. Covered(summary.offers)'
  <2>1. /\ Balances(OfferBook(summary.window))
        /\ summary.window.from = 0 => OfferBook(summary.window).matchedKwh >= DoneEnergy
        /\ OfferBook(summary.window).matchedKwh \in Int
    BY <1>4, BooksCover DEF DoneEnergy, WindowDone
  <2>2. DoneEnergy \in Nat
    BY DoneEnergyType DEF BookInv, TypeInv
  <2>3. summary.window.from = 0 =>
          OfferBook(summary.window).matchedKwh >= summary.trades.completedEnergy
    BY <1>4, <2>1, <2>2
  <2> QED BY <1>2, <2>1, <2>3 DEF Covered
<1>6. Counted' = Counted
  BY <1>2 DEF Counted
<1> QED BY <1>2, <1>3, <1>4, <1>5, <1>6 DEF SummaryInv

LEMMA SummaryRequestsStep ==
  ASSUME SummaryInv, BookInv, DatesInv, StatusAgrees, NothingHeldTwice, SummaryRequests
  PROVE  SummaryInv'
<1>1. /\ summary.at = "offers"
      /\ summary' = [at |-> "requests", window |-> summary.window, trades |-> summary.trades,
                     households |-> summary.households, offers |-> summary.offers,
                     requests |-> RequestBook(summary.window)]
      /\ UNCHANGED vars /\ UNCHANGED createdAt
  BY DEF SummaryRequests, Summarise
<1>2. /\ summary'.at = "requests" /\ summary'.window = summary.window
      /\ summary'.trades = summary.trades /\ summary'.households = summary.households
      /\ summary'.offers = summary.offers
      /\ summary'.requests = RequestBook(summary.window)
  BY <1>1
<1>3. /\ summary.window \in Windows /\ summary.trades.completedEnergy \in Nat
      /\ summary.trades.completedEnergy <= DoneEnergy
      /\ Counted => summary.households >= 2
      /\ Covered(summary.offers)
  BY <1>1 DEF SummaryInv
<1>4. Covered(summary.requests)'
  <2>1. /\ Balances(RequestBook(summary.window))
        /\ summary.window.from = 0 => RequestBook(summary.window).matchedKwh >= DoneEnergy
        /\ RequestBook(summary.window).matchedKwh \in Int
    BY <1>3, BooksCover DEF DoneEnergy, WindowDone
  <2>2. DoneEnergy \in Nat
    BY DoneEnergyType DEF BookInv, TypeInv
  <2>3. summary.window.from = 0 =>
          RequestBook(summary.window).matchedKwh >= summary.trades.completedEnergy
    BY <1>3, <2>1, <2>2
  <2> QED BY <1>2, <2>1, <2>3 DEF Covered
<1>5. Counted' = Counted /\ Covered(summary.offers)'
  BY <1>2, <1>3 DEF Counted, Covered
<1> QED BY <1>2, <1>3, <1>4, <1>5 DEF SummaryInv

-----------------------------------------------------------------------------
(* Whatever commits between the statements of an answer, the summary, the  *)
(* trend and the households' rankings fit together, with one run at a time *)
(* or while billing refuses nothing, for every number of orders, trades    *)
(* and hours.  (StatsService)                                              *)
THEOREM MarketAlwaysAddsUp ==
  ASSUME OneRun \/ NoRefusals
  PROVE  StatSpec => []MarketAddsUp
<1> DEFINE Knows == BookInv /\ StatusAgrees /\ NothingHeldTwice /\ NoLateRefusal
           ReadInv == DatesInv /\ SummaryInv /\ SoldIsBought
<1>1. StatSpec => Spec
  <2>1. StatInit => Init
    BY DEF StatInit
  <2>2. [StatNext]_allVars => [Next]_vars
    BY DEF StatNext, allVars, MarketStep, NextHour, Summarise, SummaryTrades,
           SummaryHouseholds, SummaryOffers, SummaryRequests, Rank, RankingRows,
           RankingTotal, List, BeginListing, ListingRows, ListingTotal, vars
  <2> QED BY <2>1, <2>2, PTL DEF StatSpec, Spec
<1>2. Spec => []Knows
  <2>1. Spec => []NothingHeldTwice
    BY EnergyHeldOnce
  <2>2. Spec => []NoLateRefusal
    BY NoLateRefusals
  <2> QED BY <2>1, <2>2, BookInvariance, StatusCorrectness, PTL
<1>3. StatInit => ReadInv
  <2> SUFFICES ASSUME StatInit PROVE ReadInv
    OBVIOUS
  <2>1. Init /\ hour = 0 /\ summary.at = "idle" /\ ranking.at = "idle"
    BY DEF StatInit, Idle
  <2>2. PlacedOffers = {} /\ PlacedRequests = {} /\ \A t \in TradeIds : ~Exists(t)
    BY <2>1 DEF Init, NoTrade, PlacedOffers, PlacedRequests, Exists
  <2>3. DatesInv
    BY <2>1, <2>2 DEF DatesInv
  <2>4. SummaryInv /\ SoldIsBought
    BY <2>1 DEF SummaryInv, SoldIsBought
  <2> QED BY <2>3, <2>4
<1>4. ASSUME Knows, Knows', ReadInv, [StatNext]_allVars PROVE ReadInv'
  <2>1. DatesInv' /\ MarketKeeps
    BY <1>4, WhateverHappens
  <2>2. SummaryInv'
    <3>1. CASE summary' = summary
      <4>1. TypeOK'
        BY <1>4 DEF BookInv, TypeInv
      <4> QED BY <1>4, <2>1, <3>1, <4>1, SummaryWaits
    <3>2. CASE \E w \in Windows : SummaryTrades(w)
      BY <1>4, <3>2, SummaryTradesStep
    <3>3. CASE SummaryHouseholds \/ SummaryOffers \/ SummaryRequests
      BY <1>4, <3>3, SummaryHouseholdsStep, SummaryOffersStep, SummaryRequestsStep
    <3> QED BY <1>4, <3>1, <3>2, <3>3
            DEF StatNext, allVars, statVars, MarketStep, NextHour, Rank, RankingRows, RankingTotal,
                List, BeginListing, ListingRows, ListingTotal
  <2>3. SoldIsBought'
    <3>1. CASE ranking' = ranking
      <4>1. ranking'.at = ranking.at /\ ranking'.rows = ranking.rows
        BY <3>1
      <4> QED BY <1>4, <4>1 DEF SoldIsBought
    <3>2. CASE \E w \in Windows : RankingRows(w)
      <4>1. PICK w \in Windows : ranking' = [at |-> "rows", window |-> w, rows |-> Traders(w)]
        BY <3>2 DEF RankingRows, Rank
      <4>2. ranking'.rows = Traders(w)
        BY <4>1
      <4> QED BY <1>4, <4>2, SalesAreBuys DEF SoldIsBought
    <3>3. CASE RankingTotal
      <4>1. ranking'.at = "total"
        BY <3>3 DEF RankingTotal, Rank
      <4> QED BY <4>1 DEF SoldIsBought
    <3> QED BY <1>4, <3>1, <3>2, <3>3
            DEF StatNext, allVars, statVars, MarketStep, NextHour, Summarise, SummaryTrades,
                SummaryHouseholds, SummaryOffers, SummaryRequests, List, BeginListing,
                ListingRows, ListingTotal
  <2> QED BY <2>1, <2>2, <2>3
<1>5. ASSUME Knows, ReadInv PROVE MarketAddsUp
  <2>1. BooksAddUp /\ TradedIsMatched /\ TradesHaveParties
    BY <1>5 DEF SummaryInv, Covered, Balances, Counted, BooksAddUp, TradedIsMatched, TradesHaveParties
  <2>2. TrendAddsUp
    BY <1>5, TrendsAddUp
  <2> QED BY <1>5, <2>1, <2>2 DEF MarketAddsUp
<1> HIDE DEF Knows, ReadInv
<1> QED BY <1>1, <1>2, <1>3, <1>4, <1>5, PTL DEF StatSpec
=============================================================================
