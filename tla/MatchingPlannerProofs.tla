------------------------ MODULE MatchingPlannerProofs ------------------------
(***************************************************************************)
(* The planner's nested loops implement first-come-first-served planning,  *)
(* for every number of orders, every amount and every set of households.   *)
(***************************************************************************)
EXTENDS MatchingPlanner, FiniteSetTheorems, TLAPS

LEMMA TradeKwhUsesUp ==
  ASSUME TypeOK, AtOpenOffer, requestLeft[request] > 0
  PROVE  LET kwh == TradeKwh(offerLeft, requestLeft, <<offer, request>>)
         IN  /\ kwh \in Nat \ {0}
             /\ kwh <= offerLeft[offer] /\ kwh <= requestLeft[request]
             /\ offerLeft[offer] = kwh \/ requestLeft[request] = kwh
BY DEF TypeOK, AtOpenOffer, TradeKwh

LEMMA PushStep ==
  ASSUME TypeOK, PushTrade
  PROVE  \E kwh \in Nat \ {0} :
            /\ offer \in Offers /\ request \in Requests
            /\ kwh = TradeKwh(offerLeft, requestLeft, <<offer, request>>)
            /\ kwh <= offerLeft[offer] /\ kwh <= requestLeft[request]
            /\ offerLeft[offer] = kwh \/ requestLeft[request] = kwh
            /\ planned' = Append(planned,
                             [offer |-> offer, request |-> request, kwh |-> kwh])
            /\ offerLeft' = [offerLeft EXCEPT ![offer] = @ - kwh]
            /\ requestLeft' = [requestLeft EXCEPT ![request] = @ - kwh]
            /\ request' = request + 1 /\ offer' = offer
            /\ Seller[offer] # Buyer[request]
            /\ offerLeft[offer] > 0 /\ requestLeft[request] > 0
<1> DEFINE kwh == TradeKwh(offerLeft, requestLeft, <<offer, request>>)
<1>1. AtOpenOffer /\ requestLeft[request] > 0
  BY DEF PushTrade
<1>2. /\ kwh \in Nat \ {0}
      /\ kwh <= offerLeft[offer] /\ kwh <= requestLeft[request]
      /\ offerLeft[offer] = kwh \/ requestLeft[request] = kwh
  BY <1>1, TradeKwhUsesUp
<1> QED BY <1>1, <1>2 DEF PushTrade, AtOpenOffer

LEMMA TypeOKStep == TypeOK /\ [Next]_vars => TypeOK'
<1> SUFFICES ASSUME TypeOK, [Next]_vars PROVE TypeOK'
  OBVIOUS
<1> USE PlannerAssumption
<1>1. CASE NextOffer
  BY <1>1 DEF NextOffer, TypeOK, Offers
<1>2. CASE SkipFilledRequest \/ SkipOwnRequest
  BY <1>2 DEF SkipFilledRequest, SkipOwnRequest, AtOpenOffer, TypeOK, Requests
<1>3. CASE PushTrade
  <2>1. PICK kwh \in Nat \ {0} :
            /\ offer \in Offers /\ request \in Requests
            /\ kwh <= offerLeft[offer] /\ kwh <= requestLeft[request]
            /\ planned' = Append(planned,
                             [offer |-> offer, request |-> request, kwh |-> kwh])
            /\ offerLeft' = [offerLeft EXCEPT ![offer] = @ - kwh]
            /\ requestLeft' = [requestLeft EXCEPT ![request] = @ - kwh]
            /\ request' = request + 1 /\ offer' = offer
    BY <1>3, PushStep
  <2>2. [offer |-> offer, request |-> request, kwh |-> kwh] \in PlannedTrade
    BY <2>1 DEF PlannedTrade
  <2>3. planned' \in Seq(PlannedTrade)
    BY <2>1, <2>2 DEF TypeOK
  <2>4. offerLeft' \in [Offers -> Nat] /\ requestLeft' \in [Requests -> Nat]
    <3>1. offerLeft \in [Offers -> Nat] /\ requestLeft \in [Requests -> Nat]
      BY DEF TypeOK
    <3>2. offerLeft[offer] - kwh \in Nat /\ requestLeft[request] - kwh \in Nat
      BY <2>1, <3>1
    <3> QED BY <2>1, <3>1, <3>2
  <2>5. request' \in 1 .. NRequests + 1
    BY <2>1 DEF Requests
  <2> QED BY <2>1, <2>3, <2>4, <2>5 DEF TypeOK
<1>4. CASE UNCHANGED vars
  BY <1>4 DEF vars, TypeOK
<1> QED BY <1>1, <1>2, <1>3, <1>4 DEF Next

LEMMA TypeOKInit == Init => TypeOK
<1> SUFFICES ASSUME Init PROVE TypeOK
  OBVIOUS
<1>1. offerLeft \in [Offers -> Nat] /\ requestLeft \in [Requests -> Nat]
  BY PlannerAssumption DEF Init
<1>2. planned \in Seq(PlannedTrade)
  BY DEF Init
<1> QED BY <1>1, <1>2, PlannerAssumption DEF Init, TypeOK

(* The planner's amounts never go below zero and its loops stay within     *)
(* the arrays.                                                             *)
THEOREM TypeCorrectness == Spec => []TypeOK
<1>1. Init => TypeOK
  BY TypeOKInit
<1>2. TypeOK /\ [Next]_vars => TypeOK'
  BY TypeOKStep
<1> QED BY <1>1, <1>2, PTL DEF Spec

-----------------------------------------------------------------------------
(* PassedIsSpent, said of offers and requests instead of pairs. *)
StillOpen(o, q) ==
    offerLeft[o] > 0 /\ requestLeft[q] > 0 /\ Seller[o] # Buyer[q]
OpenIsAhead ==
    \A o \in Offers, q \in Requests : StillOpen(o, q) =>
        o > offer \/ (o = offer /\ q >= request)

LEMMA OpenIsAheadStep == TypeOK /\ OpenIsAhead /\ [Next]_vars => OpenIsAhead'
<1> SUFFICES ASSUME TypeOK, OpenIsAhead, [Next]_vars,
                    NEW o \in Offers, NEW q \in Requests, StillOpen(o, q)'
             PROVE  o > offer' \/ (o = offer' /\ q >= request')
  BY DEF OpenIsAhead
<1> USE PlannerAssumption
<1>0. /\ o \in 1 .. NOffers /\ q \in 1 .. NRequests
      /\ offer \in 1 .. NOffers + 1 /\ request \in 1 .. NRequests + 1
  BY DEF Offers, Requests, TypeOK
<1>1. CASE UNCHANGED <<offerLeft, requestLeft>>
  <2>1. offerLeft[o] > 0 /\ requestLeft[q] > 0 /\ Seller[o] # Buyer[q]
    BY <1>1 DEF StillOpen
  <2>2. o > offer \/ (o = offer /\ q >= request)
    BY <2>1 DEF OpenIsAhead, StillOpen
  <2>3. CASE NextOffer
    <3>1. request \notin 1 .. NRequests \/ offerLeft[offer] = 0
      BY <2>3 DEF NextOffer, Requests
    <3>2. o # offer
      BY <1>0, <2>1, <2>2, <3>1
    <3> QED BY <1>0, <2>2, <2>3, <3>2 DEF NextOffer
  <2>4. CASE SkipFilledRequest \/ SkipOwnRequest
    <3>1. ~(o = offer /\ q = request)
      BY <2>1, <2>4 DEF SkipFilledRequest, SkipOwnRequest
    <3> QED BY <1>0, <2>2, <2>4, <3>1 DEF SkipFilledRequest, SkipOwnRequest
  <2>5. CASE UNCHANGED vars
    BY <2>2, <2>5 DEF vars
  <2>6. ~PushTrade
    <3>1. SUFFICES ASSUME PushTrade PROVE FALSE
      OBVIOUS
    <3>2. PICK kwh \in Nat \ {0} :
              /\ offer \in Offers
              /\ offerLeft' = [offerLeft EXCEPT ![offer] = @ - kwh]
      BY <3>1, PushStep
    <3> QED BY <1>1, <3>2 DEF TypeOK
  <2> QED BY <2>3, <2>4, <2>5, <2>6 DEF Next
<1>2. CASE PushTrade
  <2>1. PICK kwh \in Nat \ {0} :
            /\ offer \in Offers /\ request \in Requests
            /\ offerLeft[offer] = kwh \/ requestLeft[request] = kwh
            /\ offerLeft' = [offerLeft EXCEPT ![offer] = @ - kwh]
            /\ requestLeft' = [requestLeft EXCEPT ![request] = @ - kwh]
            /\ request' = request + 1 /\ offer' = offer
    BY <1>2, PushStep
  <2>0. /\ offerLeft \in [Offers -> Nat] /\ requestLeft \in [Requests -> Nat]
        /\ offerLeft' \in [Offers -> Nat] /\ requestLeft' \in [Requests -> Nat]
    BY TypeOKStep DEF TypeOK
  <2>2. /\ offerLeft'[o] <= offerLeft[o] /\ offerLeft[o] \in Nat
        /\ requestLeft'[q] <= requestLeft[q] /\ requestLeft[q] \in Nat
        /\ offerLeft'[o] \in Nat /\ requestLeft'[q] \in Nat
    BY <2>0, <2>1
  <2>6. ~(offerLeft'[offer] > 0 /\ requestLeft'[request] > 0)
    BY <2>0, <2>1
  <2>3. /\ offerLeft'[o] > 0 /\ requestLeft'[q] > 0 /\ Seller[o] # Buyer[q]
    BY DEF StillOpen
  <2>4. o > offer \/ (o = offer /\ q >= request)
    BY <2>2, <2>3 DEF OpenIsAhead, StillOpen
  <2>5. ~(o = offer /\ q = request)
    BY <2>3, <2>6
  <2> QED BY <1>0, <2>1, <2>4, <2>5
<1> QED BY <1>1, <1>2 DEF Next, NextOffer, SkipFilledRequest, SkipOwnRequest, vars

LEMMA OpenIsAheadInit == Init => OpenIsAhead
BY PlannerAssumption DEF Init, OpenIsAhead, Offers, Requests

LEMMA AheadIsUnpassed == TypeOK /\ OpenIsAhead => PassedIsSpent
<1> SUFFICES ASSUME TypeOK, OpenIsAhead, NEW p \in Tradable(offerLeft, requestLeft)
             PROVE  ~Before(p, <<offer, request>>)
  BY DEF PassedIsSpent
<1>1. p[1] \in Offers /\ p[2] \in Requests /\ StillOpen(p[1], p[2])
  BY DEF Tradable, Pairs, StillOpen
<1>2. p[1] > offer \/ (p[1] = offer /\ p[2] >= request)
  BY <1>1 DEF OpenIsAhead
<1>3. /\ p[1] \in Nat /\ p[2] \in Nat /\ offer \in Nat /\ request \in Nat
  BY <1>1, PlannerAssumption DEF Offers, Requests, TypeOK
<1> QED BY <1>2, <1>3 DEF Before

(* One pass is enough: nothing the loops have gone past can still trade.   *)
THEOREM NothingPassedCanTrade == Spec => []PassedIsSpent
<1>1. Init => OpenIsAhead
  BY OpenIsAheadInit
<1>2. TypeOK /\ OpenIsAhead /\ [Next]_vars => OpenIsAhead'
  BY OpenIsAheadStep
<1>3. TypeOK /\ OpenIsAhead => PassedIsSpent
  BY AheadIsUnpassed
<1> QED BY <1>1, <1>2, <1>3, TypeCorrectness, PTL DEF Spec

-----------------------------------------------------------------------------
(* The nested loops of planTrades implement first-come-first-served        *)
(* planning: each trade they push is the next one in that order, for       *)
(* exactly as much as both sides allow.                                    *)
THEOREM PlannerIsFifo == Spec => PlansFifo
<1>1. Init => Fifo!Init
  BY DEF Init, Fifo!Init, Offers, Requests, Fifo!Offers, Fifo!Requests
<1>2. TypeOK /\ PassedIsSpent /\ [Next]_vars => [Fifo!Next]_Fifo!vars
  <2> SUFFICES ASSUME TypeOK, PassedIsSpent, [Next]_vars
               PROVE  Fifo!Next \/ UNCHANGED Fifo!vars
    OBVIOUS
  <2>1. CASE PushTrade
    <3> DEFINE p == <<offer, request>>
    <3>1. /\ offer \in Offers /\ request \in Requests
          /\ Seller[offer] # Buyer[request]
          /\ offerLeft[offer] > 0 /\ requestLeft[request] > 0
      BY <2>1 DEF PushTrade, AtOpenOffer
    <3>2. p \in Tradable(offerLeft, requestLeft)
      BY <3>1 DEF Tradable, Pairs
    <3>3. \A q \in Tradable(offerLeft, requestLeft) : p = q \/ Before(p, q)
      <4> SUFFICES ASSUME NEW q \in Tradable(offerLeft, requestLeft), p # q
                   PROVE  Before(p, q)
        OBVIOUS
      <4>1. q = <<q[1], q[2]>> /\ q[1] \in Nat /\ q[2] \in Nat
        BY DEF Tradable, Pairs, Offers, Requests
      <4>2. ~Before(q, p)
        BY DEF PassedIsSpent
      <4>3. offer \in Nat /\ request \in Nat
        BY <3>1 DEF Offers, Requests
      <4> QED BY <4>1, <4>2, <4>3 DEF Before
    <3>4. Fifo!IsNextTrade(offerLeft, requestLeft, p)
      BY <3>2, <3>3 DEF Fifo!IsNextTrade, Fifo!Tradable, Fifo!Pairs, Fifo!Offers,
                        Fifo!Requests, Fifo!Before, Tradable, Pairs, Offers,
                        Requests, Before
    <3>5. Fifo!Trade(p)
      BY <2>1 DEF PushTrade, Fifo!Trade, Fifo!TradeKwh, TradeKwh
    <3>6. p \in Fifo!Pairs
      BY <3>1 DEF Fifo!Pairs, Fifo!Offers, Fifo!Requests, Offers, Requests
    <3> QED BY <3>4, <3>5, <3>6 DEF Fifo!Next
  <2>2. CASE NextOffer \/ SkipFilledRequest \/ SkipOwnRequest \/ UNCHANGED vars
    BY <2>2 DEF NextOffer, SkipFilledRequest, SkipOwnRequest, vars, Fifo!vars
  <2> QED BY <2>1, <2>2 DEF Next
<1> QED BY <1>1, <1>2, TypeCorrectness, NothingPassedCanTrade, PTL
        DEF Spec, PlansFifo, Fifo!Spec

-----------------------------------------------------------------------------
LEMMA OrderSetsAreFinite ==
  ASSUME NEW S \in SUBSET Offers, NEW T \in SUBSET Requests
  PROVE  /\ IsFiniteSet(S) /\ Cardinality(S) \in Nat
         /\ IsFiniteSet(T) /\ Cardinality(T) \in Nat
<1>1. IsFiniteSet(Offers) /\ IsFiniteSet(Requests)
  BY FS_Interval, PlannerAssumption DEF Offers, Requests
<1>2. IsFiniteSet(S) /\ IsFiniteSet(T)
  BY <1>1, FS_Subset
<1> QED BY <1>2, FS_CardinalityType

(* A set that grows to contain a new element has at least one more. *)
LEMMA GrowsByOne ==
  ASSUME NEW T, IsFiniteSet(T), NEW S \in SUBSET T, NEW x \in T \ S
  PROVE  Cardinality(T) >= Cardinality(S) + 1
<1>1. IsFiniteSet(S) /\ S \cup {x} \in SUBSET T
  BY FS_Subset
<1>2. Cardinality(S \cup {x}) = Cardinality(S) + 1
  BY <1>1, FS_AddElement
<1>3. Cardinality(S \cup {x}) <= Cardinality(T)
  BY <1>1, FS_Subset
<1>4. Cardinality(S) \in Nat /\ Cardinality(T) \in Nat
  BY <1>1, FS_CardinalityType
<1> QED BY <1>2, <1>3, <1>4

LEMMA PlanIsShortStep == TypeOK /\ PlanIsShort /\ [Next]_vars => PlanIsShort'
<1> SUFFICES ASSUME TypeOK, PlanIsShort, [Next]_vars PROVE PlanIsShort'
  OBVIOUS
<1>1. CASE UNCHANGED <<offerLeft, requestLeft, planned>>
  <2>1. UsedUp' = UsedUp /\ Filled' = Filled
    BY <1>1 DEF UsedUp, Filled
  <2> QED BY <1>1, <2>1 DEF PlanIsShort
<1>2. CASE PushTrade
  <2>1. PICK kwh \in Nat \ {0} :
            /\ offer \in Offers /\ request \in Requests
            /\ offerLeft[offer] = kwh \/ requestLeft[request] = kwh
            /\ planned' = Append(planned,
                             [offer |-> offer, request |-> request, kwh |-> kwh])
            /\ offerLeft' = [offerLeft EXCEPT ![offer] = @ - kwh]
            /\ requestLeft' = [requestLeft EXCEPT ![request] = @ - kwh]
            /\ offerLeft[offer] > 0 /\ requestLeft[request] > 0
    BY <1>2, PushStep
  <2>2. Len(planned') = Len(planned) + 1 /\ Len(planned) \in Nat
    BY <2>1 DEF TypeOK
  <2>3. /\ offer \notin UsedUp /\ request \notin Filled
        /\ UsedUp \subseteq UsedUp' /\ Filled \subseteq Filled'
        /\ offer \in UsedUp' \/ request \in Filled'
    <3>1. /\ \A o \in Offers : offerLeft[o] = 0 => offerLeft'[o] = 0
          /\ \A q \in Requests : requestLeft[q] = 0 => requestLeft'[q] = 0
          /\ offerLeft'[offer] = 0 \/ requestLeft'[request] = 0
          /\ offerLeft[offer] # 0 /\ requestLeft[request] # 0
      BY <2>1 DEF TypeOK
    <3> QED BY <2>1, <3>1 DEF UsedUp, Filled
  <2>4. /\ IsFiniteSet(UsedUp') /\ Cardinality(UsedUp') \in Nat
        /\ IsFiniteSet(Filled') /\ Cardinality(Filled') \in Nat
    BY OrderSetsAreFinite DEF UsedUp, Filled
  <2>5. Cardinality(UsedUp) \in Nat /\ Cardinality(Filled) \in Nat
    BY OrderSetsAreFinite DEF UsedUp, Filled
  <2>6. /\ Cardinality(UsedUp) <= Cardinality(UsedUp')
        /\ Cardinality(Filled) <= Cardinality(Filled')
    BY <2>3, <2>4, FS_Subset
  <2>7. /\ offer \in UsedUp' => Cardinality(UsedUp') >= Cardinality(UsedUp) + 1
        /\ request \in Filled' => Cardinality(Filled') >= Cardinality(Filled) + 1
    BY <2>3, <2>4, GrowsByOne
  <2> QED BY <2>2, <2>3, <2>4, <2>5, <2>6, <2>7 DEF PlanIsShort
<1> QED BY <1>1, <1>2 DEF Next, NextOffer, SkipFilledRequest, SkipOwnRequest, vars

(* A plan never has more trades than there are open offers and requests    *)
(* together: each trade it pushes uses up one of the two it joins.         *)
THEOREM PlansAreShort == Spec => []PlanIsShort
<1>1. Init => PlanIsShort
  <2>1. Init => Len(planned) = 0
    BY DEF Init
  <2>2. Cardinality(UsedUp) \in Nat /\ Cardinality(Filled) \in Nat
    BY OrderSetsAreFinite DEF UsedUp, Filled
  <2> QED BY <2>1, <2>2 DEF PlanIsShort
<1>2. TypeOK /\ PlanIsShort /\ [Next]_vars => PlanIsShort'
  BY PlanIsShortStep
<1> QED BY <1>1, <1>2, TypeCorrectness, PTL DEF Spec
=============================================================================
