---------------------------- MODULE FifoPlanning ----------------------------
(***************************************************************************)
(* What a matching plan is: whatever can be traded is, one trade at a      *)
(* time, each one the next in first-come-first-served order and as large   *)
(* as both sides allow.                                                    *)
(***************************************************************************)
EXTENDS FifoMatching, Sequences

CONSTANT Amounts   \* the amounts an offer or a request can have

VARIABLES
    offerLeft,     \* what the plan has left of each offer
    requestLeft,   \* what the plan has left of each request
    planned        \* the planned trades, in order

vars == <<offerLeft, requestLeft, planned>>

Init ==
    /\ offerLeft \in [Offers -> Amounts]
    /\ requestLeft \in [Requests -> Amounts]
    /\ planned = <<>>

Trade(p) ==
    LET kwh == TradeKwh(offerLeft, requestLeft, p) IN
    /\ planned' = Append(planned, [offer |-> p[1], request |-> p[2], kwh |-> kwh])
    /\ offerLeft' = [offerLeft EXCEPT ![p[1]] = @ - kwh]
    /\ requestLeft' = [requestLeft EXCEPT ![p[2]] = @ - kwh]

Next == \E p \in Pairs : IsNextTrade(offerLeft, requestLeft, p) /\ Trade(p)

Spec == Init /\ [][Next]_vars
FairSpec == Spec /\ WF_vars(Next)
=============================================================================
