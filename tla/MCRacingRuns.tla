----------------------------- MODULE MCRacingRuns -----------------------------
(***************************************************************************)
(* Matching runs over the same rows.  A behaviour belongs to one of two    *)
(* scenarios, chosen at the start: billing may refuse payloads, and one    *)
(* offer is placed; or it accepts them all, and two are.                   *)
(***************************************************************************)
EXTENDS TradeMatching, TLC

CONSTANTS r1, r2, ann, bob, cyd

\* ann is on both sides: offer 2 must pass over request 1.
TwoSellers == <<bob, ann>>
TwoBuyers == <<ann, cyd>>
Kwh21 == <<2, 1>>
Kwh12 == <<1, 2>>

RunSymmetry == Permutations(Runs)

VARIABLE billing

MCInit == Init /\ billing \in {"refuses", "accepts"}

MCNext ==
    /\ Next
    /\ \/ billing = "refuses" /\ 2 \notin PlacedOffers'
       \/ /\ billing = "accepts" /\ credentialsValid'
          /\ \A t \in TradeIds : Exists(t)' => trades'[t].acceptable
    /\ billing' = billing

MCSpec == MCInit /\ [][MCNext]_<<vars, billing>>

\* What runs get done in the end, one after the other.
FairInit == MCInit /\ billing = "accepts"
FairMCSpec == FairInit /\ [][MCNext]_<<vars, billing>> /\ Fairness

=============================================================================
