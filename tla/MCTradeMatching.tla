--------------------------- MODULE MCTradeMatching ---------------------------
(* Small instances of TradeMatching. *)
EXTENDS TradeMatching, TLC

CONSTANTS r1, r2, ann, bob, cyd

\* One offer, two requests.
OneSeller == <<bob>>
TwoBuyers == <<ann, cyd>>
Kwh2 == <<2>>
Kwh11 == <<1, 1>>

RunSymmetry == Permutations(Runs)
=============================================================================
