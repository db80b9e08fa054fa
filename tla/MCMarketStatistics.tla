------------------------- MODULE MCMarketStatistics -------------------------
(***************************************************************************)
(* One matching run at a time over two offers and two requests, and one    *)
(* reader of the statistics.  A behaviour belongs to a scenario, chosen at *)
(* the start: either nobody reads, or one answer is read while a smaller   *)
(* market moves.                                                           *)
(***************************************************************************)
EXTENDS MarketStatistics

CONSTANTS r1, ann, bob, cyd

\* ann is on both sides: offer 2 must pass over request 1.
TwoSellers == <<bob, ann>>
TwoBuyers == <<ann, cyd>>
Kwh21 == <<2, 1>>
Kwh12 == <<1, 2>>

VARIABLE read

(* While somebody reads: one offer of two kilowatt hours and, but for the  *)
(* list of trades, two trades; a second hour only for the households' rows;*)
(* and whoever reads the list begins when there are two trades on it.       *)
TradesWatched == IF read = "listing" THEN 3 ELSE 2
SmallMarket ==
    /\ 2 \notin PlacedOffers'
    /\ \A t \in TradeIds : t > TradesWatched => ~Exists(t)'
    /\ credentialsValid'
    /\ read # "households" => hour' = hour
    /\ summary'.at = "trades" => summary'.window = Everything
    /\ listing'.at = "rows" => \E t, u \in listing'.owed : t # u

MCInit == StatInit /\ read \in {"nothing", "summary", "households", "listing"}

MCNext ==
    /\ StatNext
    /\ IF read = "nothing" THEN hour' = hour ELSE SmallMarket
    /\ read # "summary" => summary' = summary
    /\ read # "households" => ranking' = ranking
    /\ read # "listing" => listing' = listing
    /\ read' = read

MCSpec == MCInit /\ [][MCNext]_<<allVars, read>>
=============================================================================
