---------------------------- MODULE FifoMatching ----------------------------
(***************************************************************************)
(* First-come-first-served pairing of sell offers with buy requests.       *)
(*                                                                         *)
(* Offers and requests are numbered by their creation time: offer 1 is the *)
(* oldest.  Energy is counted in whole units; the code's Decimal amounts   *)
(* only need to be added, subtracted and compared exactly, which is what   *)
(* natural numbers do.                                                     *)
(***************************************************************************)
EXTENDS Naturals

CONSTANTS
    NOffers,     \* how many sell offers there can be
    NRequests,   \* how many buy requests there can be
    Seller,      \* the household behind each offer
    Buyer        \* the household behind each request

Offers == 1 .. NOffers
Requests == 1 .. NRequests
Pairs == Offers \X Requests

-----------------------------------------------------------------------------
(* The pairs that could still trade when offerLeft and requestLeft is what *)
(* is left on each side.  A household never trades with itself.            *)
Tradable(offerLeft, requestLeft) ==
    {p \in Pairs : /\ offerLeft[p[1]] > 0
                   /\ requestLeft[p[2]] > 0
                   /\ Seller[p[1]] # Buyer[p[2]]}

(* Oldest offer first, and for one offer the oldest request first. *)
Before(p, q) == p[1] < q[1] \/ (p[1] = q[1] /\ p[2] < q[2])

(* p is the trade first-come-first-served order makes next. *)
IsNextTrade(offerLeft, requestLeft, p) ==
    /\ p \in Tradable(offerLeft, requestLeft)
    /\ \A q \in Tradable(offerLeft, requestLeft) : p = q \/ Before(p, q)

(* As much as both sides can give and take. *)
TradeKwh(offerLeft, requestLeft, p) ==
    IF offerLeft[p[1]] <= requestLeft[p[2]] THEN offerLeft[p[1]]
                                            ELSE requestLeft[p[2]]
=============================================================================
