--------------------------- MODULE MarketStatistics ---------------------------
(***************************************************************************)
(* What the trade-matching service tells its readers while the market      *)
(* moves: the summary, the trend, the households' trading and the paged    *)
(* lists.                                                                  *)
(*                                                                         *)
(* Each answer is put together from SQL statements run one after another.  *)
(* They share a transaction, but at READ COMMITTED every statement sees    *)
(* what has committed by the time it starts, so a run of TradeMatching     *)
(* may move on between any two of them.  Sums of money are left out: each  *)
(* takes the same rows as the sum of energy beside it.                     *)
(***************************************************************************)
EXTENDS TradeMatching, QueryWindows, SequencesExt

CONSTANTS
    Filters,     \* ?status of the list of trades, "ANY" for none
    Readers      \* bound: which answers are asked for

VARIABLES
    hour,        \* the hour it is
    createdAt,   \* the hour each offer, request and trade was created in
    summary,     \* /stats/summary, statement by statement
    ranking,     \* /stats/households
    listing      \* the pages of GET /matches, one after another

statVars == <<hour, createdAt, summary, ranking, listing>>
allVars == <<vars, statVars>>

Idle == [at |-> "idle"]

-----------------------------------------------------------------------------
(* The rows of a window *)

TradesIn(w, S) ==
    {t \in TradeIds : trades[t].status \in S /\ InWindow(w, createdAt.trade[t])}
OffersIn(w) == {o \in PlacedOffers : InWindow(w, createdAt.offer[o])}
RequestsIn(w) == {q \in PlacedRequests : InWindow(w, createdAt.request[q])}

EnergyOf(T) == Total([t \in TradeIds |-> IF t \in T THEN trades[t].kwh ELSE 0], MaxTrades)

TradeRow(w) ==
    [total |-> Cardinality(TradesIn(w, TradeStatus)),
     completed |-> Cardinality(TradesIn(w, {"COMPLETED"})),
     pending |-> Cardinality(TradesIn(w, {"PENDING_BILLING"})),
     failed |-> Cardinality(TradesIn(w, {"FAILED"})),
     completedEnergy |-> EnergyOf(TradesIn(w, {"COMPLETED"})),
     pendingEnergy |-> EnergyOf(TradesIn(w, {"PENDING_BILLING"}))]

(* A household counts once whether it sold, bought, or did both. *)
Households(T) ==
    {Seller[trades[t].offer] : t \in T} \cup {Buyer[trades[t].request] : t \in T}

(* bookAggregates, the same for offers and requests.  Nothing ever writes  *)
(* CANCELLED.                                                              *)
BookOf(rows, status, original, remaining) ==
    LET Having(S) == {i \in rows : status[i] \in S}
        Kwh(S, amount) ==
            FoldFunction(+, 0, [i \in S |-> amount[i]])
    IN  [total |-> Cardinality(rows),
         open |-> Cardinality(Having({"OPEN"})),
         partiallyMatched |-> Cardinality(Having({"PARTIALLY_MATCHED"})),
         matched |-> Cardinality(Having({"MATCHED"})),
         totalKwh |-> Kwh(rows, original),
         matchedKwh |-> Kwh(rows, original) - Kwh(rows, remaining),
         openKwh |-> Kwh(Having(OpenStatus), remaining)]

OfferBook(w) == BookOf(OffersIn(w), offerStatus, OfferKwh, available)
RequestBook(w) == BookOf(RequestsIn(w), requestStatus, RequestKwh, requested)

(* One bucket of the trend per hour of the window: the rows are grouped by *)
(* the hour they were created in and looked up by the start of the bucket. *)
Trend(w) ==
    LET Bucket(h) == {t \in TradesIn(w, TradeStatus) : createdAt.trade[t] = h}
        Completed(h) == Bucket(h) \cap TradesIn(w, {"COMPLETED"})
    IN  [h \in w.from .. w.to - 1 |->
            [trades |-> Cardinality(Bucket(h)), completed |-> Cardinality(Completed(h)),
             energy |-> EnergyOf(Completed(h))]]

-----------------------------------------------------------------------------
(* The market moves: a row that appears is dated with the hour it is. *)
Never == Hours

MarketStep ==
    /\ Next
    /\ createdAt' =
         [offer |-> [o \in Offers |-> IF o \notin PlacedOffers /\ o \in PlacedOffers'
                                      THEN hour ELSE createdAt.offer[o]],
          request |-> [q \in Requests |-> IF q \notin PlacedRequests /\ q \in PlacedRequests'
                                          THEN hour ELSE createdAt.request[q]],
          trade |-> [t \in TradeIds |-> IF ~Exists(t) /\ Exists(t)'
                                        THEN hour ELSE createdAt.trade[t]]]
    /\ UNCHANGED <<hour, summary, ranking, listing>>

NextHour ==
    /\ hour < Hours - 1
    /\ hour' = hour + 1
    /\ UNCHANGED <<vars, createdAt, summary, ranking, listing>>

-----------------------------------------------------------------------------
(* /stats/summary: trades, then households, then offers, then requests. *)
Summarise(step) ==
    /\ "summary" \in Readers
    /\ summary' = step
    /\ UNCHANGED <<vars, hour, createdAt, ranking, listing>>

SummaryTrades(w) ==
    /\ summary.at \in {"idle", "requests"}
    /\ Summarise([at |-> "trades", window |-> w, trades |-> TradeRow(w)])

SummaryHouseholds ==
    /\ summary.at = "trades"
    /\ Summarise([at |-> "households", window |-> summary.window, trades |-> summary.trades,
                  households |-> Cardinality(Households(TradesIn(summary.window, TradeStatus)))])

SummaryOffers ==
    /\ summary.at = "households"
    /\ Summarise([at |-> "offers", window |-> summary.window, trades |-> summary.trades,
                  households |-> summary.households, offers |-> OfferBook(summary.window)])

SummaryRequests ==
    /\ summary.at = "offers"
    /\ Summarise([at |-> "requests", window |-> summary.window, trades |-> summary.trades,
                  households |-> summary.households, offers |-> summary.offers,
                  requests |-> RequestBook(summary.window)])

-----------------------------------------------------------------------------
(* /stats/households: one row per side of every completed trade, added up  *)
(* by household.  "filter" is ?householdId, applied to each side.          *)
HouseholdIds == {Seller[o] : o \in Offers} \cup {Buyer[q] : q \in Requests}

AsSeller(T, h) == {t \in T : Seller[trades[t].offer] = h}
AsBuyer(T, h) == {t \in T : Buyer[trades[t].request] = h}

(* Mutant: a household that only bought has no row. *)
TradersWhoSold(w) == LET T == TradesIn(w, {"COMPLETED"}) IN
    [h \in {x \in HouseholdIds : AsSeller(T, x) # {}} |->
        [sold |-> EnergyOf(AsSeller(T, h)), bought |-> EnergyOf(AsBuyer(T, h))]]

Traders(w) == LET T == TradesIn(w, {"COMPLETED"}) IN
    [h \in {x \in HouseholdIds : AsSeller(T, x) \cup AsBuyer(T, x) # {}} |->
        [sold |-> EnergyOf(AsSeller(T, h)), bought |-> EnergyOf(AsBuyer(T, h))]]

Rank(step) ==
    /\ "households" \in Readers
    /\ ranking' = step
    /\ UNCHANGED <<vars, hour, createdAt, summary, listing>>

RankingRows(w) ==
    /\ ranking.at \in {"idle", "total"}
    /\ Rank([at |-> "rows", window |-> w, rows |-> Traders(w)])

RankingTotal ==
    /\ ranking.at = "rows"
    /\ Rank([at |-> "total", window |-> ranking.window, rows |-> ranking.rows,
             total |-> Cardinality(DOMAIN Traders(ranking.window))])

-----------------------------------------------------------------------------
(* GET /matches, newest first, page after page until the total says there  *)
(* are no more: each page reads its rows, then counts.  "owed" is what a   *)
(* reader who began then may expect to see.                                *)
Listed(filter) == {t \in TradeIds : Exists(t) /\ filter \in {"ANY", trades[t].status}}

(* Mutant: the trades being billed come first. *)
PendingFirst(T) ==
    LET pending(t) == trades[t].status = "PENDING_BILLING"
    IN  Ordered(T, LAMBDA t, u : IF pending(t) = pending(u) THEN t > u ELSE pending(t))

NewestFirst(T) == Ordered(T, >)

List(step) ==
    /\ "listing" \in Readers
    /\ listing' = step
    /\ UNCHANGED <<vars, hour, createdAt, summary, ranking>>

BeginListing(filter) ==
    /\ listing = Idle
    /\ List([at |-> "rows", filter |-> filter, page |-> 1, shown |-> <<>>, owed |-> Listed(filter)])

ListingRows ==
    /\ listing.at = "rows"
    /\ List([listing EXCEPT !.at = "total",
                !.shown = @ \o PageOf(NewestFirst(Listed(listing.filter)), listing.page)])

ListingTotal ==
    /\ listing.at = "total"
    /\ List([listing EXCEPT
                !.at = IF listing.page * PageSize < Cardinality(Listed(listing.filter))
                       THEN "rows" ELSE "done",
                !.page = @ + 1])

-----------------------------------------------------------------------------
StatInit ==
    /\ Init
    /\ hour = 0
    /\ createdAt = [offer |-> [o \in Offers |-> Never], request |-> [q \in Requests |-> Never],
                    trade |-> [t \in TradeIds |-> Never]]
    /\ summary = Idle /\ ranking = Idle /\ listing = Idle

StatNext ==
    \/ MarketStep
    \/ NextHour
    \/ \E w \in Windows : SummaryTrades(w) \/ RankingRows(w)
    \/ SummaryHouseholds \/ SummaryOffers \/ SummaryRequests
    \/ RankingTotal
    \/ \E f \in Filters : BeginListing(f)
    \/ ListingRows \/ ListingTotal

StatSpec == StatInit /\ [][StatNext]_allVars

-----------------------------------------------------------------------------
(* In each book of the summary the energy offered, or asked for, is what   *)
(* was matched and what is still open, and every row has one status: no    *)
(* amount sits on a row whose status hides it.                             *)
BooksAddUp ==
    summary.at = "requests" =>
        \A book \in {summary.offers, summary.requests} :
            /\ book.totalKwh = book.matchedKwh + book.openKwh
            /\ book.total = book.open + book.partiallyMatched + book.matched

(* Whatever commits between the statements, the summary shows no energy    *)
(* traded that its books have not matched, on either side; the offers and  *)
(* requests of a trade are at least as old as the trade.                   *)
TradedIsMatched ==
    summary.at = "requests" /\ summary.window.from = 0 =>
        /\ summary.offers.matchedKwh >= summary.trades.completedEnergy
        /\ summary.requests.matchedKwh >= summary.trades.completedEnergy

(* A summary that counts trades counts both their parties. *)
TradesHaveParties ==
    summary.at = "requests" /\ summary.trades.total > 0 => summary.households >= 2

(* A trend over a window holds every trade of the window once: its buckets *)
(* add up to the summary of the same window.                               *)
TrendAddsUp ==
    \A w \in Windows :
        LET trend == Trend(w)
            row == TradeRow(w)
        IN  /\ FoldFunction(+, 0, [h \in DOMAIN trend |-> trend[h].trades]) = row.total
            /\ FoldFunction(+, 0, [h \in DOMAIN trend |-> trend[h].completed]) = row.completed
            /\ FoldFunction(+, 0, [h \in DOMAIN trend |-> trend[h].energy]) = row.completedEnergy

(* What households sold is what households bought, and both are what the   *)
(* market completed.                                                       *)
SoldAsBought(rows) ==
    FoldFunction(+, 0, [h \in DOMAIN rows |-> rows[h].sold])
        = FoldFunction(+, 0, [h \in DOMAIN rows |-> rows[h].bought])

SoldIsBought == ranking.at = "rows" => SoldAsBought(ranking.rows)

(* Whatever the market does between the statements of an answer, its       *)
(* figures fit together: energy and rows of each book, what was traded and *)
(* what was matched, what was sold and what was bought, a trend and the    *)
(* summary of the same window.                                             *)
MarketAddsUp ==
    /\ BooksAddUp /\ TradedIsMatched /\ TradesHaveParties
    /\ SoldIsBought /\ TrendAddsUp

(* Whoever reads the trades page by page sees every one there was when     *)
(* they began, while more are being made and settled.                      *)
PagesSkipNothing == listing.at = "done" => listing.owed \subseteq ToSet(listing.shown)

(* A page never repeats or skips a row: what was listed at the start and   *)
(* still is has been shown, and nothing was shown twice.                   *)
NeitherRepeatedNorSkipped ==
    listing.at = "done" =>
        /\ listing.owed \cap Listed(listing.filter) \subseteq ToSet(listing.shown)
        /\ IsInjective(listing.shown)

(* matchedKwh is how much of the energy offered has traded. *)
MatchedHasTraded ==
    OfferBook(Everything).matchedKwh = TradeRow(Everything).completedEnergy
=============================================================================
