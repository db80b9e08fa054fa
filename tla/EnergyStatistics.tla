--------------------------- MODULE EnergyStatistics ---------------------------
(***************************************************************************)
(* What the smart-meter service tells its readers while readings arrive:   *)
(* the summary, the trend and the households' energy, each one SQL         *)
(* aggregate over the readings of a window, and two paged lists whose      *)
(* order the next reading may change: households by what they produced,    *)
(* and households by how recently they reported.                           *)
(***************************************************************************)
EXTENDS MeterReadings, QueryWindows, SequencesExt

CONSTANTS
    Reads,        \* bound: the lists that are read, "producers" and "active"
    HouseholdNo   \* the order of the households' ids

ASSUME StatisticsAssumption ==
    /\ IsFiniteSet(Households) /\ Times \subseteq 0 .. Hours - 1
    /\ HouseholdNo \in [Households -> Nat] /\ IsInjective(HouseholdNo)

VARIABLES
    listing       \* the pages of one list, one after another

statVars == <<listing>>
allVars == <<vars, listing>>

Idle == [at |-> "idle"]

-----------------------------------------------------------------------------
(* The rows of a window, and what ENERGY_AGGREGATES makes of them *)

In(w) == {r \in {readings[k] : k \in {j \in DOMAIN readings : Exists(j)}} : InWindow(w, r.time)}
Of(rows, h) == {r \in rows : r.household = h}

Positive(rows) == {r \in rows : Net(r) > 0}
Negative(rows) == {r \in rows : Net(r) < 0}

Aggregates(rows) ==
    [readings |-> Cardinality(rows),
     production |-> SumFunction([r \in rows |-> r.production]),
     consumption |-> SumFunction([r \in rows |-> r.consumption]),
     net |-> SumFunction([r \in rows |-> Net(r)]),
     surplus |-> SumFunction([r \in Positive(rows) |-> Net(r)]),
     demand |-> - SumFunction([r \in Negative(rows) |-> Net(r)])]

HouseholdsIn(rows) == {r.household : r \in rows}

Summary(w) == Aggregates(In(w))
HouseholdRows(w) == [h \in HouseholdsIn(In(w)) |-> Aggregates(Of(In(w), h))]

(* One bucket for each moment a meter can be read at; one that nothing was *)
(* read in reports zeros.                                                  *)
Trend(w) == [t \in w.from .. w.to - 1 |-> Aggregates({r \in In(w) : r.time = t})]

-----------------------------------------------------------------------------
(* The two lists, each with the household id as a tie breaker *)

Reported == {h \in Households : status[h] # None}
ProductionOf(h) == Aggregates(Of(In(Everything), h)).production

Sorted(S, Amount(_)) ==
    Ordered(S, LAMBDA a, b : \/ Amount(a) > Amount(b)
                             \/ Amount(a) = Amount(b) /\ HouseholdNo[a] < HouseholdNo[b])

LongestSilentFirst == Sorted(Reported, LAMBDA h : -status[h].at)   \* mutant
MostRecentFirst == Sorted(Reported, LAMBDA h : status[h].at)
BiggestProducerFirst == Sorted(HouseholdsIn(In(Everything)), ProductionOf)

Rows(list) == IF list = "active" THEN MostRecentFirst ELSE BiggestProducerFirst

(* "quiet" holds the households that had reported when the reading began   *)
(* and have sent nothing new since.                                        *)
List(step) == listing' = step /\ UNCHANGED vars

BeginListing(list) ==
    /\ listing = Idle
    /\ List([at |-> "rows", list |-> list, page |-> 1, shown |-> {}, quiet |-> Reported])

ListingRows ==
    /\ listing.at = "rows"
    /\ List([listing EXCEPT !.at = "total",
                !.shown = @ \cup ToSet(PageOf(Rows(listing.list), listing.page))])

ListingTotal ==
    /\ listing.at = "total"
    /\ List([listing EXCEPT
                !.at = IF listing.page * PageSize < Len(Rows(listing.list)) THEN "rows" ELSE "done",
                !.page = @ + 1])

ReadingStep ==
    /\ Next
    /\ listing' = IF listing.at \in {"rows", "total"}
                  THEN [listing EXCEPT !.quiet =
                           {h \in @ : \A k \in DOMAIN readings :
                                         k[1] = h => readings'[k] = readings[k]}]
                  ELSE listing

-----------------------------------------------------------------------------
StatInit == Init /\ listing = Idle

StatNext ==
    \/ ReadingStep
    \/ \E l \in Reads : BeginListing(l)
    \/ ListingRows \/ ListingTotal

StatSpec == StatInit /\ [][StatNext]_allVars

-----------------------------------------------------------------------------
Added(rows, f) == FoldFunction(+, 0, [i \in DOMAIN rows |-> rows[i][f]])

(* Over every window the summary, the households' rows and the buckets of  *)
(* the trend are three ways of adding up the same readings: nothing is     *)
(* counted twice, and surplus and demand do not cancel out.                *)
FiguresAgree ==
    \A w \in Windows :
        LET summary == Summary(w)
            rows == HouseholdRows(w)
            trend == Trend(w)
        IN  /\ \A f \in {"readings", "production", "net", "surplus", "demand"} :
                  summary[f] = Added(rows, f) /\ summary[f] = Added(trend, f)
            /\ summary.surplus - summary.demand = summary.net

(* The households that have reported are those the statistics know, and    *)
(* the most recent of them reported when the last reading was taken:       *)
(* the status row and the reading never tell of different histories.       *)
ReportedIsMeasured ==
    /\ Reported = HouseholdsIn(In(Everything))
    /\ \A h \in Reported : status[h].at = Max({r.time : r \in Of(In(Everything), h)})

(* A household that sends nothing while a list is read page by page is on  *)
(* some page of it: those that do report only ever move towards the head.  *)
QuietAreListed == listing.at = "done" => listing.quiet \subseteq listing.shown
=============================================================================
