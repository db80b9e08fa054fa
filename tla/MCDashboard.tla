------------------------------ MODULE MCDashboard ------------------------------
(***************************************************************************)
(* The parts of the dashboard that have no behaviour in common, side by    *)
(* side: a behaviour belongs to one of them, chosen at the start, and the  *)
(* others do nothing.                                                      *)
(*                                                                         *)
(*   "answers", "sessions"    DashboardSession                             *)
(*   "two services", "three services"   Attention                          *)
(*   "households"             HouseholdBrowser                             *)
(*   "buckets", "periods"     StatsRange, in a small calendar in which     *)
(*                            every moment can be looked at, and in ours   *)
(***************************************************************************)
EXTENDS DashboardSession, TLC

CONSTANTS t1, t2, w1, w2, charts, diagnosis, meters, pricing, matching, billing,
          trading, energy, h1, h2

VARIABLE part

-----------------------------------------------------------------------------
(* "answers" runs with one token, and loads of two parts, in a tab that is *)
(* never hidden.  "sessions" runs with a second token the services change  *)
(* to, and a load that needs none.                                         *)
CONSTANTS SessionTokens, SessionPublic, SessionParts, MaxSessionStarts,
          MaxSessionRotations, MaxSessionRefreshes

Sessions == INSTANCE DashboardSession WITH
    Tokens <- SessionTokens, Public <- SessionPublic, Parts <- SessionParts,
    MaxStarts <- MaxSessionStarts, MaxRotations <- MaxSessionRotations,
    MaxRefreshes <- MaxSessionRefreshes
ASSUME SessionConstants == DashboardAssumption /\ Sessions!DashboardAssumption

-----------------------------------------------------------------------------
VARIABLES report, facts, health, section, counters, changes
attentionVars == <<report, facts, health, section, counters, changes>>

CONSTANTS FewServices, MoreServices, MaxFewChanges, MaxMoreChanges
TwoServices == <<matching, billing>>
ThreeServices == <<meters, matching, billing>>

Two == INSTANCE Attention WITH
    ServiceNames <- FewServices, MaxChanges <- MaxFewChanges,
    smartMeter <- meters, tradeMatching <- matching
Three == INSTANCE Attention WITH
    ServiceNames <- MoreServices, MaxChanges <- MaxMoreChanges,
    smartMeter <- meters, tradeMatching <- matching
ASSUME AttentionConstants == Two!AttentionAssumption /\ Three!AttentionAssumption

-----------------------------------------------------------------------------
VARIABLES lists, listChanges, view, page, filter, problem, askedFor, table,
          selected, opener, panel, panelAsked, focus
browserVars == <<lists, listChanges, view, page, filter, problem, askedFor,
                 table, selected, opener, panel, panelAsked, focus>>

CONSTANTS Views, Households, Limit, InitialLists, MaxListChanges
TwoTabs == <<trading, energy>>
ListsOfTwo == (trading :> <<h1, h2>>) @@ (energy :> <<h2>>)

Browser == INSTANCE HouseholdBrowser WITH
    changes <- listChanges, asked <- askedFor, MaxChanges <- MaxListChanges
ASSUME BrowserConstants == Browser!HouseholdBrowserAssumption

-----------------------------------------------------------------------------
VARIABLES now, period, query, range, trend, ticks
rangeVars == <<now, period, query, range, trend, ticks>>

CONSTANTS Small, Ours
SmallCalendar ==
    [Hour |-> 2, HoursPerDay |-> 2, BucketMax |-> [hour |-> 7, day |-> 9, week |-> 2],
     BucketDefault |-> [hour |-> 3, day |-> 4, week |-> 2],
     MaxRangeDays |-> 9, HourlyDays |-> 1, DailyDays |-> 2, PresetDays |-> {1, 2}, Starts |-> {60},
     Bounds |-> {20, 21, 28, 29, 45, 48, 52, 58, 60, 73}, Dates |-> {}, MaxTicks |-> 1]

(* The limits of the code, in half hours, around the lengths at which the  *)
(* size of the buckets changes and at which a period is too long.          *)
OurCalendar ==
    [Hour |-> 2, HoursPerDay |-> 24, BucketMax |-> [hour |-> 744, day |-> 366, week |-> 105],
     BucketDefault |-> [hour |-> 24, day |-> 30, week |-> 12],
     MaxRangeDays |-> 366, HourlyDays |-> 2, DailyDays |-> 92, PresetDays |-> {1, 7, 30},
     Starts |-> {800 * 48 + 1}, Bounds |-> {}, MaxTicks |-> 1,
     Dates |-> {400, 401, 402, 491, 492, 765, 766}]

Buckets == INSTANCE StatsRange WITH
    asked <- query, Hour <- Small.Hour, HoursPerDay <- Small.HoursPerDay,
    BucketMax <- Small.BucketMax, BucketDefault <- Small.BucketDefault,
    MaxRangeDays <- Small.MaxRangeDays, HourlyDays <- Small.HourlyDays,
    DailyDays <- Small.DailyDays, PresetDays <- Small.PresetDays, Starts <- Small.Starts,
    Bounds <- Small.Bounds, Dates <- Small.Dates, MaxTicks <- Small.MaxTicks
Periods == INSTANCE StatsRange WITH
    asked <- query, Hour <- Ours.Hour, HoursPerDay <- Ours.HoursPerDay,
    BucketMax <- Ours.BucketMax, BucketDefault <- Ours.BucketDefault,
    MaxRangeDays <- Ours.MaxRangeDays, HourlyDays <- Ours.HourlyDays,
    DailyDays <- Ours.DailyDays, PresetDays <- Ours.PresetDays, Starts <- Ours.Starts,
    Bounds <- Ours.Bounds, Dates <- Ours.Dates, MaxTicks <- Ours.MaxTicks
ASSUME RangeConstants ==
    Buckets!StatsRangeAssumption /\ Periods!StatsRangeAssumption /\ Periods!LimitsFit

-----------------------------------------------------------------------------
MCInit ==
    /\ part \in {"answers", "sessions", "two services", "three services",
                 "households", "buckets", "periods"}
    /\ IF part = "sessions" THEN Sessions!Init ELSE Init
    /\ IF part = "three services" THEN Three!Init ELSE Two!Init
    /\ Browser!Init
    /\ IF part = "periods" THEN Periods!Init ELSE Buckets!Init

SessionSteps ==
    /\ \/ part = "answers" /\ Next /\ ~ hidden'
       \/ part = "sessions" /\ Sessions!Next
    /\ UNCHANGED <<attentionVars, browserVars, rangeVars>>
AttentionSteps ==
    /\ \/ part = "two services" /\ Two!Next
       \/ part = "three services" /\ Three!Next
    /\ UNCHANGED <<vars, browserVars, rangeVars>>
BrowserSteps ==
    /\ part = "households" /\ Browser!Next
    /\ UNCHANGED <<vars, attentionVars, rangeVars>>
RangeSteps ==
    /\ \/ part = "buckets" /\ Buckets!Next
       \/ part = "periods" /\ Periods!Next
    /\ UNCHANGED <<vars, attentionVars, browserVars>>

MCNext ==
    /\ SessionSteps \/ AttentionSteps \/ BrowserSteps \/ RangeSteps
    /\ part' = part

MCSpec == MCInit /\ [][MCNext]_<<part, vars, attentionVars, browserVars, rangeVars>>

-----------------------------------------------------------------------------
(* What is on screen is the newest answer and, once nothing is on its way, *)
(* all of one moment; and only an answer to this session's own token ends  *)
(* the session.  (useResource, useGridData, endSession)                    *)
ScreenIsCurrent ==
    /\ [](IF part = "sessions" THEN Sessions!TypeOK ELSE TypeOK)
    /\ []SameMoment /\ NewestAnswerShown /\ OwnRefusalEnds

(* Whatever the dashboard was told is wrong is mentioned, once, under the  *)
(* page whose badge counts it, and the banner says nothing else.           *)
(* (findIssues, systemStatus, Navigation)                                  *)
FaultsAreNamed ==
    /\ part = "two services" =>
          Two!TypeOK /\ Two!EveryFailureIsNamedOnce /\ Two!BannerAgreesWithList
    /\ part = "three services" => Three!EveryFailureIsNamedOnce /\ Three!BadgesShowTheWorst

(* The rows of the table answer the tab, page and filter that are chosen,  *)
(* and the panel is about the household in its title.                      *)
(* (HouseholdTables, useHouseholdDetail)                                   *)
TablesAnswerTheQuestion ==
    Browser!TypeOK /\ Browser!RowsAnswerTheQuestion /\ Browser!PanelIsOfItsHousehold

(* A trend has a bucket for every moment, the database's, and is refused   *)
(* only for a cause; no period the dashboard offers is refused.            *)
(* (resolveTrendWindow, bucketStarts, useGridData)                         *)
WindowsFit ==
    /\ part = "buckets" =>
          Buckets!TypeOK /\ Buckets!EveryMomentHasItsBucket /\ Buckets!RefusedForCause
    /\ part = "periods" => Periods!PeriodsAreAccepted
=============================================================================
