------------------------------- MODULE StatsRange -------------------------------
(***************************************************************************)
(* The windows of the statistics: what a query of a summary or of a trend  *)
(* covers, which buckets a trend is split into, and the periods the        *)
(* dashboard offers, which it turns into such queries.                     *)
(*                                                                         *)
(* Time is counted in ticks of UTC, from midnight of Thursday 1 January    *)
(* 1970; Hour ticks make an hour and HoursPerDay hours a day.  Malformed   *)
(* instants are refused before any of this and are left out.               *)
(***************************************************************************)
EXTENDS Integers, FiniteSets, Sequences

CONSTANTS
    Hour, HoursPerDay,
    BucketMax, BucketDefault,  \* BUCKET_WINDOWS
    MaxRangeDays,              \* MAX_RANGE_DAYS and MAX_WINDOW_DAYS
    HourlyDays, DailyDays,     \* the longest custom periods with hour and day buckets
    PresetDays,                \* the presets, in days
    Starts, Bounds, Dates,     \* bounds: first clock, instants a caller may name, days
    MaxTicks                   \* bound: ticks that pass

Buckets == {"hour", "day", "week"}

StatsRangeAssumption ==
    /\ {Hour, HoursPerDay, MaxRangeDays} \subseteq Nat \ {0}
    /\ BucketMax \in [Buckets -> Nat \ {0}] /\ BucketDefault \in [Buckets -> Nat \ {0}]
    /\ HourlyDays \in Nat /\ DailyDays \in Nat /\ PresetDays \subseteq Nat \ {0} /\ PresetDays # {}
    /\ Starts \subseteq Nat /\ Bounds \subseteq Nat /\ Dates \subseteq Nat /\ MaxTicks \in Nat

(* How the limits of the dashboard fit those of the API: the dashboard     *)
(* counts in days, the API in buckets, of which an unaligned period can    *)
(* touch one more than it is long.                                         *)
LimitsFit ==
    /\ \A days \in PresetDays :
         /\ days <= MaxRangeDays
         /\ days <= 7 => days * HoursPerDay < BucketMax["hour"]
         /\ days > 7 => days < BucketMax["day"]
    /\ HourlyDays * HoursPerDay <= BucketMax["hour"]
    /\ DailyDays <= BucketMax["day"]
    /\ MaxRangeDays <= 7 * (BucketMax["week"] - 1)

Day == Hour * HoursPerDay
Size(bucket) == CASE bucket = "hour" -> Hour [] bucket = "day" -> Day [] bucket = "week" -> 7 * Day
Unbounded == [named |-> FALSE]
At(t) == [named |-> TRUE, t |-> t]
Instants == {Unbounded} \cup {At(t) : t \in Bounds}
Refused == [refused |-> TRUE]

-----------------------------------------------------------------------------
(* truncateToBucket: getUTCDay is 0 on a Sunday, and the epoch's is 4. *)
UTCDay(t) == (t \div Day + 4) % 7
SundayWeeks(t, bucket) ==
    LET start == t - (t % (IF bucket = "hour" THEN Hour ELSE Day))
    IN  IF bucket = "week" THEN start - Day * UTCDay(start) ELSE start

TruncateToBucket(t, bucket) ==
    LET start == t - (t % (IF bucket = "hour" THEN Hour ELSE Day))
    IN  IF bucket = "week" THEN start - Day * ((UTCDay(start) + 6) % 7) ELSE start

AddBuckets(t, bucket, count) == t + count * Size(bucket)

(* bucketStarts stops one bucket past the limit, so that too many shows. *)
StartsUpTo(most, from, to, bucket) ==
    LET first == TruncateToBucket(from, bucket)
    IN  [k \in 1..Cardinality({j \in 0..most - 1 : AddBuckets(first, bucket, j) < to})
            |-> AddBuckets(first, bucket, k - 1)]

BucketStarts(from, to, bucket) == StartsUpTo(BucketMax[bucket] + 1, from, to, bucket)

(* resolveStatsRange: a lower bound caps the window, which ends now if     *)
(* nothing else is said.                                                   *)
ResolveStatsRange(from, to, clock) ==
    LET end == IF to.named THEN to.t ELSE clock
    IN  IF from.named /\ to.named /\ from.t >= to.t THEN Refused
        ELSE IF from.named /\ end - from.t > MaxRangeDays * Day THEN Refused
        ELSE [refused |-> FALSE, from |-> from, to |-> to]

(* resolveTrendWindow: without a lower bound the default number of buckets *)
(* ends with the one the upper bound falls in.                             *)
TrendEnd(to, clock) == IF to.named THEN to.t ELSE clock
TrendStart(from, end, bucket) ==
    IF from.named THEN from.t
    ELSE AddBuckets(TruncateToBucket(end, bucket), bucket, 1 - BucketDefault[bucket])
TrendWindow(begin, end, bucket) ==
    [refused |-> FALSE, from |-> TruncateToBucket(begin, bucket), to |-> end, bucket |-> bucket]
TooManyBuckets(begin, end, bucket) == Len(BucketStarts(begin, end, bucket)) > BucketMax[bucket]

ResolveTrendWindow(from, to, bucket, clock) ==
    LET end == TrendEnd(to, clock)
        begin == TrendStart(from, end, bucket)
    IN  IF begin >= end \/ TooManyBuckets(begin, end, bucket) THEN Refused
        ELSE TrendWindow(begin, end, bucket)

(* The buckets of an accepted trend, and PostgreSQL's date_trunc, by which *)
(* rows are grouped: the Monday of a week is day 4 of the epoch's.         *)
BucketsOf(window) == BucketStarts(window.from, window.to, window.bucket)
DateTrunc(t, bucket) ==
    CHOOSE start \in (t - Size(bucket) + 1)..t :
        (start - (IF bucket = "week" THEN 4 * Day ELSE 0)) % Size(bucket) = 0

-----------------------------------------------------------------------------
(* The dashboard: presets that end now, and custom dates, both included.   *)
PresetBucket(days) == IF days <= 7 THEN "hour" ELSE "day"
PresetWindow(days, clock) ==
    [preset |-> days, from |-> clock - days * Day, to |-> clock, bucket |-> PresetBucket(days)]

BucketFor(from, to) ==
    IF to - from <= HourlyDays * Day THEN "hour"
    ELSE IF to - from <= DailyDays * Day THEN "day"
    ELSE "week"

CustomProblem(from, to, clock) ==
    \/ from >= to
    \/ from > clock
    \/ to - from > MaxRangeDays * Day

CustomWindow(firstDay, lastDay, clock) ==
    LET from == firstDay * Day
        to == (lastDay + 1) * Day
    IN  IF CustomProblem(from, to, clock) THEN Refused
        ELSE [preset |-> 0, from |-> from, to |-> to, bucket |-> BucketFor(from, to)]

-----------------------------------------------------------------------------
VARIABLES
    now,
    period,     \* the dashboard's TimeWindow
    asked,      \* the last query: its bounds and bucket, and when it was made
    range,      \* what a summary makes of it
    trend,      \* what a trend makes of it
    ticks

vars == <<now, period, asked, range, trend, ticks>>

Query(from, to, bucket) == [from |-> from, to |-> to, bucket |-> bucket, at |-> now]
PeriodQuery(chosen) == Query(At(chosen.from), At(chosen.to), chosen.bucket)

Resolve(query) ==
    /\ asked' = query
    /\ range' = ResolveStatsRange(query.from, query.to, query.at)
    /\ trend' = ResolveTrendWindow(query.from, query.to, query.bucket, query.at)
    /\ UNCHANGED <<now, ticks>>

ShortestPreset == CHOOSE d \in PresetDays : \A e \in PresetDays : d <= e

Init ==
    /\ now \in Starts
    /\ period = PresetWindow(ShortestPreset, now)
    /\ asked = PeriodQuery(period)
    /\ range = ResolveStatsRange(asked.from, asked.to, now)
    /\ trend = ResolveTrendWindow(asked.from, asked.to, asked.bucket, now)
    /\ ticks = 0

(* Any caller of the API. *)
Call ==
    /\ \E from, to \in Instants, bucket \in Buckets : Resolve(Query(from, to, bucket))
    /\ UNCHANGED period

(* The dashboard asks every service for the summary and the trend of the   *)
(* same period.  Dates it finds fault with are not sent.                   *)
LoadPeriod(chosen) == period' = chosen /\ Resolve(PeriodQuery(chosen))

ChoosePreset == \E days \in PresetDays : LoadPeriod(PresetWindow(days, now))

ChooseDates ==
    \E firstDay, lastDay \in Dates :
        /\ CustomWindow(firstDay, lastDay, now) # Refused
        /\ LoadPeriod(CustomWindow(firstDay, lastDay, now))

Refresh ==
    LoadPeriod(IF period.preset = 0 THEN period ELSE PresetWindow(period.preset, now))

Tick ==
    /\ ticks < MaxTicks
    /\ now' = now + 1 /\ ticks' = ticks + 1
    /\ UNCHANGED <<period, asked, range, trend>>

Next == Call \/ ChoosePreset \/ ChooseDates \/ Refresh \/ Tick

Spec == Init /\ [][Next]_vars

-----------------------------------------------------------------------------
(* What is accepted is a window: it starts before it ends, and a trend has *)
(* at least one bucket.                                                    *)
TypeOK ==
    /\ now \in Nat /\ ticks \in 0..MaxTicks
    /\ period.bucket \in Buckets /\ period.from < period.to
    /\ ~range.refused => range.from \in Instants \cup {At(period.from)}
    /\ ~trend.refused => trend.from < trend.to /\ BucketsOf(trend) # <<>>

AskedEnd == IF asked.to.named THEN asked.to.t ELSE asked.at

(* Every moment of an accepted trend belongs to one bucket, the one the    *)
(* database groups it into: no row of the window is left out of the chart  *)
(* and none is drawn twice.                                                *)
EveryMomentHasItsBucket ==
    ~trend.refused =>
        LET starts == BucketsOf(trend)
        IN  \A t \in trend.from..trend.to - 1 :
                Cardinality({k \in DOMAIN starts : starts[k] = DateTrunc(t, trend.bucket)}) = 1

(* A trend with a lower bound is refused when it is backwards or spans     *)
(* more buckets than its kind allows, counted as the database would, and   *)
(* for no other reason.                                                    *)
RefusedForCause ==
    asked.from.named =>
        LET groups == {DateTrunc(t, asked.bucket) : t \in asked.from.t..AskedEnd - 1}
        IN  trend.refused <=> Cardinality(groups) \notin 1..BucketMax[asked.bucket]

(* The dashboard never sends a period the API would refuse, whichever      *)
(* preset or dates are chosen and however long it has been open.           *)
PeriodsAreAccepted ==
    asked.from = At(period.from) /\ asked.to = At(period.to) /\ asked.bucket = period.bucket =>
        ~range.refused /\ ~trend.refused

(* A trend nobody named a window for has as many buckets as documented.    *)
DefaultIsFull ==
    ~trend.refused /\ ~asked.from.named /\ ~asked.to.named =>
        Len(BucketsOf(trend)) = BucketDefault[asked.bucket]

(* The window a trend uses is whole buckets.                               *)
WindowIsAligned ==
    ~trend.refused =>
        \A edge \in {trend.from, trend.to} : TruncateToBucket(edge, asked.bucket) = edge
=============================================================================
