-------------------------------- MODULE Pricing --------------------------------
(***************************************************************************)
(* The pricing engine: the rule each process seeds as it starts, prices    *)
(* calculated from supply and demand and kept as snapshots, and the three  *)
(* ways snapshots are read (the current price, the pages of the history,   *)
(* the summary), each statement of which sees what has committed by then.  *)
(*                                                                         *)
(* Energy is counted in units of which OneKwh make a kilowatt hour, prices *)
(* in units of their last decimal.  A snapshot's id orders it among those  *)
(* of one millisecond.  The runtime role may insert rules and snapshots    *)
(* and change neither.  The summary's window is all that was recorded.     *)
(***************************************************************************)
EXTENDS Integers, FiniteSets, SequencesExt

CONSTANTS
    Instances,    \* processes of the pricing engine
    Requests,     \* recalculations; the number is the snapshot's id
    Inputs,       \* pairs of supply and demand
    OneKwh,
    DefaultRule,  \* DEFAULT_RULE
    PageSize,     \* the limit of a page of the history
    MaxCrashes,   \* bound: processes that die
    MaxTime       \* bound: milliseconds that pass

Bands == [basePrice : Nat \ {0}, minPrice : Nat \ {0}, maxPrice : Nat \ {0}]

PricingAssumption ==
    /\ IsFiniteSet(Instances) /\ Instances # {}
    /\ Requests \subseteq Nat /\ Inputs \subseteq Nat \X Nat /\ OneKwh \in Nat \ {0}
    /\ DefaultRule \in Bands /\ DefaultRule.minPrice <= DefaultRule.maxPrice
    /\ PageSize \in Nat \ {0} /\ MaxCrashes \in Nat /\ MaxTime \in Nat

INSTANCE QueryWindows WITH Hours <- MaxTime

VARIABLES
    rules,        \* active pricing rules, in the order they were inserted
    snapshots,    \* price_snapshots
    now,          \* the clock, in milliseconds
    instance,     \* per instance: how far onModuleInit is
    recalc,       \* per recalculation: the price found, the row being inserted
    current,      \* the last answer of GET /prices/current
    history,      \* a reader going through the pages of the history
    summary,      \* the summary being read
    crashes

db == <<rules, snapshots>>
vars == <<db, now, instance, recalc, current, history, summary, crashes>>

Nothing == [at |-> "none"]
Snapshots == [id : Requests, supply : Nat, demand : Nat, price : Nat \ {0}, createdAt : 0..MaxTime]

TypeOK ==
    /\ rules \in Seq(Bands)
    /\ snapshots \subseteq Snapshots
    /\ \A s, t \in snapshots : s.id = t.id => s = t
    /\ instance \in [Instances -> {"off", "seeding", "ready"}]
    /\ \A r \in Requests : recalc[r].at \in {"none", "priced", "inserting", "done", "failed", "refused"}
    /\ current.at \in {"none", "base", "snapshot"}
    /\ history.at \in {"none", "rows", "total", "done"}
    /\ summary.at \in {"none", "aggregated", "latest", "done"}

-----------------------------------------------------------------------------
(* price = clamp(basePrice * demand / max(supply, 1), minPrice, maxPrice), *)
(* rounded half up once; rounding after the clamp cannot leave the band.   *)
RoundHalfUp(numerator, denominator) == (2 * numerator + denominator) \div (2 * denominator)
AtLeastOneKwh(supply) == IF supply < OneKwh THEN OneKwh ELSE supply
Clamp(price, band) ==
    IF price < band.minPrice THEN band.minPrice
    ELSE IF price > band.maxPrice THEN band.maxPrice ELSE price

CalculatePrice(supply, demand, band) ==
    LET divisor == AtLeastOneKwh(supply)
        raw == band.basePrice * demand
    IN  IF raw <= band.minPrice * divisor THEN band.minPrice
        ELSE IF raw >= band.maxPrice * divisor THEN band.maxPrice
        ELSE RoundHalfUp(raw, divisor)

Newer(s, t) == s.createdAt > t.createdAt
NewerOrAfter(s, t) == Newer(s, t) \/ (s.createdAt = t.createdAt /\ s.id > t.id)
Newest(rows) == {s \in rows : \A t \in rows : ~Newer(t, s)}
NewestFirst(rows) == Ordered(rows, NewerOrAfter)

-----------------------------------------------------------------------------
Init ==
    /\ rules \in {<<>>, <<DefaultRule>>}
    /\ snapshots = {} /\ now = 0
    /\ instance = [i \in Instances |-> "off"]
    /\ recalc = [r \in Requests |-> Nothing]
    /\ current = Nothing /\ history = Nothing /\ summary = Nothing
    /\ crashes = 0

Serving == \E i \in Instances : instance[i] = "ready"
SetInstance(i, phase) == instance' = [instance EXCEPT ![i] = phase]
StartupOnly == UNCHANGED <<snapshots, now, recalc, current, history, summary, crashes>>

(* seedDefaultRule: count the active rules, and create one if there is none; *)
(* the service listens when that is done.                                    *)

CountRules(i) ==
    /\ instance[i] = "off"
    /\ SetInstance(i, IF rules = <<>> THEN "seeding" ELSE "ready")
    /\ UNCHANGED rules /\ StartupOnly

CreateRule(i) ==
    /\ instance[i] = "seeding"
    /\ rules' = Append(rules, DefaultRule)
    /\ SetInstance(i, "ready")
    /\ StartupOnly

(* A process dies and is started again.  Its recalculations end with it,   *)
(* but an INSERT it has sent may still commit.                             *)
Crash(i) ==
    /\ instance[i] # "off" /\ crashes < MaxCrashes
    /\ SetInstance(i, "off")
    /\ recalc' = [r \in Requests |->
                     IF recalc[r].at = "priced" /\ recalc[r].by = i
                     THEN [at |-> "failed"] ELSE recalc[r]]
    /\ crashes' = crashes + 1
    /\ UNCHANGED <<db, now, current, history, summary>>

Tick ==
    /\ now < MaxTime
    /\ now' = now + 1
    /\ UNCHANGED <<db, instance, recalc, current, history, summary, crashes>>

-----------------------------------------------------------------------------
(* recalculate: any active rule may be the one findFirst returns.  The     *)
(* statement that inserts the row dates it, and commits later.             *)
SetRecalc(r, step) ==
    /\ recalc' = [recalc EXCEPT ![r] = step]
    /\ UNCHANGED <<rules, now, instance, current, history, summary, crashes>>

ActiveRules == IF rules = <<>> THEN {Nothing} ELSE ToSet(rules)

Calculate(r, i) ==
    /\ recalc[r] = Nothing /\ instance[i] = "ready"
    /\ \E input \in Inputs, band \in ActiveRules :
         SetRecalc(r, IF band = Nothing THEN [at |-> "refused"]
                      ELSE [at |-> "priced", by |-> i, supply |-> input[1], demand |-> input[2],
                            price |-> CalculatePrice(input[1], input[2], band)])
    /\ UNCHANGED snapshots

Insert(r) ==
    /\ recalc[r].at = "priced"
    /\ SetRecalc(r, [at |-> "inserting",
                     row |-> [id |-> r, supply |-> recalc[r].supply, demand |-> recalc[r].demand,
                              price |-> recalc[r].price, createdAt |-> now]])
    /\ UNCHANGED snapshots

Commit(r) ==
    /\ recalc[r].at = "inserting"
    /\ snapshots' = snapshots \cup {recalc[r].row}
    /\ SetRecalc(r, [at |-> "done"])

-----------------------------------------------------------------------------
(* getCurrentPrice orders by createdAt alone: of the snapshots of one      *)
(* millisecond the database may return either.                             *)
AnswerCurrent(rows) ==
    /\ Serving
    /\ \/ \E s \in rows : current' = [at |-> "snapshot", row |-> s]
       \/ /\ snapshots = {}
          /\ \E band \in ToSet(rules) : current' = [at |-> "base", price |-> band.basePrice]
    /\ UNCHANGED <<db, now, instance, recalc, history, summary, crashes>>

AnyPrice == AnswerCurrent(snapshots)
CurrentPrice == AnswerCurrent(Newest(snapshots))

(* getPriceHistory, one page after another until the total says there are  *)
(* no more: each page reads its rows, then counts.  "owed" is what a       *)
(* reader who began then may expect to see.                                *)
BeginHistory ==
    /\ Serving /\ history = Nothing
    /\ history' = [at |-> "rows", page |-> 1, seen |-> {}, owed |-> snapshots]
    /\ UNCHANGED <<db, now, instance, recalc, current, summary, crashes>>

ReadPage(ordered) ==
    /\ history.at = "rows" /\ Serving
    /\ history' = [history EXCEPT !.at = "total",
                                  !.seen = @ \cup ToSet(PageOf(ordered, history.page))]
    /\ UNCHANGED <<db, now, instance, recalc, current, summary, crashes>>

HistoryRows == ReadPage(NewestFirst(snapshots))

HistoryTotal ==
    /\ history.at = "total"
    /\ history' = [history EXCEPT
           !.at = IF history.page * PageSize < Cardinality(snapshots) THEN "rows" ELSE "done",
           !.page = @ + 1]
    /\ UNCHANGED <<db, now, instance, recalc, current, summary, crashes>>

(* StatsService.summary: the aggregates over the window, its newest        *)
(* snapshot, and the band in force, each read by a statement of its own.   *)
Summarise(step) ==
    /\ summary' = step
    /\ UNCHANGED <<db, now, instance, recalc, current, history, crashes>>

SummaryAggregate ==
    /\ Serving /\ summary.at \in {"none", "done"}
    /\ Summarise([at |-> "aggregated", rows |-> snapshots])

Latest == IF snapshots = {} THEN <<>> ELSE <<NewestFirst(snapshots)[1]>>

SummaryLatest ==
    /\ summary.at = "aggregated"
    /\ Summarise([at |-> "latest", rows |-> summary.rows, latest |-> Latest])

SummaryBand ==
    /\ summary.at = "latest"
    /\ \E band \in ToSet(rules) :
         Summarise([at |-> "done", rows |-> summary.rows, latest |-> summary.latest, band |-> band])

-----------------------------------------------------------------------------
Next ==
    \/ \E i \in Instances : CountRules(i) \/ CreateRule(i) \/ Crash(i)
    \/ \E r \in Requests, i \in Instances : Calculate(r, i)
    \/ \E r \in Requests : Insert(r) \/ Commit(r)
    \/ Tick \/ CurrentPrice
    \/ BeginHistory \/ HistoryRows \/ HistoryTotal
    \/ SummaryAggregate \/ SummaryLatest \/ SummaryBand

Spec == Init /\ [][Next]_vars

(* A process that was started goes on; nobody has to ask for a price.      *)
FairSpec == Spec /\ \A i \in Instances : WF_vars(CountRules(i)) /\ WF_vars(CreateRule(i))

-----------------------------------------------------------------------------
(* Every recorded price is the clamped ratio, to the nearest unit of its   *)
(* last decimal: one rounding, whatever was divided.                       *)
PriceIsTheClampedRatio ==
    \A s \in snapshots : \E band \in ToSet(rules) :
        LET divisor == IF s.supply >= OneKwh THEN s.supply ELSE OneKwh
            gap == band.basePrice * s.demand - s.price * divisor   \* error, times the divisor
        IN  /\ s.price \in band.minPrice..band.maxPrice
            /\ \/ 2 * gap \in -divisor..divisor
               \/ s.price = band.minPrice /\ gap < 0
               \/ s.price = band.maxPrice /\ gap > 0

(* A scarcer market is never a cheaper one: of two recorded prices, the    *)
(* one with no more supply and no less demand is at least as high.         *)
ScarcerIsNotCheaper ==
    \A s, t \in snapshots :
        s.supply <= t.supply /\ s.demand >= t.demand => s.price >= t.price

(* A service that takes requests has a rule to price them by: no           *)
(* recalculation is ever answered "No active pricing rule found".          *)
NoRequestFindsNoRule == \A r \in Requests : recalc[r].at # "refused"

(* Processes that start together may each count no rule and create one,    *)
(* but that is all: however often they die between counting and creating,  *)
(* there are never more active rules, with those about to be created, than *)
(* there are processes; one process leaves one.  (seedDefaultRule)         *)
OneRulePerProcess ==
    Len(rules) + Cardinality({i \in Instances : instance[i] = "seeding"}) <= Cardinality(Instances)

(* The default rule is inserted when no rule is active, and only then.     *)
SeedsOnlyWhenNoneActive == [][rules' # rules => rules = <<>>]_rules

(* Processes that start together all come to serve once they stop dying.   *)
EveryInstanceServes == <>[](\A i \in Instances : instance[i] = "ready")

(* The current price never goes back to an older snapshot, or to the base  *)
(* price, although recalculations commit out of order.                     *)
CurrentNeverGoesBack ==
    [][current.at = "snapshot" =>
         current'.at = "snapshot" /\ current'.row.createdAt >= current.row.createdAt]_current

(* The current price is the first of the history, which is read in the     *)
(* same order.                                                             *)
CurrentHeadsHistory ==
    [][current'.at = "snapshot" => current'.row = NewestFirst(snapshots)[1]]_current

(* Whoever reads the history page by page sees every snapshot there was    *)
(* when they began, while more are being recorded.                         *)
PagesSkipNothing == history.at = "done" => history.owed \subseteq history.seen

(* The summary's latest snapshot is at least as new as any its averages    *)
(* cover, and there is one whenever they cover any.                        *)
LatestCoversAverages ==
    summary.at = "done" =>
        \A s \in summary.rows : \E t \in ToSet(summary.latest) : ~Newer(s, t)

(* A summary that counts no snapshots has no latest one.                   *)
NoneMeansNone == summary.at = "done" /\ summary.rows = {} => summary.latest = <<>>
=============================================================================
