---------------------------- MODULE BooksStatistics ----------------------------
(***************************************************************************)
(* What the billing service tells its readers while trades are recorded:   *)
(* the summary of its books, the trend, each household's entries and the   *)
(* paged lists.                                                            *)
(*                                                                         *)
(* A trade is dated twice: completedAt, which its request gives, and the   *)
(* createdAt of its two ledger entries, which is when the statement that   *)
(* inserts both of them runs, before the transaction commits.  Every       *)
(* statement of an answer sees what has committed by the time it starts.   *)
(***************************************************************************)
EXTENDS BillingLedger, QueryWindows, SequencesExt

CONSTANTS
    CompletedAt,   \* the hour each trade was completed in
    Readers        \* bound: which answers are asked for

VARIABLES
    hour,        \* the hour it is
    inserted,    \* when each handler's transaction inserted its entries
    createdAt,   \* the hour the entries of each trade are dated with
    summary,     \* /stats/summary, statement by statement
    entries      \* the pages of GET /ledger/:householdId, one after another

ASSUME BooksAssumption == CompletedAt \in [Trades -> 0 .. Hours - 1]

statVars == <<hour, inserted, createdAt, summary, entries>>
allVars == <<vars, statVars>>

Idle == [at |-> "idle"]
NotYet == Hours

-----------------------------------------------------------------------------
(* The rows of a window *)

CompletedIn(w) == {t \in Trades : completed[t] # None /\ InWindow(w, CompletedAt[t])}
RecordedIn(w) == {t \in Trades : completed[t] # None /\ InWindow(w, createdAt[t])}

Volume(T) == Total([t \in Trades |-> IF t \in T THEN completed[t].payload.total ELSE 0], NTrades)

CreditOf(x, w) == Total([t \in Trades |-> IF t \in RecordedIn(w) THEN credit[x][t] ELSE 0], NTrades)
DebitOf(x, w) == Total([t \in Trades |-> IF t \in RecordedIn(w) THEN debit[x][t] ELSE 0], NTrades)

(* The trades a household has an entry of: one entry for each side, also   *)
(* of a trade that comes to nothing.                                       *)
EntriesOf(x, w) == {t \in RecordedIn(w) :
                       x \in {completed[t].payload.seller, completed[t].payload.buyer}}

OverHouseholds(amount) == Total(amount, NHouseholds)

TradeRow(w) == [trades |-> Cardinality(CompletedIn(w)), volume |-> Volume(CompletedIn(w))]

Parties(w) == {x \in Households : \E t \in CompletedIn(w) :
                  x \in {completed[t].payload.seller, completed[t].payload.buyer}}

(* Mutant: the households that paid are counted. *)
LedgerRowOfBuyers(w) ==
    [entries |-> OverHouseholds([x \in Households |-> Cardinality(EntriesOf(x, w))]),
     credited |-> OverHouseholds([x \in Households |-> CreditOf(x, w)]),
     debited |-> OverHouseholds([x \in Households |-> DebitOf(x, w)]),
     households |-> Cardinality({x \in Households : DebitOf(x, w) > 0})]

LedgerRow(w) ==
    [entries |-> OverHouseholds([x \in Households |-> Cardinality(EntriesOf(x, w))]),
     credited |-> OverHouseholds([x \in Households |-> CreditOf(x, w)]),
     debited |-> OverHouseholds([x \in Households |-> DebitOf(x, w)]),
     households |-> Cardinality({x \in Households : EntriesOf(x, w) # {}})]

(* Balances are as they stand now, whatever window was asked for. *)
BalanceRow ==
    [households |-> Cardinality({x \in Households : EntriesOf(x, Everything) # {}}),
     totalCredit |-> OverHouseholds([x \in Households |-> IF balance[x] > 0 THEN balance[x] ELSE 0]),
     totalDebit |-> OverHouseholds([x \in Households |-> IF balance[x] < 0 THEN -balance[x] ELSE 0])]

(* /stats/households: who has entries in the window, and what they add to. *)
HouseholdRows(w) ==
    [x \in {y \in Households : EntriesOf(y, w) # {}} |->
        [entries |-> Cardinality(EntriesOf(x, w)), net |-> CreditOf(x, w) - DebitOf(x, w)]]

(* The trend goes by completedAt, one bucket per hour of the window. *)
Bucket(w, h) == {t \in CompletedIn(w) : CompletedAt[t] = h}
Trend(w) == [h \in w.from .. w.to - 1 |->
                [trades |-> Cardinality(Bucket(w, h)), volume |-> Volume(Bucket(w, h))]]

(* BooksStatus: what the dashboard says of a summary. *)
BooksStatus(ledger) ==
    IF ledger.entries = 0 THEN "empty"
    ELSE IF ledger.credited - ledger.debited = 0 THEN "balanced" ELSE "unbalanced"

-----------------------------------------------------------------------------
(* Trades are recorded.  A trade is asked to be recorded once it has       *)
(* completed; createMany runs when the key has been claimed.               *)
Commits(h) == pc[h] = "recording" /\ pc'[h] = "answered"

LedgerStep ==
    /\ Next
    /\ \A h \in Handlers : pc[h] = "idle" /\ pc'[h] = "received" =>
          CompletedAt[request'[h].payload.trade] <= hour
    /\ inserted' = [h \in Handlers |-> IF claimed[h] < 3 /\ claimed'[h] = 3 THEN hour
                                       ELSE IF claimed'[h] = 0 THEN NotYet ELSE inserted[h]]
    /\ createdAt' = [t \in Trades |->
          IF \E h \in Handlers : Commits(h) /\ request[h].payload.trade = t
          THEN inserted[CHOOSE h \in Handlers : Commits(h)] ELSE createdAt[t]]
    /\ UNCHANGED <<hour, summary, entries>>

NextHour ==
    /\ hour < Hours - 1
    /\ hour' = hour + 1
    /\ UNCHANGED <<vars, inserted, createdAt, summary, entries>>

-----------------------------------------------------------------------------
(* /stats/summary: trades, then their households, then the ledger, then    *)
(* the balances.                                                           *)
Summarise(step) ==
    /\ "summary" \in Readers
    /\ summary' = step
    /\ UNCHANGED <<vars, hour, inserted, createdAt, entries>>

SummaryTrades(w) ==
    /\ summary.at \in {"idle", "balances"}
    /\ Summarise([at |-> "trades", window |-> w, trades |-> TradeRow(w)])

SummaryHouseholds ==
    /\ summary.at = "trades"
    /\ Summarise([at |-> "households", window |-> summary.window, trades |-> summary.trades,
                  parties |-> Cardinality(Parties(summary.window))])

SummaryLedger ==
    /\ summary.at = "households"
    /\ Summarise([at |-> "ledger", window |-> summary.window, trades |-> summary.trades,
                  parties |-> summary.parties, ledger |-> LedgerRow(summary.window)])

SummaryBalances ==
    /\ summary.at = "ledger"
    /\ Summarise([at |-> "balances", window |-> summary.window, trades |-> summary.trades,
                  parties |-> summary.parties, ledger |-> summary.ledger, balances |-> BalanceRow])

-----------------------------------------------------------------------------
(* GET /ledger/:householdId, newest first by the date of the entry and,    *)
(* within one date, by the ids, which stand in some order that stays.      *)
(* "owed" is what a reader who began then may expect to see.               *)
NewestFirst(T) ==
    Ordered(T, LAMBDA s, t : \/ createdAt[s] > createdAt[t]
                             \/ createdAt[s] = createdAt[t] /\ s > t)

List(step) ==
    /\ "entries" \in Readers
    /\ entries' = step
    /\ UNCHANGED <<vars, hour, inserted, createdAt, summary>>

BeginEntries(x) ==
    /\ entries = Idle
    /\ List([at |-> "rows", of |-> x, page |-> 1, shown |-> {}, owed |-> EntriesOf(x, Everything)])

EntryRows ==
    /\ entries.at = "rows"
    /\ LET rows == NewestFirst(EntriesOf(entries.of, Everything)) IN
       List([entries EXCEPT !.at = "total", !.shown = @ \cup ToSet(PageOf(rows, entries.page))])

EntryTotal ==
    /\ entries.at = "total"
    /\ List([entries EXCEPT
                !.at = IF entries.page * PageSize < Cardinality(EntriesOf(entries.of, Everything))
                       THEN "rows" ELSE "done",
                !.page = @ + 1])

-----------------------------------------------------------------------------
StatInit ==
    /\ Init
    /\ hour \in 0 .. Hours - 1
    /\ inserted = [h \in Handlers |-> NotYet]
    /\ createdAt = [t \in Trades |-> IF Earlier[t] = None THEN NotYet ELSE CompletedAt[t]]
    /\ summary = Idle /\ entries = Idle

StatNext ==
    \/ LedgerStep \/ NextHour
    \/ \E w \in Windows : SummaryTrades(w)
    \/ SummaryHouseholds \/ SummaryLedger \/ SummaryBalances
    \/ \E x \in Households : BeginEntries(x)
    \/ EntryRows \/ EntryTotal

StatSpec == StatInit /\ [][StatNext]_allVars

-----------------------------------------------------------------------------
(* In every window the ledger's net is zero, so the dashboard never says   *)
(* that the books are not balanced: both entries of a trade are dated, and *)
(* become visible, together.                                               *)
BooksNeverUnbalanced ==
    summary.at = "balances" => BooksStatus(summary.ledger) # "unbalanced"

(* What households are owed is what households owe, at any moment.         *)
BalancesCancelOut ==
    summary.at = "balances" => summary.balances.totalCredit = summary.balances.totalDebit

(* Whatever commits between the statements, the ledger accounts for every  *)
(* trade the summary counts, over its parties, and all of those have a     *)
(* balance.                                                                *)
LaterStatementsCover ==
    summary.at = "balances" /\ summary.window = Everything =>
        /\ summary.ledger.credited >= summary.trades.volume
        /\ summary.ledger.entries >= 2 * summary.trades.trades
        /\ summary.ledger.households >= summary.parties
        /\ summary.balances.households >= summary.ledger.households

(* The buckets of a trend add up to the summary of the same window.        *)
TrendAddsUp ==
    \A w \in Windows :
        /\ FoldFunction(+, 0, [h \in DOMAIN Trend(w) |-> Trend(w)[h].trades]) = TradeRow(w).trades
        /\ FoldFunction(+, 0, [h \in DOMAIN Trend(w) |-> Trend(w)[h].volume]) = TradeRow(w).volume

(* Over every window the households' nets cancel out: no window has one    *)
(* side of a trade without the other.                                      *)
NetsCancelOut ==
    \A w \in Windows :
        FoldFunction(+, 0, [x \in DOMAIN HouseholdRows(w) |-> HouseholdRows(w)[x].net]) = 0

(* Whoever reads a household's entries page by page sees every one there   *)
(* was when they began, although entries are dated before they appear.     *)
EntriesSkipNothing == entries.at = "done" => entries.owed \subseteq entries.shown

(* Whatever commits between the statements of an answer, what is read fits *)
(* together: the books balance and the balances cancel out, over every     *)
(* window; the ledger covers the trades counted before it; a reader of     *)
(* pages misses no entry.  (StatsService, LedgerService)                   *)
BooksAgree ==
    /\ BooksNeverUnbalanced /\ BalancesCancelOut /\ LaterStatementsCover
    /\ EntriesSkipNothing
    /\ TrendAddsUp /\ NetsCancelOut

(* The volume of a window is also what was settled in it. *)
VolumeIsSettled == \A w \in Windows : TradeRow(w).volume = LedgerRow(w).credited
=============================================================================
