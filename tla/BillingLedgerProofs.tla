------------------------ MODULE BillingLedgerProofs ------------------------
(***************************************************************************)
(* Theorems about BillingLedger for every number of trades, households,    *)
(* keys and concurrent requests.  One inductive invariant, LedgerInv, says *)
(* what the unique indexes and the order of the inserts leave possible;    *)
(* the books, the absence of deadlock and the refinement of the abstract   *)
(* ledger follow from it.  The second half is about BooksStatistics: what  *)
(* is told of the books while trades are recorded.                         *)
(***************************************************************************)
EXTENDS BooksStatistics, TotalsProofs

(* The parts of a handler's state go together. *)
Handling == \A h \in Handlers :
    /\ request[h] = None <=> pc[h] = "idle"
    /\ claimed[h] > 0 => pc[h] = "recording"
    /\ reply[h] # None <=> pc[h] = "answered"
    /\ pc[h] \in {"recording", "raced"} => Possible(request[h].payload)

(* A unique violation says that the key or the trade is committed. *)
RacedMeansTaken == \A h \in Handlers : pc[h] = "raced" =>
    \/ keyRow[request[h].key] # None
    \/ completed[request[h].payload.trade] # None

(* The keys from before there were fingerprints are never freed. *)
OldKeysStay == \A k \in Unhashed : keyRow[k] # None

LedgerInv == /\ TypeOK
             /\ Handling
             /\ KeysMatchTrades
             /\ RowsAreExclusive
             /\ RacedMeansTaken
             /\ OldKeysStay

-----------------------------------------------------------------------------
(* Facts about requests and rows *)

LEMMA RequestType ==
  ASSUME TypeOK, NEW h \in Handlers, request[h] # None
  PROVE  /\ request[h] \in Requests /\ request[h] \in Request
         /\ request[h].key \in Keys
         /\ request[h].payload \in Payloads /\ request[h].payload \in Payload
         /\ request[h].payload.trade \in Trades
         /\ request[h].payload.seller \in Households
         /\ request[h].payload.buyer \in Households
         /\ request[h].payload.total \in Nat
<1>1. request[h] \in Requests
  BY DEF TypeOK
<1>2. request[h] \in Request
  BY <1>1, LedgerAssumption
<1>3. request[h].key \in Keys /\ request[h].payload \in Payloads
  BY <1>2 DEF Request
<1>4. request[h].payload \in Payload
  BY <1>3, LedgerAssumption
<1> QED BY <1>1, <1>2, <1>3, <1>4 DEF Payload

(* A handler with an open transaction, or with any row, has a request. *)
LEMMA HolderHasRequest ==
  ASSUME Handling, TypeOK, NEW h \in Handlers, pc[h] # "idle" \/ claimed[h] # 0
  PROVE  request[h] # None
BY DEF Handling, TypeOK

(* Rows of different kinds are different rows. *)
LEMMA SameRow ==
  ASSUME NEW h \in Handlers, NEW g \in Handlers, NEW n \in 1 .. 5, NEW m \in 1 .. 5,
         Row(h, n) = Row(g, m)
  PROVE  /\ n = 1 => m = 1 /\ request[h].payload.trade = request[g].payload.trade
         /\ n = 2 => m = 2 /\ request[h].key = request[g].key
         /\ n = 3 => m = 3
         /\ n >= 4 => m >= 4 /\ Row(h, n)[2] = Row(g, m)[2]
<1>1. n \in {1, 2, 3, 4, 5} /\ m \in {1, 2, 3, 4, 5}
  OBVIOUS
<1>2. /\ Row(h, 1)[1] = "completedTrade" /\ Row(h, 2)[1] = "completedTradeKey"
      /\ Row(h, 3)[1] = "idempotencyKey"
      /\ Row(h, 4)[1] = "balance" /\ Row(h, 5)[1] = "balance"
  BY DEF Row, Rows
<1>3. /\ Row(g, 1)[1] = "completedTrade" /\ Row(g, 2)[1] = "completedTradeKey"
      /\ Row(g, 3)[1] = "idempotencyKey"
      /\ Row(g, 4)[1] = "balance" /\ Row(g, 5)[1] = "balance"
  BY DEF Row, Rows
<1>4. Row(h, n)[1] = Row(g, m)[1]
  OBVIOUS
<1>5. /\ n = 1 => m = 1
      /\ n = 2 => m = 2
      /\ n = 3 => m = 3
      /\ n >= 4 => m >= 4
  BY <1>1, <1>2, <1>3, <1>4
<1>6. /\ Row(h, 1)[2] = request[h].payload.trade /\ Row(g, 1)[2] = request[g].payload.trade
      /\ Row(h, 2)[2] = request[h].key /\ Row(g, 2)[2] = request[g].key
  BY DEF Row, Rows
<1> QED BY <1>5, <1>6

LEMMA SameValueSameRow ==
  ASSUME NEW h, NEW g
  PROVE  /\ request[h].payload.trade = request[g].payload.trade => Row(h, 1) = Row(g, 1)
         /\ request[h].key = request[g].key => Row(h, 2) = Row(g, 2)
BY DEF Row, Rows

-----------------------------------------------------------------------------
LEMMA LedgerInvInit == Init => LedgerInv
<1> SUFFICES ASSUME Init PROVE LedgerInv
  OBVIOUS
<1> DEFINE TradeOf(k) == CHOOSE t \in Trades : Earlier[t] # None /\ Earlier[t].key = k
<1>1. ASSUME NEW k \in Unhashed
      PROVE  /\ k \in Keys
             /\ TradeOf(k) \in Trades /\ Earlier[TradeOf(k)] # None
             /\ Earlier[TradeOf(k)].key = k
  <2>1. PICK t \in Trades : Earlier[t] # None /\ Earlier[t].key = k
    BY DEF Unhashed
  <2>2. Earlier[t] \in Request
    BY <2>1, LedgerAssumption
  <2> QED BY <2>1, <2>2 DEF Request
<1>2. ASSUME NEW t \in Trades, Earlier[t] # None
      PROVE  /\ Earlier[t].key \in Keys /\ Earlier[t].key \in Unhashed
             /\ TradeOf(Earlier[t].key) = t
             /\ Earlier[t].payload \in Payload /\ Earlier[t].payload.total \in Nat
  <2>1. Earlier[t] \in Request
    BY <1>2, LedgerAssumption
  <2>2. Earlier[t].key \in Unhashed
    BY <1>2 DEF Unhashed
  <2>3. TradeOf(Earlier[t].key) = t
    BY <1>1, <1>2, <2>2, LedgerAssumption
  <2>4. Earlier[t].payload \in Payload
    BY <2>1, LedgerAssumption DEF Request
  <2> QED BY <2>1, <2>2, <2>3, <2>4 DEF Request, Payload
<1> HIDE DEF TradeOf
<1>3. keyRow = [k \in Keys |-> IF k \in Unhashed
                               THEN [trade |-> TradeOf(k), requestHash |-> None] ELSE None]
  BY DEF Init, TradeOf
<1>4. \A row \in KeyRow : row.trade \in Trades
  BY DEF KeyRow
<1>5. TypeOK
  <2>1. keyRow \in [Keys -> KeyRow \cup {None}]
    BY <1>1, <1>3 DEF KeyRow
  <2>2. EarlierCredit \in [Households -> [Trades -> Nat]]
    BY <1>2 DEF EarlierCredit
  <2>3. EarlierDebit \in [Households -> [Trades -> Nat]]
    BY <1>2 DEF EarlierDebit
  <2>4. EarlierBalance \in [Households -> Int]
    <3>1. ASSUME NEW x \in Households
          PROVE  /\ Total(EarlierCredit[x], NTrades) \in Nat
                 /\ Total(EarlierDebit[x], NTrades) \in Nat
      BY <2>2, <2>3, TotalIsNatural, LedgerAssumption DEF Trades
    <3> QED BY <3>1 DEF EarlierBalance
  <2>5. completed \in [Trades -> Request \cup {None}]
    BY LedgerAssumption DEF Init
  <2> QED BY <2>1, <2>2, <2>3, <2>4, <2>5 DEF Init, TypeOK, HandlerPoint, LastRow
<1>6. Handling
  BY DEF Init, Handling
<1>7. KeysMatchTrades
  <2>1. ASSUME NEW t \in Trades, completed[t] # None
        PROVE  /\ completed[t].payload.trade = t
               /\ keyRow[completed[t].key] # None
               /\ keyRow[completed[t].key].trade = t
    <3>1. completed[t] = Earlier[t] /\ Earlier[t] # None
      BY <2>1 DEF Init
    <3>2. Earlier[t].payload.trade = t
      BY <3>1, LedgerAssumption
    <3>3. keyRow[Earlier[t].key] = [trade |-> t, requestHash |-> None]
      BY <1>2, <1>3, <3>1
    <3>4. keyRow[Earlier[t].key] # None
      BY <3>3, NoneIsNoRow DEF KeyRow
    <3> QED BY <3>1, <3>2, <3>3, <3>4
  <2>2. ASSUME NEW k \in Keys, keyRow[k] # None
        PROVE  /\ completed[keyRow[k].trade] # None
               /\ completed[keyRow[k].trade].key = k
               /\ k \in Unhashed /\ keyRow[k].requestHash = None
    <3>1. k \in Unhashed /\ keyRow[k] = [trade |-> TradeOf(k), requestHash |-> None]
      BY <1>3, <2>2
    <3>2. completed = Earlier
      BY DEF Init
    <3> QED BY <1>1, <3>1, <3>2
  <2> QED BY <2>1, <2>2 DEF KeysMatchTrades
<1>8. RowsAreExclusive
  <2>1. \A h \in Handlers : claimed[h] = 0
    BY DEF Init
  <2> QED BY <2>1 DEF RowsAreExclusive
<1>9. RacedMeansTaken
  BY DEF Init, RacedMeansTaken
<1>10. OldKeysStay
  <2>1. ASSUME NEW k \in Unhashed PROVE keyRow[k] # None
    BY <1>1, <1>3, NoneIsNoRow DEF KeyRow
  <2> QED BY <2>1 DEF OldKeysStay
<1> QED BY <1>5, <1>6, <1>7, <1>8, <1>9, <1>10 DEF LedgerInv

-----------------------------------------------------------------------------
HandlerStep(h) == Receive(h) \/ Work(h) \/ Fail(h)

(* What a step of one handler leaves alone in the others, and in the       *)
(* ledger unless it is a commit.                                           *)
LEMMA OthersStay ==
  ASSUME TypeOK, NEW h \in Handlers, HandlerStep(h),
         NEW g \in Handlers, g # h
  PROVE  /\ pc'[g] = pc[g] /\ request'[g] = request[g]
         /\ claimed'[g] = claimed[g] /\ reply'[g] = reply[g]
<1> USE DEF TypeOK
<1>1. CASE Receive(h)
  BY <1>1 DEF Receive
<1>2. CASE Reject(h)
  BY <1>2 DEF Reject, Answer
<1>3. CASE FindReplay(h)
  BY <1>3 DEF FindReplay, AnswerStored, Answer
<1>4. CASE BeginRecording(h)
  BY <1>4 DEF BeginRecording
<1>5. CASE Claim(h)
  BY <1>5 DEF Claim
<1>6. CASE LoseRace(h)
  BY <1>6 DEF LoseRace
<1>7. CASE RefuseTrade(h)
  BY <1>7 DEF RefuseTrade, Answer
<1>8. CASE Commit(h)
  BY <1>8 DEF Commit
<1>9. CASE Fail(h)
  BY <1>9 DEF Fail
<1>10. CASE Deliver(h)
  BY <1>10 DEF Deliver
<1> QED BY <1>1, <1>2, <1>3, <1>4, <1>5, <1>6, <1>7, <1>8, <1>9, <1>10 DEF HandlerStep, Work

LEMMA LedgerStays ==
  ASSUME NEW h \in Handlers, HandlerStep(h), ~ Commit(h)
  PROVE  UNCHANGED <<completed, keyRow, credit, debit, balance>>
BY DEF HandlerStep, Receive, Work, Fail, Reject, FindReplay, AnswerStored, Answer, BeginRecording,
       Claim, LoseRace, RefuseTrade, Deliver, ledgerVars, entryVars

LEMMA RepliesAreReplies ==
  /\ \A outcome \in Outcome : Refusal(outcome) \in Reply
  /\ \A p \in Payloads : /\ [outcome |-> "created", trade |-> p] \in Reply
                         /\ [outcome |-> "replayed", trade |-> p] \in Reply
  /\ \A r \in Reply : r # None
  /\ \A r \in Requests : r # None
<1>1. \A outcome \in Outcome : Refusal(outcome) \in Reply
  BY DEF Reply, Refusal
<1>2. ASSUME NEW p \in Payloads
      PROVE  /\ [outcome |-> "created", trade |-> p] \in Reply
             /\ [outcome |-> "replayed", trade |-> p] \in Reply
  BY DEF Reply, Outcome
<1>3. (\A r \in Reply : r # None) /\ (\A r \in Requests : r # None)
  BY LedgerAssumption
<1> QED BY <1>1, <1>2, <1>3

(* findReplay answers with something a reply can be. *)
LEMMA StoredAnswer ==
  ASSUME TypeOK, KeysMatchTrades, NEW h \in Handlers, request[h] # None,
         keyRow[request[h].key] # None,
         AnswerStored(h, keyRow[request[h].key])
  PROVE  \E r \in Reply : Answer(h, r)
<1> DEFINE row == keyRow[request[h].key]
<1>1. row \in KeyRow /\ row.trade \in Trades /\ completed[row.trade] # None
  BY RequestType DEF TypeOK, KeyRow, KeysMatchTrades
<1>2. completed[row.trade] \in Request
  BY <1>1 DEF TypeOK
<1>3. completed[row.trade].payload \in Payloads
  BY <1>2 DEF Request
<1>4. /\ [outcome |-> "replayed", trade |-> completed[row.trade].payload] \in Reply
      /\ Refusal("keyConflict") \in Reply
  BY <1>3, RepliesAreReplies DEF Outcome
<1> HIDE DEF row
<1>5. Answer(h, IF row.requestHash \in {None, request[h].payload}
               THEN [outcome |-> "replayed", trade |-> completed[row.trade].payload]
               ELSE Refusal("keyConflict"))
  BY DEF row, AnswerStored
<1> QED BY <1>4, <1>5

(* What a commit finds: the trade and the key it records are both new. *)
LEMMA CommitIsNew ==
  ASSUME LedgerInv, NEW h \in Handlers, Commit(h)
  PROVE  /\ request[h] # None /\ Possible(request[h].payload)
         /\ completed[request[h].payload.trade] = None
         /\ keyRow[request[h].key] = None
         /\ request[h].key \notin Unhashed
BY DEF LedgerInv, Handling, Commit, RowsAreExclusive, OldKeysStay, LastRow

LEMMA CommitAnswer ==
  ASSUME LedgerInv, NEW h \in Handlers, Commit(h)
  PROVE  \E r \in Reply : reply' = [reply EXCEPT ![h] = r]
<1>1. request[h].payload \in Payloads
  BY CommitIsNew, RequestType DEF LedgerInv
<1>2. [outcome |-> "created", trade |-> request[h].payload] \in Reply
  BY <1>1, RepliesAreReplies
<1> QED BY <1>2 DEF Commit

LEMMA HandlingStep ==
  ASSUME LedgerInv, NEW h \in Handlers, HandlerStep(h)
  PROVE  Handling'
<1> USE RepliesAreReplies DEF TypeOK, LedgerInv, Handling
<1>1. /\ request'[h] = None <=> pc'[h] = "idle"
      /\ claimed'[h] > 0 => pc'[h] = "recording"
      /\ reply'[h] # None <=> pc'[h] = "answered"
      /\ pc'[h] \in {"recording", "raced"} => Possible(request'[h].payload)
  <2>1. CASE Receive(h)
    BY <2>1 DEF Receive
  <2>2. CASE Reject(h)
    BY <2>2 DEF Reject, Answer, Outcome
  <2>3. CASE FindReplay(h)
    <3>1. PICK r \in Reply : Answer(h, r)
      BY <2>3, StoredAnswer DEF FindReplay
    <3>2. r # None
      BY RepliesAreReplies
    <3> QED BY <2>3, <3>1, <3>2 DEF FindReplay, Answer
  <2>4. CASE BeginRecording(h)
    BY <2>4 DEF BeginRecording
  <2>5. CASE Claim(h)
    BY <2>5 DEF Claim, Claiming
  <2>6. CASE LoseRace(h)
    BY <2>6 DEF LoseRace, Claiming
  <2>7. CASE RefuseTrade(h)
    BY <2>7 DEF RefuseTrade, Answer, Outcome
  <2>8. CASE Commit(h)
    <3>1. PICK r \in Reply : reply' = [reply EXCEPT ![h] = r]
      BY <2>8, CommitAnswer
    <3>2. r # None
      BY RepliesAreReplies
    <3> QED BY <2>8, <3>1, <3>2 DEF Commit
  <2>9. CASE Fail(h)
    BY <2>9 DEF Fail
  <2>10. CASE Deliver(h)
    BY <2>10 DEF Deliver
  <2> QED BY <2>1, <2>2, <2>3, <2>4, <2>5, <2>6, <2>7, <2>8, <2>9, <2>10
          DEF HandlerStep, Work
<1>2. ASSUME NEW g \in Handlers, g # h
      PROVE  /\ pc'[g] = pc[g] /\ request'[g] = request[g]
             /\ claimed'[g] = claimed[g] /\ reply'[g] = reply[g]
  BY <1>2, OthersStay
<1> QED BY <1>1, <1>2

LEMMA TypeOKStep ==
  ASSUME LedgerInv, NEW h \in Handlers, HandlerStep(h)
  PROVE  TypeOK'
<1> USE RepliesAreReplies DEF TypeOK, LedgerInv, HandlerPoint
<1>1. CASE Receive(h)
  BY <1>1 DEF Receive, ledgerVars, entryVars
<1>2. CASE Reject(h)
  BY <1>2 DEF Reject, Answer, Outcome, ledgerVars, entryVars
<1>3. CASE FindReplay(h)
  <2>1. request[h] # None
    BY <1>3 DEF FindReplay, Handling
  <2>2. PICK r \in Reply : Answer(h, r)
    BY <1>3, <2>1, StoredAnswer DEF FindReplay
  <2> QED BY <2>2 DEF Answer, ledgerVars, entryVars
<1>4. CASE BeginRecording(h)
  BY <1>4 DEF BeginRecording, ledgerVars, entryVars
<1>5. CASE Claim(h)
  BY <1>5 DEF Claim, Claiming, LastRow, ledgerVars, entryVars
<1>6. CASE LoseRace(h)
  BY <1>6 DEF LoseRace, LastRow, ledgerVars, entryVars
<1>7. CASE RefuseTrade(h)
  BY <1>7 DEF RefuseTrade, Answer, Outcome, ledgerVars, entryVars
<1>8. CASE Commit(h)
  <2> DEFINE r == request[h]
  <2>1. /\ r \in Request /\ r.key \in Keys /\ r.payload \in Payloads
        /\ r.payload.trade \in Trades /\ r.payload.total \in Nat
        /\ r.payload.seller \in Households /\ r.payload.buyer \in Households
    BY <1>8, CommitIsNew, RequestType
  <2> HIDE DEF r
  <2>2. completed' \in [Trades -> Request \cup {None}]
    BY <1>8, <2>1 DEF Commit, r
  <2>3. keyRow' \in [Keys -> KeyRow \cup {None}]
    <3>1. [trade |-> r.payload.trade, requestHash |-> r.payload] \in KeyRow
      BY <2>1 DEF KeyRow
    <3>2. keyRow' = [keyRow EXCEPT ![r.key] = [trade |-> r.payload.trade,
                                               requestHash |-> r.payload]]
      BY <1>8 DEF Commit, WriteKey, r
    <3> QED BY <3>1, <3>2
  <2>4. credit' \in [Households -> [Trades -> Nat]]
    BY <1>8, <2>1 DEF Commit, WriteEntries, r
  <2>5. debit' \in [Households -> [Trades -> Nat]]
    BY <1>8, <2>1 DEF Commit, WriteEntries, r
  <2>6. balance' \in [Households -> Int]
    <3>1. \A x \in Households : Movement(r.payload, x) \in Int
      BY <2>1 DEF Movement
    <3>2. balance' = [x \in Households |-> balance[x] + Movement(r.payload, x)]
      BY <1>8 DEF Commit, MoveMoney, r
    <3> QED BY <3>1, <3>2
  <2>7. /\ pc' \in [Handlers -> HandlerPoint]
        /\ request' \in [Handlers -> Requests \cup {None}]
        /\ claimed' \in [Handlers -> 0 .. LastRow]
    BY <1>8 DEF Commit, LastRow
  <2>8. reply' \in [Handlers -> Reply \cup {None}]
    BY <1>8, CommitAnswer
  <2> QED BY <2>2, <2>3, <2>4, <2>5, <2>6, <2>7, <2>8
<1>9. CASE Fail(h)
  BY <1>9 DEF Fail, LastRow, ledgerVars, entryVars
<1>10. CASE Deliver(h)
  BY <1>10 DEF Deliver, ledgerVars, entryVars
<1> QED BY <1>1, <1>2, <1>3, <1>4, <1>5, <1>6, <1>7, <1>8, <1>9, <1>10
        DEF HandlerStep, Work

(* A commit adds one trade and one key to the ledger, for each other. *)
LEMMA CommitPairs ==
  ASSUME LedgerInv, NEW h \in Handlers, Commit(h)
  PROVE  LET r == request[h] IN
         /\ r.payload.trade \in Trades /\ r.key \in Keys
         /\ completed'[r.payload.trade] = r
         /\ keyRow'[r.key] = [trade |-> r.payload.trade, requestHash |-> r.payload]
         /\ \A t \in Trades : t # r.payload.trade => completed'[t] = completed[t]
         /\ \A k \in Keys : k # r.key => keyRow'[k] = keyRow[k]
<1> DEFINE r == request[h]
<1>1. r.payload.trade \in Trades /\ r.key \in Keys
  BY CommitIsNew, RequestType DEF LedgerInv
<1> QED BY <1>1 DEF Commit, WriteKey, LedgerInv, TypeOK

LEMMA KeysMatchTradesStep ==
  ASSUME LedgerInv, NEW h \in Handlers, HandlerStep(h)
  PROVE  KeysMatchTrades'
<1>1. CASE ~ Commit(h)
  BY <1>1, LedgerStays DEF LedgerInv, KeysMatchTrades
<1>2. CASE Commit(h)
  <2> DEFINE r == request[h]
             row == [trade |-> r.payload.trade, requestHash |-> r.payload]
  <2>1. /\ r # None /\ completed[r.payload.trade] = None
        /\ keyRow[r.key] = None /\ r.key \notin Unhashed
    BY <1>2, CommitIsNew
  <2>2. /\ r.payload.trade \in Trades /\ r.key \in Keys
        /\ completed'[r.payload.trade] = r
        /\ keyRow'[r.key] = row
        /\ \A t \in Trades : t # r.payload.trade => completed'[t] = completed[t]
        /\ \A k \in Keys : k # r.key => keyRow'[k] = keyRow[k]
    BY <1>2, CommitPairs
  <2>3. row # None /\ row.trade = r.payload.trade /\ row.requestHash = r.payload
    <3>1. r.payload \in Payloads
      BY <2>1, RequestType DEF LedgerInv
    <3> QED BY <2>2, <3>1, NoneIsNoRow DEF KeyRow
  <2> HIDE DEF r, row
  <2>4. ASSUME NEW t \in Trades, completed'[t] # None
        PROVE  /\ completed'[t].payload.trade = t
               /\ keyRow'[completed'[t].key] # None
               /\ keyRow'[completed'[t].key].trade = t
    <3>1. CASE t = r.payload.trade
      BY <2>2, <2>3, <3>1
    <3>2. CASE t # r.payload.trade
      <4>1. completed'[t] = completed[t] /\ completed[t] # None
        BY <2>2, <2>4, <3>2
      <4>2. /\ completed[t].payload.trade = t
            /\ keyRow[completed[t].key] # None
            /\ keyRow[completed[t].key].trade = t
        BY <4>1 DEF LedgerInv, KeysMatchTrades
      <4>3. completed[t].key \in Keys
        BY <4>1 DEF LedgerInv, TypeOK, Request
      <4>4. keyRow'[completed[t].key] = keyRow[completed[t].key]
        BY <2>1, <2>2, <4>2, <4>3
      <4> QED BY <4>1, <4>2, <4>4
    <3> QED BY <3>1, <3>2
  <2>5. ASSUME NEW k \in Keys, keyRow'[k] # None
        PROVE  /\ completed'[keyRow'[k].trade] # None
               /\ completed'[keyRow'[k].trade].key = k
               /\ keyRow'[k].requestHash =
                     IF k \in Unhashed THEN None ELSE completed'[keyRow'[k].trade].payload
    <3>1. CASE k = r.key
      BY <2>1, <2>2, <2>3, <3>1
    <3>2. CASE k # r.key
      <4>1. keyRow'[k] = keyRow[k] /\ keyRow[k] # None
        BY <2>2, <2>5, <3>2
      <4>2. /\ completed[keyRow[k].trade] # None
            /\ completed[keyRow[k].trade].key = k
            /\ keyRow[k].requestHash =
                  IF k \in Unhashed THEN None ELSE completed[keyRow[k].trade].payload
        BY <4>1 DEF LedgerInv, KeysMatchTrades
      <4>3. keyRow[k].trade \in Trades
        BY <4>1 DEF LedgerInv, TypeOK, KeyRow
      <4>4. completed'[keyRow[k].trade] = completed[keyRow[k].trade]
        BY <2>1, <2>2, <4>2, <4>3
      <4> QED BY <4>1, <4>2, <4>4
    <3> QED BY <3>1, <3>2
  <2> QED BY <2>4, <2>5 DEF KeysMatchTrades
<1> QED BY <1>1, <1>2

LEMMA OldKeysStayStep ==
  ASSUME LedgerInv, NEW h \in Handlers, HandlerStep(h)
  PROVE  OldKeysStay'
<1>1. CASE ~ Commit(h)
  BY <1>1, LedgerStays DEF LedgerInv, OldKeysStay
<1>2. CASE Commit(h)
  <2>1. request[h].key \notin Unhashed
    BY <1>2, CommitIsNew
  <2>2. ASSUME NEW k \in Unhashed PROVE k \in Keys
    BY LedgerAssumption DEF Unhashed, Request
  <2>3. \A k \in Keys : k # request[h].key => keyRow'[k] = keyRow[k]
    BY <1>2, CommitPairs
  <2> QED BY <2>1, <2>2, <2>3 DEF LedgerInv, OldKeysStay
<1> QED BY <1>1, <1>2

(* What is committed stays committed. *)
LEMMA TakenStays ==
  ASSUME LedgerInv, NEW h \in Handlers, HandlerStep(h)
  PROVE  /\ \A t \in Trades : completed[t] # None => completed'[t] = completed[t]
         /\ \A k \in Keys : keyRow[k] # None => keyRow'[k] = keyRow[k]
<1>1. CASE ~ Commit(h)
  BY <1>1, LedgerStays
<1>2. CASE Commit(h)
  <2>1. /\ \A t \in Trades : t # request[h].payload.trade => completed'[t] = completed[t]
        /\ \A k \in Keys : k # request[h].key => keyRow'[k] = keyRow[k]
    BY <1>2, CommitPairs
  <2> QED BY <1>2, <2>1, CommitIsNew
<1> QED BY <1>1, <1>2

LEMMA RacedMeansTakenStep ==
  ASSUME LedgerInv, NEW h \in Handlers, HandlerStep(h)
  PROVE  RacedMeansTaken'
<1> SUFFICES ASSUME NEW g \in Handlers, pc'[g] = "raced"
             PROVE  \/ keyRow'[request'[g].key] # None
                    \/ completed'[request'[g].payload.trade] # None
  BY DEF RacedMeansTaken
<1>1. CASE pc[g] = "raced" /\ request'[g] = request[g]
  <2>1. request[g] # None
    BY <1>1 DEF LedgerInv, Handling
  <2>2. request[g].key \in Keys /\ request[g].payload.trade \in Trades
    BY <2>1, RequestType DEF LedgerInv
  <2>3. \/ keyRow[request[g].key] # None
        \/ completed[request[g].payload.trade] # None
    BY <1>1 DEF LedgerInv, RacedMeansTaken
  <2> QED BY <1>1, <2>2, <2>3, TakenStays
<1>2. CASE g = h /\ LoseRace(h)
  <2>1. Taken(h) /\ UNCHANGED <<request, completed, keyRow>>
    BY <1>2 DEF LoseRace, ledgerVars
  <2>2. CASE \E t \in Trades : completed[t] # None /\ completed[t].key = request[h].key
    BY <1>2, <2>1, <2>2 DEF LedgerInv, KeysMatchTrades
  <2>3. CASE completed[request[h].payload.trade] # None \/ keyRow[request[h].key] # None
    BY <1>2, <2>1, <2>3
  <2> QED BY <2>1, <2>2, <2>3 DEF Taken
<1>3. CASE g = h /\ ~ LoseRace(h)
  <2>1. FALSE
    <3> USE <1>3 DEF LedgerInv, TypeOK
    <3>1. CASE Receive(h)
      BY <3>1 DEF Receive
    <3>2. CASE Reject(h) \/ RefuseTrade(h)
      BY <3>2 DEF Reject, RefuseTrade, Answer
    <3>3. CASE FindReplay(h)
      BY <3>3 DEF FindReplay, AnswerStored, Answer
    <3>4. CASE BeginRecording(h)
      BY <3>4 DEF BeginRecording
    <3>5. CASE Claim(h)
      BY <3>5 DEF Claim, Claiming
    <3>6. CASE Commit(h)
      BY <3>6 DEF Commit
    <3>7. CASE Fail(h) \/ Deliver(h)
      BY <3>7 DEF Fail, Deliver
    <3> QED BY <3>1, <3>2, <3>3, <3>4, <3>5, <3>6, <3>7 DEF HandlerStep, Work
  <2> QED BY <2>1
<1>4. CASE g # h
  BY <1>1, <1>4, OthersStay DEF LedgerInv
<1> QED BY <1>2, <1>3, <1>4

(* The rows of an open transaction change only when it claims one more. *)
LEMMA RowsGrowByClaim ==
  ASSUME LedgerInv, NEW h \in Handlers, HandlerStep(h), ~ Claim(h)
  PROVE  claimed'[h] = 0 \/ (claimed'[h] = claimed[h] /\ request'[h] = request[h])
<1> USE DEF LedgerInv, TypeOK, Handling
<1>1. CASE Receive(h)
  BY <1>1 DEF Receive
<1>2. CASE Reject(h) \/ RefuseTrade(h)
  BY <1>2 DEF Reject, RefuseTrade, Answer
<1>3. CASE FindReplay(h)
  BY <1>3 DEF FindReplay, AnswerStored, Answer
<1>4. CASE BeginRecording(h)
  BY <1>4 DEF BeginRecording
<1>5. CASE LoseRace(h) \/ Commit(h) \/ Fail(h)
  BY <1>5 DEF LoseRace, Commit, Fail
<1>6. CASE Deliver(h)
  <2>1. claimed' = claimed /\ pc[h] = "answered"
    BY <1>6 DEF Deliver
  <2>2. claimed[h] \in 0 .. 5 /\ ~ (claimed[h] > 0)
    BY <2>1 DEF LastRow
  <2> QED BY <2>1, <2>2
<1> QED BY <1>1, <1>2, <1>3, <1>4, <1>5, <1>6 DEF HandlerStep, Work

(* A claim adds the row the handler wanted, which nobody else holds. *)
LEMMA ClaimAddsFreeRow ==
  ASSUME LedgerInv, NEW h \in Handlers, Claim(h)
  PROVE  /\ request[h] # None /\ request' = request
         /\ claimed[h] \in 0 .. LastRow - 1
         /\ claimed'[h] = claimed[h] + 1
         /\ ~ Taken(h)
         /\ UNCHANGED <<completed, keyRow>>
         /\ \A g \in Handlers \ {h} : \A m \in 1 .. claimed[g] :
               Row(g, m) # Row(h, claimed[h] + 1)
<1>1. request[h] # None
  BY DEF Claim, Claiming, LedgerInv, Handling
<1>2. claimed[h] \in 0 .. LastRow - 1
  BY DEF Claim, Claiming, LedgerInv, TypeOK, LastRow
<1>3. \A g \in Handlers \ {h} : ~ Holds(g, Wants(h))
  BY DEF Claim, Free, WaitsFor
<1> QED BY <1>1, <1>2, <1>3 DEF Claim, Holds, Wants, ledgerVars, LedgerInv, TypeOK

(* The two halves of RowsAreExclusive, without Holds. *)
NoSharedRow == \A h, g \in Handlers : h # g =>
    \A n \in 1 .. claimed[h], m \in 1 .. claimed[g] : Row(h, n) # Row(g, m)
HeldIsNotTaken == \A h \in Handlers :
    /\ claimed[h] >= 1 => completed[request[h].payload.trade] = None
    /\ claimed[h] >= 2 => keyRow[request[h].key] = None

LEMMA ExclusiveHalves == RowsAreExclusive <=> NoSharedRow /\ HeldIsNotTaken
BY DEF RowsAreExclusive, NoSharedRow, HeldIsNotTaken, Holds

LEMMA NoSharedRowStep ==
  ASSUME LedgerInv, NEW h \in Handlers, HandlerStep(h)
  PROVE  NoSharedRow'
<1>1. NoSharedRow
  BY ExclusiveHalves DEF LedgerInv
<1>2. \A g \in Handlers : claimed[g] \in 0 .. LastRow
  BY DEF LedgerInv, TypeOK
<1>3. ASSUME NEW g \in Handlers, g # h
      PROVE  claimed'[g] = claimed[g] /\ request'[g] = request[g]
  BY <1>3, OthersStay DEF LedgerInv
<1>4. CASE ~ Claim(h)
  <2>1. claimed'[h] = 0 \/ (claimed'[h] = claimed[h] /\ request'[h] = request[h])
    BY <1>4, RowsGrowByClaim
  <2>2. ASSUME NEW g \in Handlers, NEW n \in 1 .. claimed'[g]
        PROVE  claimed'[g] = claimed[g] /\ request'[g] = request[g]
    BY <1>3, <2>1
  <2> QED BY <1>1, <2>2 DEF NoSharedRow, Row
<1>5. CASE Claim(h)
  <2> DEFINE new == claimed[h] + 1
  <2>1. /\ request' = request /\ claimed[h] \in 0 .. LastRow - 1
        /\ claimed'[h] = new
        /\ \A g \in Handlers \ {h} : \A m \in 1 .. claimed[g] : Row(g, m) # Row(h, new)
    BY <1>5, ClaimAddsFreeRow
  <2>2. \A g \in Handlers, m \in 1 .. LastRow : Row(g, m)' = Row(g, m)
    BY <2>1 DEF Row
  <2>3. ASSUME NEW g \in Handlers, g # h,
               NEW n \in 1 .. claimed'[h], NEW m \in 1 .. claimed'[g]
        PROVE  Row(h, n)' # Row(g, m)'
    <3>1. claimed'[g] = claimed[g] /\ m \in 1 .. claimed[g]
      BY <1>3, <2>3
    <3>2. n \in 1 .. LastRow /\ m \in 1 .. LastRow
      BY <1>2, <2>1, <3>1 DEF LastRow
    <3>3. Row(h, n) # Row(g, m)
      <4>1. CASE n = new
        BY <2>1, <2>3, <3>1, <4>1
      <4>2. CASE n # new
        <5>1. n \in 1 .. claimed[h]
          BY <2>1, <4>2
        <5> QED BY <1>1, <2>3, <3>1, <5>1 DEF NoSharedRow
      <4> QED BY <4>1, <4>2
    <3> QED BY <2>2, <3>2, <3>3
  <2>4. ASSUME NEW f \in Handlers, NEW g \in Handlers, f # g, f # h, g # h,
               NEW n \in 1 .. claimed'[f], NEW m \in 1 .. claimed'[g]
        PROVE  Row(f, n)' # Row(g, m)'
    <3>1. n \in 1 .. claimed[f] /\ m \in 1 .. claimed[g]
      BY <1>3, <2>4
    <3>2. Row(f, n) # Row(g, m)
      BY <1>1, <2>4, <3>1 DEF NoSharedRow
    <3> QED BY <2>1, <3>2 DEF Row
  <2> QED BY <2>3, <2>4 DEF NoSharedRow
<1> QED BY <1>4, <1>5

LEMMA HeldIsNotTakenStep ==
  ASSUME LedgerInv, NEW h \in Handlers, HandlerStep(h)
  PROVE  HeldIsNotTaken'
<1> SUFFICES ASSUME NEW g \in Handlers
             PROVE  /\ claimed'[g] >= 1 => completed'[request'[g].payload.trade] = None
                    /\ claimed'[g] >= 2 => keyRow'[request'[g].key] = None
  BY DEF HeldIsNotTaken
<1>1. NoSharedRow /\ HeldIsNotTaken
  BY ExclusiveHalves DEF LedgerInv
<1>2. claimed[g] \in 0 .. LastRow /\ claimed[h] \in 0 .. LastRow
  BY DEF LedgerInv, TypeOK
<1>3. CASE g # h /\ Commit(h)
  <2>1. claimed'[g] = claimed[g] /\ request'[g] = request[g]
    BY <1>3, OthersStay DEF LedgerInv
  <2>2. claimed[h] = LastRow
    BY <1>3 DEF Commit
  <2>3. CASE claimed[g] >= 1
    <3>1. request[g] # None
      BY <1>2, <2>3, HolderHasRequest DEF LedgerInv
    <3>2. request[g].payload.trade \in Trades /\ request[g].key \in Keys
      BY <3>1, RequestType DEF LedgerInv
    <3>3. request[g].payload.trade # request[h].payload.trade
      <4>1. 1 \in 1 .. claimed[g] /\ 1 \in 1 .. claimed[h]
        BY <1>2, <2>2, <2>3 DEF LastRow
      <4>2. Row(g, 1) # Row(h, 1)
        BY <1>1, <1>3, <4>1 DEF NoSharedRow
      <4> QED BY <4>2, SameValueSameRow
    <3>4. claimed[g] >= 2 => request[g].key # request[h].key
      <4> SUFFICES ASSUME claimed[g] >= 2 PROVE request[g].key # request[h].key
        OBVIOUS
      <4>1. 2 \in 1 .. claimed[g] /\ 2 \in 1 .. claimed[h]
        BY <1>2, <2>2 DEF LastRow
      <4>2. Row(g, 2) # Row(h, 2)
        BY <1>1, <1>3, <4>1 DEF NoSharedRow
      <4> QED BY <4>2, SameValueSameRow
    <3>5. /\ \A t \in Trades : t # request[h].payload.trade => completed'[t] = completed[t]
          /\ \A k \in Keys : k # request[h].key => keyRow'[k] = keyRow[k]
      BY <1>3, CommitPairs
    <3> QED BY <1>1, <2>1, <2>3, <3>2, <3>3, <3>4, <3>5 DEF HeldIsNotTaken
  <2> QED BY <1>2, <2>1, <2>3
<1>4. CASE g = h /\ Claim(h)
  <2>1. /\ request[h] # None /\ request' = request
        /\ claimed'[h] = claimed[h] + 1 /\ ~ Taken(h)
        /\ completed' = completed /\ keyRow' = keyRow
    BY <1>4, ClaimAddsFreeRow
  <2>2. request[h].key \in Keys
    BY <2>1, RequestType DEF LedgerInv
  <2>3. completed[request[h].payload.trade] = None
    BY <1>1, <1>2, <2>1 DEF HeldIsNotTaken, Taken
  <2>4. claimed[h] >= 1 => keyRow[request[h].key] = None
    <3>1. CASE claimed[h] = 1
      <4>1. ~ \E t \in Trades : completed[t] # None /\ completed[t].key = request[h].key
        BY <2>1, <3>1 DEF Taken
      <4>2. keyRow[request[h].key] # None => keyRow[request[h].key].trade \in Trades
        BY <2>2 DEF LedgerInv, TypeOK, KeyRow
      <4> QED BY <2>2, <4>1, <4>2 DEF LedgerInv, KeysMatchTrades
    <3>2. CASE claimed[h] >= 2
      BY <1>1, <3>2 DEF HeldIsNotTaken
    <3> QED BY <1>2, <3>1, <3>2
  <2> QED BY <1>2, <1>4, <2>1, <2>3, <2>4
<1>5. CASE g # h /\ ~ Commit(h)
  <2>1. claimed'[g] = claimed[g] /\ request'[g] = request[g]
    BY <1>5, OthersStay DEF LedgerInv
  <2>2. completed' = completed /\ keyRow' = keyRow
    BY <1>5, LedgerStays
  <2> QED BY <1>1, <2>1, <2>2 DEF HeldIsNotTaken
<1>6. CASE g = h /\ ~ Claim(h)
  <2>1. claimed'[h] = 0 \/ (claimed'[h] = claimed[h] /\ request'[h] = request[h])
    BY <1>6, RowsGrowByClaim
  <2>2. CASE claimed'[h] = 0
    BY <1>6, <2>2
  <2>3. CASE claimed'[h] = claimed[h] /\ request'[h] = request[h] /\ claimed'[h] # 0
    <3>1. ~ Commit(h)
      BY <2>3 DEF Commit, LedgerInv, TypeOK
    <3>2. completed' = completed /\ keyRow' = keyRow
      BY <3>1, LedgerStays
    <3> QED BY <1>1, <1>6, <2>3, <3>2 DEF HeldIsNotTaken
  <2> QED BY <2>1, <2>2, <2>3
<1> QED BY <1>3, <1>4, <1>5, <1>6

-----------------------------------------------------------------------------
LEMMA LedgerInvStep == LedgerInv /\ [Next]_vars => LedgerInv'
<1> SUFFICES ASSUME LedgerInv, [Next]_vars PROVE LedgerInv'
  OBVIOUS
<1>1. CASE UNCHANGED vars
  BY <1>1 DEF vars, handlerVars, ledgerVars, entryVars, LedgerInv, TypeOK, Handling,
      KeysMatchTrades, RowsAreExclusive, Holds, Row, RacedMeansTaken, OldKeysStay
<1>2. ASSUME NEW h \in Handlers, HandlerStep(h) PROVE LedgerInv'
  <2>1. TypeOK' /\ Handling' /\ KeysMatchTrades'
    BY <1>2, TypeOKStep, HandlingStep, KeysMatchTradesStep
  <2>2. RowsAreExclusive'
    <3>1. NoSharedRow' /\ HeldIsNotTaken'
      BY <1>2, NoSharedRowStep, HeldIsNotTakenStep
    <3> QED BY <3>1 DEF RowsAreExclusive, NoSharedRow, HeldIsNotTaken, Holds
  <2>3. RacedMeansTaken' /\ OldKeysStay'
    BY <1>2, RacedMeansTakenStep, OldKeysStayStep
  <2> QED BY <2>1, <2>2, <2>3 DEF LedgerInv
<1> QED BY <1>1, <1>2 DEF Next, HandlerStep

(* Everything stays of its type. *)
THEOREM TypeCorrectness == Spec => []TypeOK
<1>1. LedgerInv => TypeOK
  BY DEF LedgerInv
<1> QED BY <1>1, LedgerInvInit, LedgerInvStep, PTL DEF Spec

(* The inductive invariant holds: what the unique indexes, the lookups and *)
(* the order of the inserts leave possible.                                *)
THEOREM LedgerInvariance == Spec => []LedgerInv
BY LedgerInvInit, LedgerInvStep, PTL DEF Spec

(* Keys and trades are paired, however requests race for either. *)
THEOREM KeysArePaired == Spec => []KeysMatchTrades
<1>1. LedgerInv => KeysMatchTrades
  BY DEF LedgerInv
<1> QED BY <1>1, LedgerInvariance, PTL

(* One open transaction for each trade, each key and each balance, and     *)
(* none for a trade or a key already recorded.                             *)
THEOREM OneRecorder == Spec => []RowsAreExclusive
<1>1. LedgerInv => RowsAreExclusive
  BY DEF LedgerInv
<1> QED BY <1>1, LedgerInvariance, PTL

-----------------------------------------------------------------------------
(* Deadlock *)

(* Where the row a handler wants stands in one order of all rows: trades,  *)
(* keys of completed_trades, idempotency keys, then balances by household. *)
Rank(h) == IF claimed[h] < 3 THEN claimed[h] + 1 ELSE 3 + Wants(h)[2]

LEMMA BalanceRows ==
  ASSUME LedgerInv, NEW h \in Handlers, pc[h] = "recording"
  PROVE  /\ Row(h, 4)[2] \in Households /\ Row(h, 5)[2] \in Households
         /\ Row(h, 4)[2] < Row(h, 5)[2]
<1>1. request[h] # None /\ Possible(request[h].payload)
  BY DEF LedgerInv, Handling
<1>2. request[h].payload.seller \in Households /\ request[h].payload.buyer \in Households
  BY <1>1, RequestType DEF LedgerInv
<1>3. request[h].payload.seller # request[h].payload.buyer
  BY <1>1 DEF Possible
<1>4. /\ Row(h, 4)[2] = Smaller(request[h].payload.seller, request[h].payload.buyer)
      /\ Row(h, 5)[2] = Larger(request[h].payload.seller, request[h].payload.buyer)
  BY DEF Row, Rows
<1> QED BY <1>2, <1>3, <1>4, LedgerAssumption DEF Smaller, Larger, Households

LEMMA RankBounds ==
  ASSUME LedgerInv, NEW h \in Handlers, Claiming(h)
  PROVE  /\ claimed[h] \in 0 .. 4
         /\ Rank(h) \in 1 .. 3 + NHouseholds
         /\ claimed[h] = 3 => Rank(h) = 3 + Row(h, 4)[2]
         /\ claimed[h] = 4 => Rank(h) = 3 + Row(h, 5)[2]
<1>1. claimed[h] \in 0 .. 4
  BY DEF LedgerInv, TypeOK, Claiming, LastRow
<1>2. Row(h, 4)[2] \in Households /\ Row(h, 5)[2] \in Households
  BY BalanceRows DEF Claiming
<1>3. CASE claimed[h] < 3
  BY <1>1, <1>3, LedgerAssumption DEF Rank
<1>4. CASE claimed[h] = 3
  <2>1. Rank(h) = 3 + Row(h, 4)[2]
    BY <1>4 DEF Rank, Wants
  <2> QED BY <1>1, <1>2, <1>4, <2>1, LedgerAssumption DEF Households
<1>5. CASE claimed[h] = 4
  <2>1. Rank(h) = 3 + Row(h, 5)[2]
    BY <1>5 DEF Rank, Wants
  <2> QED BY <1>1, <1>2, <1>5, <2>1, LedgerAssumption DEF Households
<1> QED BY <1>1, <1>3, <1>4, <1>5

(* Who waits for a handler that waits itself wants a lower row. *)
LEMMA WaitingGoesUp ==
  ASSUME LedgerInv, NEW h \in Handlers, NEW g \in Handlers,
         WaitsFor(h, g), Claiming(g)
  PROVE  Rank(h) < Rank(g)
<1>1. Claiming(h)
  BY DEF WaitsFor
<1>2. PICK m \in 1 .. claimed[g] : Row(g, m) = Row(h, claimed[h] + 1)
  BY DEF WaitsFor, Holds, Wants
<1>3. claimed[h] \in 0 .. 4 /\ claimed[g] \in 0 .. 4 /\ m \in 1 .. 4
  BY <1>1, <1>2, RankBounds
<1>4. claimed[h] + 1 \in 1 .. 5 /\ m \in 1 .. 5
  BY <1>3
<1>5. /\ claimed[h] + 1 = 1 => m = 1
      /\ claimed[h] + 1 = 2 => m = 2
      /\ claimed[h] + 1 = 3 => m = 3
      /\ claimed[h] + 1 >= 4 => m >= 4 /\ Row(h, claimed[h] + 1)[2] = Row(g, m)[2]
  <2> DEFINE n == claimed[h] + 1
  <2>1. n \in 1 .. 5 /\ Row(h, n) = Row(g, m)
    BY <1>2, <1>4
  <2> HIDE DEF n
  <2>2. /\ n = 1 => m = 1
        /\ n = 2 => m = 2
        /\ n = 3 => m = 3
        /\ n >= 4 => m >= 4 /\ Row(h, n)[2] = Row(g, m)[2]
    BY <1>4, <2>1, SameRow
  <2> QED BY <2>2 DEF n
<1>6. /\ Rank(h) \in 1 .. 3 + NHouseholds /\ Rank(g) \in 1 .. 3 + NHouseholds
      /\ claimed[g] = 3 => Rank(g) = 3 + Row(g, 4)[2]
      /\ claimed[g] = 4 => Rank(g) = 3 + Row(g, 5)[2]
      /\ claimed[h] = 3 => Rank(h) = 3 + Row(h, 4)[2]
      /\ claimed[h] = 4 => Rank(h) = 3 + Row(h, 5)[2]
  BY <1>1, RankBounds
<1>7. /\ Row(g, 4)[2] \in Nat \ {0} /\ Row(g, 5)[2] \in Nat \ {0}
      /\ Row(g, 4)[2] < Row(g, 5)[2]
  BY BalanceRows DEF Claiming, Households
<1>8. CASE claimed[h] < 3
  <2>1. Rank(h) = claimed[h] + 1 /\ claimed[g] >= claimed[h] + 1
    BY <1>2, <1>3, <1>5, <1>8 DEF Rank
  <2>2. claimed[g] < 3 => Rank(g) = claimed[g] + 1
    BY DEF Rank
  <2> QED BY <1>3, <1>6, <1>7, <1>8, <2>1, <2>2
<1>9. CASE claimed[h] >= 3
  <2>1. m = 4 /\ claimed[g] = 4
    BY <1>2, <1>3, <1>5, <1>9
  <2>2. Rank(h) = 3 + Row(g, 4)[2]
    BY <1>3, <1>5, <1>6, <1>9, <2>1
  <2> QED BY <1>6, <1>7, <2>1, <2>2
<1> QED BY <1>3, <1>8, <1>9

(* However trades run between households, no handlers wait for each other  *)
(* in a circle: every transaction claims its rows upwards in one order,    *)
(* balances by household id last.                                          *)
THEOREM DeadlockFreedom == Spec => []NoDeadlock
<1>1. LedgerInv => NoDeadlock
  <2> SUFFICES ASSUME LedgerInv,
                      NEW group \in (SUBSET Handlers) \ {{}},
                      \A h \in group : \E g \in group : WaitsFor(h, g)
               PROVE  FALSE
    BY DEF NoDeadlock
  <2> DEFINE top == 3 + NHouseholds
             below == {top - Rank(h) : h \in group}
  <2>1. \A h \in group : Claiming(h)
    BY DEF WaitsFor
  <2>2. \A h \in group : Rank(h) \in 1 .. top
    BY <2>1, RankBounds
  <2>3. below \in SUBSET Nat /\ below # {}
    BY <2>2, LedgerAssumption
  <2>4. PICK least \in below : \A b \in below : least <= b
    <3> HIDE DEF below
    <3> QED BY <2>3, LeastNatural
  <2>5. PICK h \in group : least = top - Rank(h)
    OBVIOUS
  <2>6. PICK g \in group : WaitsFor(h, g)
    OBVIOUS
  <2>7. Rank(h) < Rank(g)
    BY <2>1, <2>6, WaitingGoesUp
  <2>8. top - Rank(g) \in below
    OBVIOUS
  <2>9. least <= top - Rank(g)
    BY <2>4, <2>8
  <2> HIDE DEF below
  <2> QED BY <2>2, <2>5, <2>7, <2>9, LedgerAssumption
<1> QED BY <1>1, LedgerInvariance, PTL

-----------------------------------------------------------------------------
(* The books *)

LEMMA EntriesAreTradesInit == Init => EntriesAreTrades
BY DEF Init, EntriesAreTrades, EarlierCredit, EarlierDebit

LEMMA EntriesAreTradesStep ==
  ASSUME LedgerInv, EntriesAreTrades, NEW h \in Handlers, HandlerStep(h)
  PROVE  EntriesAreTrades'
<1>1. CASE ~ Commit(h)
  BY <1>1, LedgerStays DEF EntriesAreTrades
<1>2. CASE Commit(h)
  <2> DEFINE r == request[h]
             p == r.payload
  <2>1. /\ r # None /\ p.trade \in Trades
        /\ p.seller \in Households /\ p.buyer \in Households
        /\ completed[p.trade] = None
    BY <1>2, CommitIsNew, RequestType DEF LedgerInv
  <2>2. /\ completed'[p.trade] = r
        /\ \A t \in Trades : t # p.trade => completed'[t] = completed[t]
    BY <1>2, CommitPairs
  <2>3. /\ credit' = [credit EXCEPT ![p.seller][p.trade] = p.total]
        /\ debit' = [debit EXCEPT ![p.buyer][p.trade] = p.total]
    BY <1>2 DEF Commit, WriteEntries
  <2> HIDE DEF r
  <2>4. ASSUME NEW x \in Households, NEW t \in Trades
        PROVE  /\ credit'[x][t] = IF x = p.seller /\ t = p.trade THEN p.total
                                                                 ELSE credit[x][t]
               /\ debit'[x][t] = IF x = p.buyer /\ t = p.trade THEN p.total
                                                               ELSE debit[x][t]
    BY <2>1, <2>3 DEF LedgerInv, TypeOK
  <2>5. ASSUME NEW x \in Households
        PROVE  credit[x][p.trade] = 0 /\ debit[x][p.trade] = 0
    BY <2>1 DEF EntriesAreTrades
  <2> QED BY <2>1, <2>2, <2>4, <2>5 DEF EntriesAreTrades
<1> QED BY <1>1, <1>2

LEMMA BalanceIsLedgerInit == Init => BalanceIsLedger
BY DEF Init, BalanceIsLedger, EarlierBalance

LEMMA BalanceIsLedgerStep ==
  ASSUME LedgerInv, EntriesAreTrades, BalanceIsLedger,
         NEW h \in Handlers, HandlerStep(h)
  PROVE  BalanceIsLedger'
<1>1. CASE ~ Commit(h)
  BY <1>1, LedgerStays DEF BalanceIsLedger
<1>2. CASE Commit(h)
  <2> DEFINE p == request[h].payload
  <2> SUFFICES ASSUME NEW x \in Households
               PROVE  balance'[x] = Total(credit'[x], NTrades) - Total(debit'[x], NTrades)
    BY DEF BalanceIsLedger
  <2>1. /\ p.trade \in Trades /\ p.total \in Nat
        /\ p.seller \in Households /\ p.buyer \in Households
        /\ p.seller # p.buyer /\ completed[p.trade] = None
    BY <1>2, CommitIsNew, RequestType DEF LedgerInv, Possible
  <2>2. /\ credit' = [credit EXCEPT ![p.seller][p.trade] = p.total]
        /\ debit' = [debit EXCEPT ![p.buyer][p.trade] = p.total]
        /\ balance' = [y \in Households |-> balance[y] + Movement(p, y)]
    BY <1>2 DEF Commit, WriteEntries, MoveMoney
  <2> HIDE DEF p
  <2>3. /\ credit[x] \in [1 .. NTrades -> Nat] /\ credit'[x] \in [1 .. NTrades -> Nat]
        /\ debit[x] \in [1 .. NTrades -> Nat] /\ debit'[x] \in [1 .. NTrades -> Nat]
    BY <2>1, <2>2 DEF LedgerInv, TypeOK, Trades
  <2>4. NTrades \in Nat /\ p.trade \in 1 .. NTrades
    BY <2>1, LedgerAssumption DEF Trades
  <2>5. credit[x][p.trade] = 0 /\ debit[x][p.trade] = 0
    BY <2>1 DEF EntriesAreTrades
  <2>6. /\ \A t \in 1 .. NTrades : t # p.trade => credit'[x][t] = credit[x][t]
        /\ \A t \in 1 .. NTrades : t # p.trade => debit'[x][t] = debit[x][t]
    BY <2>1, <2>2 DEF LedgerInv, TypeOK, Trades
  <2>7. /\ Total(credit'[x], NTrades) + credit[x][p.trade]
              = Total(credit[x], NTrades) + credit'[x][p.trade]
        /\ Total(debit'[x], NTrades) + debit[x][p.trade]
              = Total(debit[x], NTrades) + debit'[x][p.trade]
    BY <2>3, <2>4, <2>6, TotalOfOneChange
  <2>8. /\ Total(credit[x], NTrades) \in Nat /\ Total(credit'[x], NTrades) \in Nat
        /\ Total(debit[x], NTrades) \in Nat /\ Total(debit'[x], NTrades) \in Nat
    BY <2>3, <2>4, TotalIsNatural
  <2>9. balance[x] = Total(credit[x], NTrades) - Total(debit[x], NTrades)
    BY DEF BalanceIsLedger
  <2>10. balance'[x] = balance[x] + Movement(p, x)
    BY <2>2
  <2>11. /\ credit'[x][p.trade] = IF x = p.seller THEN p.total ELSE 0
         /\ debit'[x][p.trade] = IF x = p.buyer THEN p.total ELSE 0
    BY <2>1, <2>2, <2>5 DEF LedgerInv, TypeOK
  <2>12. credit'[x][p.trade] - debit'[x][p.trade] = Movement(p, x)
    BY <2>1, <2>11 DEF Movement
  <2>13. credit'[x][p.trade] \in Nat /\ debit'[x][p.trade] \in Nat
    BY <2>3, <2>4
  <2> QED BY <2>5, <2>7, <2>8, <2>9, <2>10, <2>12, <2>13
<1> QED BY <1>1, <1>2

LEMMA BooksStep ==
  LedgerInv /\ EntriesAreTrades /\ BalanceIsLedger /\ [Next]_vars
    => EntriesAreTrades' /\ BalanceIsLedger'
<1> SUFFICES ASSUME LedgerInv, EntriesAreTrades, BalanceIsLedger, [Next]_vars
             PROVE  EntriesAreTrades' /\ BalanceIsLedger'
  OBVIOUS
<1>1. CASE UNCHANGED vars
  BY <1>1 DEF vars, ledgerVars, entryVars, EntriesAreTrades, BalanceIsLedger
<1>2. CASE \E h \in Handlers : HandlerStep(h)
  BY <1>2, EntriesAreTradesStep, BalanceIsLedgerStep
<1> QED BY <1>1, <1>2 DEF Next, HandlerStep

(* Each recorded trade has its one credit and its one debit, and nothing   *)
(* else has any, whatever was retried or raced.                            *)
THEOREM EntriesBalance == Spec => []EntriesAreTrades
BY EntriesAreTradesInit, BalanceIsLedgerInit, BooksStep, LedgerInvariance, PTL DEF Spec

(* A household's balance is always the sum of its ledger entries, though   *)
(* the two are written by different statements.                            *)
THEOREM BalancesAreLedger == Spec => []BalanceIsLedger
BY EntriesAreTradesInit, BalanceIsLedgerInit, BooksStep, LedgerInvariance, PTL DEF Spec

-----------------------------------------------------------------------------
(***************************************************************************)
(* BillingLedger implements ExactlyOnceLedger for every number of trades,  *)
(* households, keys and concurrent requests: the answer of a request takes *)
(* effect at one step of its handler, the commit of its transaction or the *)
(* look-up of its key, and everything else is a stutter.                   *)
(***************************************************************************)

(* The abstract ledger speaks of requests and payloads in the same words. *)
LEMMA SameWords ==
  /\ Ledger!Trades = Trades /\ Ledger!Households = Households
  /\ \A p : Ledger!Possible(p) <=> Possible(p)
  /\ \A p, x : Ledger!Movement(p, x) = Movement(p, x)
  /\ \A outcome : Ledger!Refusal(outcome) = Refusal(outcome)
  /\ Ledger!Unhashed = Unhashed
BY DEF Ledger!Trades, Trades, Ledger!Households, Households, Ledger!Possible, Possible,
       Ledger!ExpectedTotal, ExpectedTotal, Ledger!Movement, Movement, Ledger!Refusal,
       Refusal, Ledger!Unhashed, Unhashed

LEMMA InitImplements == Init => Ledger!Init
<1> SUFFICES ASSUME Init PROVE Ledger!Init
  OBVIOUS
<1>1. balance = Ledger!EarlierBalance
  <2>1. \A a, n : Ledger!Total(a, n) = Total(a, n)
    BY DEF Ledger!Total, Total, Ledger!RunningTotal, RunningTotal
  <2>2. Ledger!EarlierCredit = EarlierCredit /\ Ledger!EarlierDebit = EarlierDebit
    BY SameWords DEF EarlierCredit, EarlierDebit, Ledger!EarlierCredit, Ledger!EarlierDebit
  <2> QED BY <2>1, <2>2, SameWords DEF Init, EarlierBalance, Ledger!EarlierBalance
<1>2. RecordedUnder = Ledger!EarlierRecorded
  <2>1. ASSUME NEW k \in Keys
        PROVE  RecordedUnder[k] = Ledger!EarlierRecorded[k]
    <3> DEFINE t == CHOOSE u \in Trades : Earlier[u] # None /\ Earlier[u].key = k
    <3>1. CASE k \in Unhashed
      <4>1. t \in Trades
        BY <3>1 DEF Unhashed
      <4>2. keyRow[k] = [trade |-> t, requestHash |-> None] /\ completed = Earlier
        BY <3>1 DEF Init
      <4>3. Ledger!EarlierRecorded[k] = Earlier[t].payload
        BY <3>1, SameWords DEF Ledger!EarlierRecorded
      <4> HIDE DEF t
      <4>4. keyRow[k] # None /\ keyRow[k].trade = t
        BY <4>1, <4>2, NoneIsNoRow DEF KeyRow
      <4> QED BY <4>2, <4>3, <4>4 DEF RecordedUnder
    <3>2. CASE k \notin Unhashed
      BY <3>2, SameWords DEF Init, RecordedUnder, Ledger!EarlierRecorded
    <3> QED BY <3>1, <3>2
  <2>2. /\ RecordedUnder = [k \in Keys |-> RecordedUnder[k]]
        /\ Ledger!EarlierRecorded = [k \in Keys |-> Ledger!EarlierRecorded[k]]
    BY DEF RecordedUnder, Ledger!EarlierRecorded
  <2> QED BY <2>1, <2>2
<1> QED BY <1>1, <1>2 DEF Init, Ledger!Init

-----------------------------------------------------------------------------
LEMMA LedgerUnseen ==
  ASSUME UNCHANGED <<completed, keyRow>>
  PROVE  UNCHANGED RecordedUnder
BY DEF RecordedUnder

LEMMA ReceiveImplements ==
  ASSUME LedgerInv, NEW h \in Handlers, Receive(h)
  PROVE  Ledger!Ask(h)
BY LedgerUnseen DEF LedgerInv, Handling, Receive, ledgerVars, entryVars, Ledger!Ask

LEMMA RejectImplements ==
  ASSUME LedgerInv, NEW h \in Handlers, Reject(h)
  PROVE  Ledger!Reject(h)
BY LedgerUnseen, SameWords
   DEF LedgerInv, Handling, Reject, Answer, ledgerVars, entryVars,
       Ledger!Reject, Ledger!Waiting, Ledger!Say

LEMMA FindReplayImplements ==
  ASSUME LedgerInv, NEW h \in Handlers, FindReplay(h)
  PROVE  Ledger!AnswerKnownKey(h)
<1> DEFINE r == request[h]
           row == keyRow[r.key]
           stored == completed[row.trade].payload
<1>1. r # None /\ reply[h] = None /\ Possible(r.payload) /\ row # None
  BY DEF LedgerInv, Handling, FindReplay
<1>2. r.key \in Keys /\ r.payload \in Payloads
  BY <1>1, RequestType DEF LedgerInv
<1>3. /\ completed[row.trade] # None
      /\ row.requestHash = IF r.key \in Unhashed THEN None ELSE stored
  BY <1>1, <1>2 DEF LedgerInv, KeysMatchTrades
<1>4. stored \in Payloads /\ stored # None
  <2>1. completed[row.trade] \in Request
    BY <1>1, <1>2, <1>3 DEF LedgerInv, TypeOK, KeyRow
  <2> QED BY <2>1, LedgerAssumption DEF Request
<1>5. RecordedUnder[r.key] = stored
  BY <1>1, <1>2 DEF RecordedUnder
<1>6. row.requestHash \in {None, r.payload} <=> stored = r.payload \/ r.key \in Unhashed
  BY <1>2, <1>3, <1>4, LedgerAssumption
<1>7. AnswerStored(h, row)
  BY DEF FindReplay
<1> HIDE DEF row
<1>8. /\ reply' = [reply EXCEPT ![h] =
            IF stored = r.payload \/ r.key \in Unhashed
            THEN [outcome |-> "replayed", trade |-> stored]
            ELSE Refusal("keyConflict")]
      /\ UNCHANGED <<request, completed, keyRow, balance>>
  BY <1>6, <1>7 DEF AnswerStored, Answer, ledgerVars, entryVars
<1> HIDE DEF stored
<1> QED BY <1>1, <1>4, <1>5, <1>8, LedgerUnseen, SameWords
        DEF Ledger!AnswerKnownKey, Ledger!Waiting, Ledger!Say

(* The trades the abstract ledger has recorded are the completed ones. *)
LEMMA RecordedTradesAreCompleted ==
  ASSUME LedgerInv
  PROVE  Ledger!RecordedTrades = {t \in Trades : completed[t] # None}
<1>1. ASSUME NEW k \in Keys, RecordedUnder[k] # None
      PROVE  RecordedUnder[k].trade \in {t \in Trades : completed[t] # None}
  <2>1. keyRow[k] # None /\ RecordedUnder[k] = completed[keyRow[k].trade].payload
    BY <1>1 DEF RecordedUnder
  <2>2. keyRow[k].trade \in Trades /\ completed[keyRow[k].trade] # None
    BY <2>1 DEF LedgerInv, TypeOK, KeyRow, KeysMatchTrades
  <2>3. completed[keyRow[k].trade].payload.trade = keyRow[k].trade
    BY <2>2 DEF LedgerInv, KeysMatchTrades
  <2> QED BY <2>1, <2>2, <2>3
<1>2. ASSUME NEW t \in Trades, completed[t] # None
      PROVE  \E k \in Keys : RecordedUnder[k] # None /\ RecordedUnder[k].trade = t
  <2>1. completed[t] \in Request
    BY <1>2 DEF LedgerInv, TypeOK
  <2>2. /\ completed[t].key \in Keys
        /\ completed[t].payload \in Payloads /\ completed[t].payload # None
    BY <2>1, LedgerAssumption DEF Request
  <2>3. /\ completed[t].payload.trade = t
        /\ keyRow[completed[t].key] # None /\ keyRow[completed[t].key].trade = t
    BY <1>2 DEF LedgerInv, KeysMatchTrades
  <2>4. RecordedUnder[completed[t].key] = completed[t].payload
    BY <2>2, <2>3 DEF RecordedUnder
  <2> QED BY <2>2, <2>3, <2>4
<1> QED BY <1>1, <1>2 DEF Ledger!RecordedTrades

LEMMA RefuseTradeImplements ==
  ASSUME LedgerInv, NEW h \in Handlers, RefuseTrade(h)
  PROVE  Ledger!RefuseKnownTrade(h)
<1>1. /\ pc[h] = "raced" /\ request[h] # None /\ reply[h] = None
      /\ Possible(request[h].payload) /\ keyRow[request[h].key] = None
  BY DEF LedgerInv, Handling, RefuseTrade
<1>2. request[h].key \in Keys /\ request[h].payload.trade \in Trades
  BY <1>1, RequestType DEF LedgerInv
<1>3. completed[request[h].payload.trade] # None
  BY <1>1 DEF LedgerInv, RacedMeansTaken
<1>4. request[h].payload.trade \in Ledger!RecordedTrades
  BY <1>2, <1>3, RecordedTradesAreCompleted
<1>5. RecordedUnder[request[h].key] = None
  BY <1>1, <1>2 DEF RecordedUnder
<1>6. /\ reply' = [reply EXCEPT ![h] = Refusal("tradeConflict")]
      /\ UNCHANGED <<request, completed, keyRow, balance>>
  BY DEF RefuseTrade, Answer, ledgerVars, entryVars
<1> QED BY <1>1, <1>4, <1>5, <1>6, LedgerUnseen, SameWords
        DEF Ledger!RefuseKnownTrade, Ledger!Waiting, Ledger!Say

LEMMA CommitImplements ==
  ASSUME LedgerInv, NEW h \in Handlers, Commit(h)
  PROVE  Ledger!Record(h)
<1> DEFINE r == request[h]
           p == r.payload
<1>1. /\ r # None /\ Possible(p)
      /\ completed[p.trade] = None /\ keyRow[r.key] = None
  BY CommitIsNew
<1>2. r.key \in Keys /\ p \in Payloads /\ p # None /\ p.trade \in Trades
  BY <1>1, RequestType, LedgerAssumption DEF LedgerInv
<1>3. /\ completed'[p.trade] = r
      /\ keyRow'[r.key] = [trade |-> p.trade, requestHash |-> p]
      /\ \A t \in Trades : t # p.trade => completed'[t] = completed[t]
      /\ \A k \in Keys : k # r.key => keyRow'[k] = keyRow[k]
  BY CommitPairs
<1>4. reply[h] = None
  BY DEF LedgerInv, Handling, Commit
<1>5. /\ reply' = [reply EXCEPT ![h] = [outcome |-> "created", trade |-> p]]
      /\ balance' = [x \in Households |-> balance[x] + Movement(p, x)]
      /\ UNCHANGED request
  BY DEF Commit, MoveMoney
<1>6. RecordedUnder[r.key] = None /\ p.trade \notin Ledger!RecordedTrades
  BY <1>1, <1>2, RecordedTradesAreCompleted DEF RecordedUnder
<1> HIDE DEF r
<1>7. RecordedUnder' = [RecordedUnder EXCEPT ![r.key] = p]
  <2>1. RecordedUnder'[r.key] = p
    <3>1. keyRow'[r.key] # None /\ keyRow'[r.key].trade = p.trade
      BY <1>2, <1>3, NoneIsNoRow DEF KeyRow
    <3> QED BY <1>2, <1>3, <3>1 DEF RecordedUnder
  <2>2. ASSUME NEW k \in Keys, k # r.key
        PROVE  RecordedUnder'[k] = RecordedUnder[k]
    <3>1. keyRow'[k] = keyRow[k]
      BY <1>3, <2>2
    <3>2. CASE keyRow[k] = None
      BY <3>1, <3>2 DEF RecordedUnder
    <3>3. CASE keyRow[k] # None
      <4>1. keyRow[k].trade \in Trades /\ completed[keyRow[k].trade] # None
        BY <3>3 DEF LedgerInv, TypeOK, KeyRow, KeysMatchTrades
      <4>2. completed'[keyRow[k].trade] = completed[keyRow[k].trade]
        BY <1>1, <1>3, <4>1
      <4> QED BY <3>1, <3>3, <4>2 DEF RecordedUnder
    <3> QED BY <3>2, <3>3
  <2>3. /\ RecordedUnder' = [k \in Keys |-> RecordedUnder'[k]]
        /\ RecordedUnder = [k \in Keys |-> RecordedUnder[k]]
    BY DEF RecordedUnder
  <2> DEFINE old == RecordedUnder
             new == RecordedUnder'
  <2> HIDE DEF old, new
  <2>4. \A k \in Keys : new[k] = [old EXCEPT ![r.key] = p][k]
    BY <2>1, <2>2, <2>3 DEF old, new
  <2> QED BY <2>3, <2>4 DEF old, new
<1>8. Ledger!Possible(p) /\ Ledger!Households = Households
      /\ \A x \in Households : Ledger!Movement(p, x) = Movement(p, x)
  BY <1>1, SameWords
<1>9. balance' = [x \in Ledger!Households |-> balance[x] + Ledger!Movement(p, x)]
  BY <1>5, <1>8
<1> QED BY <1>1, <1>4, <1>5, <1>6, <1>7, <1>8, <1>9
        DEF Ledger!Record, Ledger!Waiting, Ledger!Say, r

LEMMA FailImplements ==
  ASSUME LedgerInv, NEW h \in Handlers, Fail(h)
  PROVE  Ledger!Abandon(h)
BY LedgerUnseen DEF LedgerInv, Handling, Fail, ledgerVars, entryVars,
   Ledger!Abandon, Ledger!Waiting

LEMMA DeliverImplements ==
  ASSUME LedgerInv, NEW h \in Handlers, Deliver(h)
  PROVE  Ledger!Deliver(h)
BY LedgerUnseen DEF LedgerInv, Handling, Deliver, ledgerVars, entryVars, Ledger!Deliver

LEMMA OwnStepsStutter ==
  ASSUME NEW h \in Handlers, BeginRecording(h) \/ Claim(h) \/ LoseRace(h)
  PROVE  UNCHANGED Ledger!vars
BY LedgerUnseen DEF BeginRecording, Claim, LoseRace, ledgerVars, entryVars, Ledger!vars

LEMMA StepImplements == LedgerInv /\ [Next]_vars => [Ledger!Next]_(Ledger!vars)
<1> SUFFICES ASSUME LedgerInv, [Next]_vars
             PROVE  Ledger!Next \/ UNCHANGED Ledger!vars
  OBVIOUS
<1>1. CASE UNCHANGED vars
  BY <1>1, LedgerUnseen DEF vars, handlerVars, ledgerVars, entryVars, Ledger!vars
<1>2. ASSUME NEW h \in Handlers, HandlerStep(h)
      PROVE  Ledger!Next \/ UNCHANGED Ledger!vars
  <2>1. CASE Receive(h)
    BY <2>1, ReceiveImplements DEF Ledger!Next
  <2>2. CASE Reject(h)
    BY <2>2, RejectImplements DEF Ledger!Next
  <2>3. CASE FindReplay(h)
    BY <2>3, FindReplayImplements DEF Ledger!Next
  <2>4. CASE BeginRecording(h) \/ Claim(h) \/ LoseRace(h)
    BY <2>4, OwnStepsStutter
  <2>5. CASE RefuseTrade(h)
    BY <2>5, RefuseTradeImplements DEF Ledger!Next
  <2>6. CASE Commit(h)
    BY <2>6, CommitImplements DEF Ledger!Next
  <2>7. CASE Fail(h)
    BY <2>7, FailImplements DEF Ledger!Next
  <2>8. CASE Deliver(h)
    BY <2>8, DeliverImplements DEF Ledger!Next
  <2> QED BY <1>2, <2>1, <2>2, <2>3, <2>4, <2>5, <2>6, <2>7, <2>8 DEF HandlerStep, Work
<1> QED BY <1>1, <1>2 DEF Next, HandlerStep

(* Billing is an exactly-once ledger: whatever requests race, fail or come *)
(* again, it behaves as if each were answered in one step.                 *)
THEOREM ExactlyOnce == Spec => ImplementsLedger
BY InitImplements, StepImplements, LedgerInvariance, PTL
   DEF Spec, ImplementsLedger, Ledger!Spec

-----------------------------------------------------------------------------
(***************************************************************************)
(* The statistics of the books, read while trades are recorded.            *)
(***************************************************************************)
Recorded == {t \in Trades : completed[t] # None}

RecordedIsPossible == \A t \in Trades : completed[t] # None => Possible(completed[t].payload)

BookInv == LedgerInv /\ EntriesAreTrades /\ BalanceIsLedger /\ RecordedIsPossible

LEMMA FiniteTables ==
  /\ IsFiniteSet(Trades) /\ IsFiniteSet(Households)
  /\ Trades = 1 .. NTrades /\ Households = 1 .. NHouseholds
  /\ NTrades \in Nat /\ NHouseholds \in Nat
<1>1. NTrades \in Int /\ NHouseholds \in Int /\ 1 \in Int /\ NTrades \in Nat /\ NHouseholds \in Nat
  BY LedgerAssumption
<1> QED BY <1>1, FS_Interval DEF Trades, Households

(* What a recorded trade says. *)
LEMMA RecordedTrade ==
  ASSUME BookInv, NEW t \in Recorded
  PROVE  /\ t \in Trades
         /\ completed[t].payload.seller \in Households
         /\ completed[t].payload.buyer \in Households
         /\ completed[t].payload.seller # completed[t].payload.buyer
         /\ completed[t].payload.total \in Nat
<1>1. t \in Trades /\ completed[t] # None
  BY DEF Recorded
<1>2. completed[t] \in Request
  BY <1>1 DEF BookInv, LedgerInv, TypeOK
<1>3. completed[t].payload \in Payload
  BY <1>2, LedgerAssumption DEF Request
<1>4. Possible(completed[t].payload)
  BY <1>1 DEF BookInv, RecordedIsPossible
<1> QED BY <1>1, <1>3, <1>4 DEF Payload, Possible

(* The entries of both sides of any recorded trades add up to what the     *)
(* trades were worth.                                                      *)
Worth(T) == [t \in Trades |-> IF t \in T THEN completed[t].payload.total ELSE 0]
Credits(T) == [x \in Households |-> [t \in Trades |-> IF t \in T THEN credit[x][t] ELSE 0]]
Debits(T) == [x \in Households |-> [t \in Trades |-> IF t \in T THEN debit[x][t] ELSE 0]]

LEMMA EntriesOfBothSides ==
  ASSUME BookInv, NEW T \in SUBSET Recorded, NEW rows
  PROVE  /\ (\A x \in Households : rows[x] = SumOver(Credits(T)[x], Trades))
               => SumOver(rows, Households) = SumOver(Worth(T), Trades)
         /\ (\A x \in Households : rows[x] = SumOver(Debits(T)[x], Trades))
               => SumOver(rows, Households) = SumOver(Worth(T), Trades)
<1> DEFINE C == Credits(T)
           D == Debits(T)
           byTradeC == [t \in Trades |-> [x \in Households |-> C[x][t]]]
           byTradeD == [t \in Trades |-> [x \in Households |-> D[x][t]]]
<1>1. ASSUME NEW x \in Households, NEW t \in Trades
      PROVE  /\ C[x][t] = IF t \in T /\ x = completed[t].payload.seller
                          THEN completed[t].payload.total ELSE 0
             /\ D[x][t] = IF t \in T /\ x = completed[t].payload.buyer
                          THEN completed[t].payload.total ELSE 0
  BY DEF Credits, Debits, BookInv, EntriesAreTrades, Recorded
<1>2. \A t \in T : completed[t].payload.total \in Nat
                   /\ completed[t].payload.seller \in Households
                   /\ completed[t].payload.buyer \in Households
  BY RecordedTrade
<1>3. \A x \in Households, t \in Trades : C[x][t] \in Int /\ D[x][t] \in Int
  BY <1>1, <1>2
<1>4. ASSUME NEW t \in Trades
      PROVE  /\ Worth(T)[t] = SumOver(byTradeC[t], Households)
             /\ Worth(T)[t] = SumOver(byTradeD[t], Households)
  <2> DEFINE c == byTradeC[t]
             d == byTradeD[t]
             p == completed[t].payload
  <2>1. /\ \A x \in Households : c[x] = IF t \in T /\ x = p.seller THEN p.total ELSE 0
        /\ \A x \in Households : d[x] = IF t \in T /\ x = p.buyer THEN p.total ELSE 0
    BY <1>1
  <2>2. Worth(T)[t] = IF t \in T THEN p.total ELSE 0
    BY DEF Worth
  <2> HIDE DEF c, d
  <2>3. CASE t \notin T
    <3>1. SumOver(c, Households) = 0 /\ SumOver(d, Households) = 0
      BY <2>1, <2>3, FiniteTables, SumOverNothing
    <3> QED BY <2>2, <2>3, <3>1 DEF c, d
  <2>4. CASE t \in T
    <3>1. p.seller \in Households /\ p.buyer \in Households /\ p.total \in Nat
      BY <1>2, <2>4
    <3> HIDE DEF p
    <3>2. /\ c[p.seller] = p.total /\ \A x \in Households : x # p.seller => c[x] = 0
          /\ d[p.buyer] = p.total /\ \A x \in Households : x # p.buyer => d[x] = 0
      BY <2>1, <2>4, <3>1
    <3>3. SumOver(c, Households) = p.total
      BY <3>1, <3>2, FiniteTables, SumOverOne
    <3>4. SumOver(d, Households) = p.total
      BY <3>1, <3>2, FiniteTables, SumOverOne
    <3> QED BY <2>2, <2>4, <3>3, <3>4 DEF c, d
  <2> QED BY <2>3, <2>4
<1>8. \A x \in Households, t \in Trades : byTradeC[t][x] = C[x][t] /\ byTradeD[t][x] = D[x][t]
  OBVIOUS
<1> HIDE DEF C, D, byTradeC, byTradeD
<1>9. /\ AddUp(Worth(T), byTradeC, Trades, Households)
      /\ AddUp(Worth(T), byTradeD, Trades, Households)
  BY <1>4 DEF AddUp
<1>10. /\ Transposed(C, byTradeC, Households, Trades)
       /\ Transposed(D, byTradeD, Households, Trades)
  BY <1>3, <1>8 DEF Transposed
<1>5. ASSUME \A x \in Households : rows[x] = SumOver(C[x], Trades)
      PROVE  SumOver(rows, Households) = SumOver(Worth(T), Trades)
  <2>1. AddUp(rows, C, Households, Trades)
    BY <1>5 DEF AddUp
  <2> QED BY <1>9, <1>10, <2>1, FiniteTables, SumOverExchange
<1>6. ASSUME \A x \in Households : rows[x] = SumOver(D[x], Trades)
      PROVE  SumOver(rows, Households) = SumOver(Worth(T), Trades)
  <2>1. AddUp(rows, D, Households, Trades)
    BY <1>6 DEF AddUp
  <2> QED BY <1>9, <1>10, <2>1, FiniteTables, SumOverExchange
<1> QED BY <1>5, <1>6 DEF C, D

(* The figures of a window as sums. *)
LEMMA FiguresAreSums ==
  ASSUME BookInv, NEW w
  PROVE  /\ RecordedIn(w) \in SUBSET Recorded /\ CompletedIn(w) \in SUBSET Recorded
         /\ \A x \in Households :
               /\ CreditOf(x, w) = SumOver(Credits(RecordedIn(w))[x], Trades)
               /\ DebitOf(x, w) = SumOver(Debits(RecordedIn(w))[x], Trades)
               /\ CreditOf(x, w) \in Nat /\ DebitOf(x, w) \in Nat
         /\ \A T \in SUBSET Recorded : /\ Volume(T) = SumOver(Worth(T), Trades)
                                       /\ Volume(T) \in Nat
<1>1. RecordedIn(w) \in SUBSET Recorded /\ CompletedIn(w) \in SUBSET Recorded
  BY DEF RecordedIn, CompletedIn, Recorded
<1>2. ASSUME NEW x \in Households
      PROVE  /\ CreditOf(x, w) = SumOver(Credits(RecordedIn(w))[x], Trades)
             /\ DebitOf(x, w) = SumOver(Debits(RecordedIn(w))[x], Trades)
             /\ CreditOf(x, w) \in Nat /\ DebitOf(x, w) \in Nat
  <2> DEFINE c == Credits(RecordedIn(w))[x]
             d == Debits(RecordedIn(w))[x]
  <2>1. c \in [1 .. NTrades -> Nat] /\ d \in [1 .. NTrades -> Nat]
    BY FiniteTables DEF Credits, Debits, BookInv, LedgerInv, TypeOK
  <2>2. CreditOf(x, w) = Total(c, NTrades) /\ DebitOf(x, w) = Total(d, NTrades)
    BY DEF CreditOf, DebitOf, Credits, Debits
  <2> HIDE DEF c, d
  <2>3. Total(c, NTrades) = SumOver(c, Trades) /\ Total(d, NTrades) = SumOver(d, Trades)
    BY <2>1, FiniteTables, TotalIsSum
  <2>4. Total(c, NTrades) \in Nat /\ Total(d, NTrades) \in Nat
    BY <2>1, FiniteTables, TotalIsNatural
  <2> QED BY <2>2, <2>3, <2>4 DEF c, d
<1>3. ASSUME NEW T \in SUBSET Recorded
      PROVE  Volume(T) = SumOver(Worth(T), Trades) /\ Volume(T) \in Nat
  <2>1. \A t \in T : completed[t].payload.total \in Nat
    BY RecordedTrade
  <2>2. Worth(T) \in [1 .. NTrades -> Nat]
    BY <2>1, FiniteTables DEF Worth
  <2>3. Volume(T) = Total(Worth(T), NTrades)
    BY DEF Volume, Worth
  <2> QED BY <2>2, <2>3, FiniteTables, TotalIsSum, TotalIsNatural
<1> QED BY <1>1, <1>2, <1>3

(* The ledger's two columns agree, with each other and with the trades.    *)
LEMMA ColumnsAgree ==
  ASSUME BookInv, NEW w
  PROVE  /\ LedgerRow(w).credited = Volume(RecordedIn(w))
         /\ LedgerRow(w).debited = Volume(RecordedIn(w))
<1> DEFINE c == [x \in Households |-> CreditOf(x, w)]
           d == [x \in Households |-> DebitOf(x, w)]
<1>1. c \in [1 .. NHouseholds -> Nat] /\ d \in [1 .. NHouseholds -> Nat]
  BY FiguresAreSums, FiniteTables
<1>2. /\ \A x \in Households : c[x] = SumOver(Credits(RecordedIn(w))[x], Trades)
      /\ \A x \in Households : d[x] = SumOver(Debits(RecordedIn(w))[x], Trades)
  BY FiguresAreSums
<1>3. LedgerRow(w).credited = Total(c, NHouseholds) /\ LedgerRow(w).debited = Total(d, NHouseholds)
  BY DEF LedgerRow, OverHouseholds
<1> HIDE DEF c, d
<1>4. Total(c, NHouseholds) = SumOver(c, Households) /\ Total(d, NHouseholds) = SumOver(d, Households)
  BY <1>1, FiniteTables, TotalIsSum
<1>5. RecordedIn(w) \in SUBSET Recorded
      /\ Volume(RecordedIn(w)) = SumOver(Worth(RecordedIn(w)), Trades)
  BY FiguresAreSums
<1>6. SumOver(c, Households) = SumOver(Worth(RecordedIn(w)), Trades)
  BY <1>2, <1>5, EntriesOfBothSides
<1>7. SumOver(d, Households) = SumOver(Worth(RecordedIn(w)), Trades)
  BY <1>2, <1>5, EntriesOfBothSides
<1> QED BY <1>3, <1>4, <1>5, <1>6, <1>7

(* What some households are owed is what the others owe. *)
LEMMA OwedIsOwing ==
  ASSUME BookInv
  PROVE  BalanceRow.totalCredit = BalanceRow.totalDebit
<1> DEFINE above == [x \in Households |-> IF balance[x] > 0 THEN balance[x] ELSE 0]
           below == [x \in Households |-> IF balance[x] < 0 THEN -balance[x] ELSE 0]
           c == [x \in Households |-> Total(credit[x], NTrades)]
           d == [x \in Households |-> Total(debit[x], NTrades)]
<1>1. \A x \in Households : balance[x] \in Int
  BY DEF BookInv, LedgerInv, TypeOK
<1>2. above \in [1 .. NHouseholds -> Nat] /\ below \in [1 .. NHouseholds -> Nat]
  BY <1>1, FiniteTables
<1>3. ASSUME NEW x \in Households
      PROVE  /\ c[x] = SumOver(Credits(Recorded)[x], Trades)
             /\ d[x] = SumOver(Debits(Recorded)[x], Trades)
             /\ c[x] \in Int /\ d[x] \in Int
  <2>1. /\ credit[x] \in [1 .. NTrades -> Nat] /\ debit[x] \in [1 .. NTrades -> Nat]
    BY FiniteTables DEF BookInv, LedgerInv, TypeOK
  <2>2. \A t \in Trades : t \notin Recorded => credit[x][t] = 0 /\ debit[x][t] = 0
    BY DEF BookInv, EntriesAreTrades, Recorded
  <2>3. credit[x] = Credits(Recorded)[x] /\ debit[x] = Debits(Recorded)[x]
    <3>1. /\ \A t \in Trades : Credits(Recorded)[x][t] = credit[x][t]
          /\ \A t \in Trades : Debits(Recorded)[x][t] = debit[x][t]
      BY <2>2 DEF Credits, Debits
    <3>2. /\ Credits(Recorded)[x] = [t \in Trades |-> Credits(Recorded)[x][t]]
          /\ Debits(Recorded)[x] = [t \in Trades |-> Debits(Recorded)[x][t]]
      BY DEF Credits, Debits
    <3>3. /\ credit[x] = [t \in Trades |-> credit[x][t]] /\ debit[x] = [t \in Trades |-> debit[x][t]]
      BY <2>1, FiniteTables
    <3> QED BY <3>1, <3>2, <3>3
  <2>4. /\ Total(credit[x], NTrades) = SumOver(credit[x], Trades)
        /\ Total(debit[x], NTrades) = SumOver(debit[x], Trades)
        /\ Total(credit[x], NTrades) \in Nat /\ Total(debit[x], NTrades) \in Nat
    BY <2>1, FiniteTables, TotalIsSum, TotalIsNatural
  <2>5. c[x] = Total(credit[x], NTrades) /\ d[x] = Total(debit[x], NTrades)
    OBVIOUS
  <2> HIDE DEF c, d
  <2> QED BY <2>3, <2>4, <2>5
<1>4. \A x \in Households : balance[x] = c[x] - d[x] /\ balance[x] = above[x] - below[x]
                            /\ above[x] \in Int /\ below[x] \in Int
  BY <1>1 DEF BookInv, BalanceIsLedger
<1>5. BalanceRow.totalCredit = Total(above, NHouseholds)
      /\ BalanceRow.totalDebit = Total(below, NHouseholds)
  BY DEF BalanceRow, OverHouseholds
<1> HIDE DEF above, below, c, d
<1>6. Recorded \in SUBSET Recorded
  OBVIOUS
<1>7. SumOver(c, Households) = SumOver(d, Households)
  BY <1>3, <1>6, EntriesOfBothSides
<1>8. SumOver(balance, Households) = SumOver(c, Households) - SumOver(d, Households)
  <2>1. \A x \in Households : c[x] \in Int /\ d[x] \in Int /\ balance[x] = c[x] - d[x]
    BY <1>3, <1>4
  <2> QED BY ONLY <2>1, FiniteTables, SumOverMinus
<1>9. SumOver(balance, Households) = SumOver(above, Households) - SumOver(below, Households)
  BY <1>4, FiniteTables, SumOverMinus
<1>10. /\ SumOver(above, Households) \in Int /\ SumOver(below, Households) \in Int
       /\ SumOver(c, Households) \in Int /\ SumOver(d, Households) \in Int
  BY <1>3, <1>4, FiniteTables, SumOverType
<1>11. SumOver(above, Households) = SumOver(below, Households)
  BY <1>7, <1>8, <1>9, <1>10
<1> QED BY <1>2, <1>5, <1>11, FiniteTables, TotalIsSum

(* There are two entries for each recorded trade. *)
LEMMA TwoEntriesEach ==
  ASSUME BookInv, NEW w
  PROVE  /\ LedgerRow(w).entries = 2 * Cardinality(RecordedIn(w))
         /\ Cardinality(RecordedIn(w)) \in Nat
<1> DEFINE R == RecordedIn(w)
           F == [x \in Households |-> [t \in Trades |-> IF t \in EntriesOf(x, w) THEN 1 ELSE 0]]
           G == [t \in Trades |-> [x \in Households |-> IF t \in EntriesOf(x, w) THEN 1 ELSE 0]]
           one == [t \in Trades |-> IF t \in R THEN 1 ELSE 0]
           two == [t \in Trades |-> IF t \in R THEN 2 ELSE 0]
           count == [x \in Households |-> Cardinality(EntriesOf(x, w))]
           P(t) == {completed[t].payload.seller, completed[t].payload.buyer}
<1>1. R \in SUBSET Recorded /\ R \in SUBSET Trades
  BY DEF RecordedIn, Recorded
<1>2. \A x \in Households : EntriesOf(x, w) \in SUBSET Trades /\ IsFiniteSet(EntriesOf(x, w))
  <2>1. \A x \in Households : EntriesOf(x, w) \in SUBSET Trades
    BY DEF EntriesOf, RecordedIn
  <2> QED BY <2>1, FiniteTables, FS_Subset
<1>3. IsFiniteSet(R) /\ Cardinality(R) \in Nat
  <2> HIDE DEF R
  <2> QED BY <1>1, FiniteTables, FS_Subset, FS_CardinalityType
<1>4. \A x \in Households : \A t \in Trades :
          t \in EntriesOf(x, w) <=> t \in R /\ x \in P(t)
  BY DEF EntriesOf
<1>5. \A t \in R : P(t) \in SUBSET Households /\ IsFiniteSet(P(t)) /\ Cardinality(P(t)) = 2
  <2>1. SUFFICES ASSUME NEW t \in R
                 PROVE  P(t) \in SUBSET Households /\ IsFiniteSet(P(t)) /\ Cardinality(P(t)) = 2
    OBVIOUS
  <2> DEFINE a == completed[t].payload.seller
             b == completed[t].payload.buyer
  <2>2. a \in Households /\ b \in Households /\ a # b
    BY <1>1, <2>1, RecordedTrade
  <2> HIDE DEF a, b
  <2>3. IsFiniteSet({a}) /\ Cardinality({a}) = 1
    BY FS_Singleton
  <2>4. IsFiniteSet({a} \cup {b}) /\ Cardinality({a} \cup {b}) = 1 + 1
    BY <2>2, <2>3, FS_AddElement
  <2>5. {a} \cup {b} = {a, b}
    OBVIOUS
  <2>6. {a, b} \in SUBSET Households /\ IsFiniteSet({a, b}) /\ Cardinality({a, b}) = 2
    BY <2>2, <2>4, <2>5
  <2> QED BY <2>6 DEF a, b
<1>6. Transposed(F, G, Households, Trades)
  BY DEF Transposed
<1>7. AddUp(count, F, Households, Trades)
  <2>1. SUFFICES ASSUME NEW x \in Households PROVE count[x] = SumOver(F[x], Trades)
    BY DEF AddUp
  <2>2. \A t \in Trades : F[x][t] = IF t \in EntriesOf(x, w) THEN 1 ELSE 0
    OBVIOUS
  <2>3. count[x] = Cardinality(EntriesOf(x, w))
    OBVIOUS
  <2> HIDE DEF F, count
  <2> QED BY <1>2, <2>2, <2>3, FiniteTables, CountIsSum
<1>8. AddUp(two, G, Trades, Households)
  <2>1. SUFFICES ASSUME NEW t \in Trades PROVE two[t] = SumOver(G[t], Households)
    BY DEF AddUp
  <2>2. CASE t \in R
    <3>1. \A x \in Households : G[t][x] = IF x \in P(t) THEN 1 ELSE 0
      BY <1>4, <2>2
    <3>2. two[t] = 2
      BY <2>2
    <3>3. P(t) \in SUBSET Households /\ Cardinality(P(t)) = 2
      BY <1>5, <2>2
    <3> HIDE DEF G, P, two
    <3> QED BY <3>1, <3>2, <3>3, FiniteTables, CountIsSum
  <2>3. CASE t \notin R
    <3>1. \A x \in Households : G[t][x] = 0
      BY <1>4, <2>3
    <3>2. two[t] = 0
      BY <2>3
    <3> HIDE DEF G, two
    <3> QED BY <3>1, <3>2, FiniteTables, SumOverNothing
  <2> QED BY <2>2, <2>3
<1>9. SumOver(two, Trades) = SumOver(one, Trades) + SumOver(one, Trades)
  <2>1. \A t \in Trades : one[t] \in Int /\ two[t] = one[t] + one[t]
    OBVIOUS
  <2> HIDE DEF one, two
  <2> QED BY <2>1, FiniteTables, SumOverPlus
<1>10. SumOver(one, Trades) = Cardinality(R)
  <2>1. \A t \in Trades : one[t] = IF t \in R THEN 1 ELSE 0
    OBVIOUS
  <2> HIDE DEF one, R
  <2> QED BY <1>1, <2>1, FiniteTables, CountIsSum
<1>11. count \in [1 .. NHouseholds -> Nat] /\ LedgerRow(w).entries = Total(count, NHouseholds)
  <2>1. \A x \in Households : Cardinality(EntriesOf(x, w)) \in Nat
    BY <1>2, FS_CardinalityType
  <2> QED BY <2>1, FiniteTables DEF LedgerRow, OverHouseholds
<1> HIDE DEF F, G, one, two, count, R, P
<1>12. SumOver(count, Households) = SumOver(two, Trades)
  BY <1>6, <1>7, <1>8, FiniteTables, SumOverExchange
<1>13. LedgerRow(w).entries = SumOver(count, Households)
  BY <1>11, FiniteTables, TotalIsSum
<1>14. LedgerRow(w).entries = 2 * Cardinality(R)
  BY <1>3, <1>9, <1>10, <1>12, <1>13
<1> QED BY <1>3, <1>14 DEF R

(* The households' nets cancel out. *)
LEMMA NetsAreNothing ==
  ASSUME BookInv
  PROVE  NetsCancelOut
<1> SUFFICES ASSUME NEW w \in Windows
             PROVE  FoldFunction(+, 0, [x \in DOMAIN HouseholdRows(w) |-> HouseholdRows(w)[x].net]) = 0
  BY DEF NetsCancelOut
<1> DEFINE Having == {y \in Households : EntriesOf(y, w) # {}}
           net == [x \in DOMAIN HouseholdRows(w) |-> HouseholdRows(w)[x].net]
           every == [x \in Households |-> CreditOf(x, w) - DebitOf(x, w)]
           c == [x \in Households |-> CreditOf(x, w)]
           d == [x \in Households |-> DebitOf(x, w)]
<1>1. DOMAIN net = Having /\ \A x \in Having : net[x] = every[x]
  BY DEF HouseholdRows
<1>2. \A x \in Households : c[x] \in Int /\ d[x] \in Int /\ every[x] = c[x] - d[x]
                            /\ c[x] = SumOver(Credits(RecordedIn(w))[x], Trades)
                            /\ d[x] = SumOver(Debits(RecordedIn(w))[x], Trades)
  BY FiguresAreSums
<1>3. ASSUME NEW x \in Households, x \notin Having PROVE every[x] = 0
  <2>1. \A t \in RecordedIn(w) : t \in Trades /\ completed[t] # None
                                 /\ x # completed[t].payload.seller /\ x # completed[t].payload.buyer
    BY <1>3 DEF EntriesOf, RecordedIn
  <2>2. \A t \in Trades : /\ Credits(RecordedIn(w))[x][t] = 0
                          /\ Debits(RecordedIn(w))[x][t] = 0
    BY <2>1 DEF Credits, Debits, BookInv, EntriesAreTrades
  <2> DEFINE cr == Credits(RecordedIn(w))[x]
             de == Debits(RecordedIn(w))[x]
  <2>3. \A t \in Trades : cr[t] = 0 /\ de[t] = 0
    BY <2>2
  <2> HIDE DEF cr, de
  <2>4. SumOver(cr, Trades) = 0 /\ SumOver(de, Trades) = 0
    BY <2>3, FiniteTables, SumOverNothing
  <2>5. c[x] = 0 /\ d[x] = 0
    BY <1>2, <2>4 DEF cr, de
  <2> HIDE DEF c, d, every
  <2> QED BY <1>2, <2>5
<1>4. FoldFunction(+, 0, net) = SumOver(net, Having)
  <2> HIDE DEF net, Having
  <2> QED BY <1>1, FoldFunctionIsSumOver
<1>5. Having \in SUBSET Households /\ IsFiniteSet(Having)
  <2>1. Having \in SUBSET Households
    OBVIOUS
  <2> HIDE DEF Having
  <2> QED BY <2>1, FiniteTables, FS_Subset
<1> HIDE DEF Having, net, every, c, d
<1>6. SumOver(net, Having) = SumOver(every, Having)
  BY <1>1, <1>5, SumOverSame
<1>7. \A x \in Households : every[x] \in Int
  BY <1>2
<1>8. SumOver(every, Households) = SumOver(every, Having)
  BY ONLY <1>3, <1>5, <1>7, FiniteTables, SumOverSome
<1>9. SumOver(every, Households) = SumOver(c, Households) - SumOver(d, Households)
  <2>1. \A x \in Households : c[x] \in Int /\ d[x] \in Int /\ every[x] = c[x] - d[x]
    BY <1>2
  <2> QED BY ONLY <2>1, FiniteTables, SumOverMinus
<1>10. RecordedIn(w) \in SUBSET Recorded
  BY FiguresAreSums
<1>11. SumOver(c, Households) = SumOver(d, Households) /\ SumOver(c, Households) \in Int
  <2>1. SumOver(c, Households) = SumOver(Worth(RecordedIn(w)), Trades)
    BY <1>2, <1>10, EntriesOfBothSides
  <2>2. SumOver(d, Households) = SumOver(Worth(RecordedIn(w)), Trades)
    BY <1>2, <1>10, EntriesOfBothSides
  <2>3. \A x \in Households : c[x] \in Int
    BY <1>2
  <2>4. SumOver(c, Households) \in Int
    BY <2>3, FiniteTables, SumOverType
  <2> QED BY <2>1, <2>2, <2>4
<1>12. SumOver(net, Having) = 0
  BY <1>6, <1>8, <1>9, <1>11
<1>13. FoldFunction(+, 0, net) = 0
  BY <1>4, <1>12
<1> QED BY <1>13 DEF net

(* A trade is in one bucket of a trend. *)
LEMMA OneBucketEach ==
  ASSUME BookInv, NEW w \in Windows, NEW amount, \A t \in Trades : amount[t] \in Nat,
         NEW sums,
         NEW F, F = [h \in w.from .. w.to - 1 |->
                        [t \in Trades |-> IF t \in Bucket(w, h) THEN amount[t] ELSE 0]],
         AddUp(sums, F, w.from .. w.to - 1, Trades),
         NEW all, \A t \in Trades : all[t] = IF t \in CompletedIn(w) THEN amount[t] ELSE 0
  PROVE  SumOver(sums, w.from .. w.to - 1) = SumOver(all, Trades)
<1> DEFINE H == w.from .. w.to - 1
           G == [t \in Trades |-> [h \in H |-> IF t \in Bucket(w, h) THEN amount[t] ELSE 0]]
<1>1. w.from \in Int /\ w.to \in Int /\ w.to - 1 \in Int
  BY DEF Windows
<1>2. IsFiniteSet(H)
  BY <1>1, FS_Interval
<1>3. Transposed(F, G, H, Trades)
  BY DEF Transposed
<1>4. AddUp(all, G, Trades, H)
  <2>1. SUFFICES ASSUME NEW t \in Trades PROVE all[t] = SumOver(G[t], H)
    BY DEF AddUp
  <2>2. CASE t \in CompletedIn(w)
    <3>1. CompletedAt[t] \in H
      BY <1>1, <2>2, BooksAssumption, WindowsAssumption DEF CompletedIn, InWindow
    <3>2. G[t][CompletedAt[t]] = amount[t] /\ \A h \in H : h # CompletedAt[t] => G[t][h] = 0
      BY <2>2, <3>1 DEF Bucket
    <3>3. all[t] = amount[t] /\ amount[t] \in Int
      BY <2>2
    <3> HIDE DEF G, H
    <3>4. SumOver(G[t], H) = G[t][CompletedAt[t]]
      BY <1>2, <3>1, <3>2, <3>3, SumOverOne
    <3> QED BY <3>2, <3>3, <3>4
  <2>3. CASE t \notin CompletedIn(w)
    <3>1. \A h \in H : G[t][h] = 0
      BY <2>3 DEF Bucket
    <3>2. all[t] = 0
      BY <2>3
    <3> HIDE DEF G, H
    <3> QED BY <1>2, <3>1, <3>2, SumOverNothing
  <2> QED BY <2>2, <2>3
<1>5. AddUp(sums, F, H, Trades)
  OBVIOUS
<1>6. SumOver(sums, H) = SumOver(all, Trades)
  <2> HIDE DEF G, H
  <2> QED BY <1>2, <1>3, <1>4, <1>5, FiniteTables, SumOverExchange
<1> QED BY <1>6

LEMMA TrendsAddUp ==
  ASSUME BookInv
  PROVE  TrendAddsUp
<1> SUFFICES ASSUME NEW w \in Windows
      PROVE  /\ FoldFunction(+, 0, [h \in DOMAIN Trend(w) |-> Trend(w)[h].trades]) = TradeRow(w).trades
             /\ FoldFunction(+, 0, [h \in DOMAIN Trend(w) |-> Trend(w)[h].volume]) = TradeRow(w).volume
  BY DEF TrendAddsUp
<1> DEFINE H == w.from .. w.to - 1
           counts == [h \in DOMAIN Trend(w) |-> Trend(w)[h].trades]
           volumes == [h \in DOMAIN Trend(w) |-> Trend(w)[h].volume]
           ones == [t \in Trades |-> 1]
           worth == Worth(CompletedIn(w))
           has == [t \in Trades |-> IF t \in CompletedIn(w) THEN 1 ELSE 0]
           byCount == [h \in H |-> [t \in Trades |-> IF t \in Bucket(w, h) THEN ones[t] ELSE 0]]
           byWorth == [h \in H |-> [t \in Trades |-> IF t \in Bucket(w, h) THEN worth[t] ELSE 0]]
<1>1. /\ DOMAIN counts = H /\ DOMAIN volumes = H
      /\ \A h \in H : counts[h] = Cardinality(Bucket(w, h)) /\ volumes[h] = Volume(Bucket(w, h))
  BY DEF Trend
<1>2. CompletedIn(w) \in SUBSET Recorded /\ CompletedIn(w) \in SUBSET Trades
  BY DEF CompletedIn, Recorded
<1>3. \A h \in H : Bucket(w, h) \in SUBSET CompletedIn(w)
  BY DEF Bucket
<1>4. \A t \in Trades : ones[t] \in Nat /\ worth[t] \in Nat
  <2>1. \A t \in CompletedIn(w) : completed[t].payload.total \in Nat
    BY <1>2, RecordedTrade
  <2> QED BY <2>1 DEF Worth
<1>5. AddUp(counts, byCount, H, Trades)
  <2>1. SUFFICES ASSUME NEW h \in H PROVE counts[h] = SumOver(byCount[h], Trades)
    BY DEF AddUp
  <2>2. \A t \in Trades : byCount[h][t] = IF t \in Bucket(w, h) THEN 1 ELSE 0
    OBVIOUS
  <2>3. counts[h] = Cardinality(Bucket(w, h)) /\ Bucket(w, h) \in SUBSET Trades
    BY <1>1, <1>2, <1>3
  <2> HIDE DEF byCount, counts
  <2> QED BY <2>2, <2>3, FiniteTables, CountIsSum
<1>6. AddUp(volumes, byWorth, H, Trades)
  <2>1. SUFFICES ASSUME NEW h \in H PROVE volumes[h] = SumOver(byWorth[h], Trades)
    BY DEF AddUp
  <2>2. Bucket(w, h) \in SUBSET CompletedIn(w) /\ Bucket(w, h) \in SUBSET Recorded
    BY <1>2, <1>3
  <2>3. volumes[h] = Volume(Bucket(w, h))
    BY <1>1
  <2>4. \A t \in Trades : byWorth[h][t] = Worth(Bucket(w, h))[t]
    BY <2>2 DEF Worth
  <2>5. Volume(Bucket(w, h)) = SumOver(Worth(Bucket(w, h)), Trades)
    BY <2>2, FiguresAreSums
  <2> HIDE DEF byWorth, volumes
  <2> QED BY <2>3, <2>4, <2>5, FiniteTables, SumOverSame
<1>7. SumOver(counts, H) = SumOver(has, Trades)
  <2>1. \A t \in Trades : has[t] = IF t \in CompletedIn(w) THEN ones[t] ELSE 0
    OBVIOUS
  <2>2. byCount = [h \in w.from .. w.to - 1 |->
                      [t \in Trades |-> IF t \in Bucket(w, h) THEN ones[t] ELSE 0]]
    OBVIOUS
  <2>3. AddUp(counts, byCount, w.from .. w.to - 1, Trades)
    BY <1>5
  <2>4. \A t \in Trades : ones[t] \in Nat
    BY <1>4
  <2>5. SumOver(counts, w.from .. w.to - 1) = SumOver(has, Trades)
    <3> HIDE DEF counts, has, byCount, ones
    <3> QED BY <2>1, <2>2, <2>3, <2>4, OneBucketEach
  <2> QED BY <2>5
<1>8. SumOver(volumes, H) = SumOver(worth, Trades)
  <2>1. \A t \in Trades : worth[t] = IF t \in CompletedIn(w) THEN worth[t] ELSE 0
    BY DEF Worth
  <2>2. byWorth = [h \in w.from .. w.to - 1 |->
                      [t \in Trades |-> IF t \in Bucket(w, h) THEN worth[t] ELSE 0]]
    OBVIOUS
  <2>3. AddUp(volumes, byWorth, w.from .. w.to - 1, Trades)
    BY <1>6
  <2>4. \A t \in Trades : worth[t] \in Nat
    BY <1>4
  <2>5. SumOver(volumes, w.from .. w.to - 1) = SumOver(worth, Trades)
    <3> HIDE DEF volumes, worth, byWorth
    <3> QED BY <2>1, <2>2, <2>3, <2>4, OneBucketEach
  <2> QED BY <2>5
<1>9. SumOver(has, Trades) = Cardinality(CompletedIn(w))
  <2>1. \A t \in Trades : has[t] = IF t \in CompletedIn(w) THEN 1 ELSE 0
    OBVIOUS
  <2> HIDE DEF has
  <2> QED BY <1>2, <2>1, FiniteTables, CountIsSum
<1>10. SumOver(worth, Trades) = Volume(CompletedIn(w))
  BY <1>2, FiguresAreSums
<1>11. TradeRow(w).trades = Cardinality(CompletedIn(w)) /\ TradeRow(w).volume = Volume(CompletedIn(w))
  BY DEF TradeRow
<1>12. FoldFunction(+, 0, counts) = SumOver(counts, H) /\ FoldFunction(+, 0, volumes) = SumOver(volumes, H)
  <2> HIDE DEF counts, volumes, H
  <2> QED BY <1>1, FoldFunctionIsSumOver
<1>13. FoldFunction(+, 0, counts) = TradeRow(w).trades /\ FoldFunction(+, 0, volumes) = TradeRow(w).volume
  <2> HIDE DEF counts, volumes, H, has, worth
  <2> QED BY <1>7, <1>8, <1>9, <1>10, <1>11, <1>12
<1> QED BY <1>13 DEF counts, volumes

-----------------------------------------------------------------------------
(* While the ledger moves: what has been recorded stays, with its date.    *)
DatesInv ==
    /\ hour \in 0 .. Hours - 1
    /\ \A h \in Handlers : claimed[h] >= 3 => inserted[h] \in 0 .. Hours - 1
    /\ createdAt \in [Trades -> 0 .. Hours]
    /\ \A t \in Recorded : createdAt[t] \in 0 .. Hours - 1

Keeps ==
    /\ \A t \in Trades : completed[t] # None =>
          completed'[t] = completed[t] /\ createdAt'[t] = createdAt[t]

Partners == {x \in Households : \E t \in Recorded :
                x \in {completed[t].payload.seller, completed[t].payload.buyer}}
Value == Volume(Recorded)

LEMMA BookInvInit == StatInit => BookInv /\ DatesInv
<1> SUFFICES ASSUME StatInit PROVE BookInv /\ DatesInv
  OBVIOUS
<1>1. LedgerInv /\ EntriesAreTrades /\ BalanceIsLedger
  BY LedgerInvInit, EntriesAreTradesInit, BalanceIsLedgerInit DEF StatInit
<1>2. RecordedIsPossible
  BY LedgerAssumption DEF StatInit, Init, RecordedIsPossible
<1>3. \A h \in Handlers : claimed[h] = 0
  BY DEF StatInit, Init
<1>4. \A t \in Trades : CompletedAt[t] \in 0 .. Hours - 1
  BY BooksAssumption
<1>5. \A t \in Trades : /\ createdAt[t] = IF completed[t] = None THEN Hours ELSE CompletedAt[t]
  BY DEF StatInit, Init, NotYet
<1>6. createdAt = [t \in Trades |-> createdAt[t]]
  BY DEF StatInit
<1>7. Hours \in Nat
  BY WindowsAssumption
<1>8. createdAt \in [Trades -> 0 .. Hours]
  <2>1. \A t \in Trades : createdAt[t] \in 0 .. Hours
    BY <1>4, <1>5, <1>7
  <2> QED BY <1>6, <2>1
<1>9. DatesInv
  BY <1>3, <1>4, <1>5, <1>8 DEF DatesInv, StatInit, Recorded
<1> QED BY <1>1, <1>2, <1>9 DEF BookInv

(* Only a commit of its own goes from recording to answered. *)
LEMMA CommitsIsCommit ==
  ASSUME LedgerInv, NEW h \in Handlers, HandlerStep(h), NEW g \in Handlers, Commits(g)
  PROVE  g = h /\ Commit(h)
<1>1. g = h
  BY OthersStay DEF Commits, LedgerInv
<1> USE DEF LedgerInv, TypeOK, Commits
<1>2. CASE Receive(h)
  BY <1>1, <1>2 DEF Receive
<1>3. CASE Reject(h) \/ RefuseTrade(h) \/ FindReplay(h) \/ BeginRecording(h)
  BY <1>1, <1>3 DEF Reject, RefuseTrade, FindReplay, BeginRecording
<1>4. CASE Claim(h)
  BY <1>1, <1>4 DEF Claim
<1>5. CASE LoseRace(h)
  BY <1>1, <1>5 DEF LoseRace
<1>6. CASE Commit(h)
  BY <1>1, <1>6
<1>7. CASE Fail(h) \/ Deliver(h)
  BY <1>1, <1>7 DEF Fail, Deliver
<1> QED BY <1>2, <1>3, <1>4, <1>5, <1>6, <1>7 DEF HandlerStep, Work

LEMMA RecordedIsPossibleStep ==
  ASSUME LedgerInv, RecordedIsPossible, NEW h \in Handlers, HandlerStep(h)
  PROVE  RecordedIsPossible'
<1>1. CASE ~ Commit(h)
  BY <1>1, LedgerStays DEF RecordedIsPossible
<1>2. CASE Commit(h)
  <2> SUFFICES ASSUME NEW t \in Trades, completed'[t] # None PROVE Possible(completed'[t].payload)
    BY DEF RecordedIsPossible, Possible
  <2>1. CASE t = request[h].payload.trade
    BY <1>2, <2>1, CommitPairs, CommitIsNew
  <2>2. CASE t # request[h].payload.trade
    BY <1>2, <2>2, CommitPairs DEF RecordedIsPossible
  <2> QED BY <2>1, <2>2
<1> QED BY <1>1, <1>2

LEMMA LedgerMoves ==
  ASSUME BookInv, DatesInv, LedgerStep
  PROVE  BookInv' /\ DatesInv' /\ Keeps
<1>1. PICK h \in Handlers : HandlerStep(h)
  BY DEF LedgerStep, Next, HandlerStep
<1>2. LedgerInv /\ [Next]_vars
  BY DEF BookInv, LedgerStep
<1>3. BookInv'
  BY <1>1, <1>2, LedgerInvStep, BooksStep, RecordedIsPossibleStep DEF BookInv
<1>4. ASSUME NEW g \in Handlers, claimed'[g] >= 3
      PROVE  inserted'[g] \in 0 .. Hours - 1
  <2>1. claimed[g] \in 0 .. 5 /\ claimed'[g] \in 0 .. 5
    BY <1>2, <1>3 DEF BookInv, LedgerInv, TypeOK, LastRow
  <2>2. claimed'[g] = 0 \/ claimed'[g] = claimed[g] \/ claimed'[g] = claimed[g] + 1
    <3>1. CASE g # h
      BY <1>1, <1>2, <3>1, OthersStay DEF LedgerInv
    <3>2. CASE g = h /\ ~ Claim(h)
      BY <1>1, <1>2, <3>2, RowsGrowByClaim
    <3>3. CASE g = h /\ Claim(h)
      BY <1>2, <3>3 DEF Claim, LedgerInv, TypeOK
    <3> QED BY <3>1, <3>2, <3>3
  <2>3. inserted'[g] = IF claimed[g] < 3 /\ claimed'[g] = 3 THEN hour
                       ELSE IF claimed'[g] = 0 THEN NotYet ELSE inserted[g]
    BY DEF LedgerStep
  <2>4. claimed[g] < 3 => claimed'[g] = 3
    BY <1>4, <2>1, <2>2
  <2> QED BY <1>4, <2>1, <2>3, <2>4 DEF DatesInv
<1>5. ASSUME NEW t \in Trades
      PROVE  createdAt'[t] = IF Commit(h) /\ request[h].payload.trade = t
                             THEN inserted[h] ELSE createdAt[t]
  <2>1. createdAt'[t] = IF \E g \in Handlers : Commits(g) /\ request[g].payload.trade = t
                        THEN inserted[CHOOSE g \in Handlers : Commits(g)] ELSE createdAt[t]
    BY DEF LedgerStep
  <2>2. \A g \in Handlers : Commits(g) => g = h /\ Commit(h)
    BY <1>1, <1>2, CommitsIsCommit
  <2>3. Commit(h) => Commits(h)
    BY <1>2 DEF Commit, Commits, LedgerInv, TypeOK
  <2> QED BY <2>1, <2>2, <2>3
<1>6. ASSUME NEW t \in Trades, completed[t] # None
      PROVE  completed'[t] = completed[t] /\ createdAt'[t] = createdAt[t]
  BY <1>1, <1>2, <1>5, <1>6, TakenStays, CommitIsNew
<1>7. createdAt' \in [Trades -> 0 .. Hours] /\ \A t \in Recorded' : createdAt'[t] \in 0 .. Hours - 1
  <2>1. Commit(h) => inserted[h] \in 0 .. Hours - 1
    BY DEF Commit, DatesInv, LastRow
  <2>2. \A t \in Trades : createdAt'[t] \in 0 .. Hours
    BY <1>5, <2>1, WindowsAssumption DEF DatesInv
  <2>3. ASSUME NEW t \in Trades, completed'[t] # None
        PROVE  createdAt'[t] \in 0 .. Hours - 1
    <3>1. CASE completed[t] # None
      BY <1>6, <3>1 DEF DatesInv, Recorded
    <3>2. CASE completed[t] = None
      <4>1. Commit(h)
        BY <1>1, <2>3, <3>2, LedgerStays
      <4>2. request[h].payload.trade = t
        BY <1>2, <2>3, <3>2, <4>1, CommitPairs
      <4> QED BY <1>5, <2>1, <4>1, <4>2
    <3> QED BY <3>1, <3>2
  <2>4. createdAt' = [t \in Trades |-> createdAt'[t]]
    BY DEF LedgerStep
  <2> QED BY <2>2, <2>3, <2>4 DEF Recorded
<1>8. hour' = hour
  BY DEF LedgerStep
<1>9. DatesInv'
  BY <1>4, <1>7, <1>8 DEF DatesInv
<1> QED BY <1>3, <1>6, <1>9 DEF Keeps

(* Nothing else touches the ledger or its dates. *)
LEMMA LedgerRests ==
  ASSUME BookInv, DatesInv, UNCHANGED <<vars, inserted, createdAt>>, hour' \in 0 .. Hours - 1
  PROVE  BookInv' /\ DatesInv' /\ Keeps
<1>1. UNCHANGED vars /\ vars' = vars
  OBVIOUS
<1>2. UNCHANGED <<pc, request, claimed, reply, completed, keyRow, credit, debit, balance>>
  BY <1>1 DEF vars, handlerVars, ledgerVars, entryVars
<1>3. LedgerInv' /\ EntriesAreTrades' /\ BalanceIsLedger'
  BY <1>1, LedgerInvStep, BooksStep DEF BookInv
<1>4. RecordedIsPossible'
  BY <1>2 DEF BookInv, RecordedIsPossible
<1>5. DatesInv'
  BY <1>2 DEF DatesInv, Recorded
<1>6. Keeps
  BY <1>2 DEF Keeps
<1> QED BY <1>3, <1>4, <1>5, <1>6 DEF BookInv

LEMMA WhateverHappens ==
  ASSUME BookInv, DatesInv, [StatNext]_allVars
  PROVE  BookInv' /\ DatesInv' /\ Keeps
<1>1. CASE LedgerStep
  BY <1>1, LedgerMoves
<1>2. CASE ~ LedgerStep
  <2>1. UNCHANGED <<vars, inserted, createdAt>> /\ hour' \in 0 .. Hours - 1
    <3>1. hour \in Nat /\ Hours \in Nat /\ hour \in 0 .. Hours - 1
      BY WindowsAssumption DEF DatesInv
    <3> HIDE DEF vars
    <3> QED BY <1>2, <3>1
            DEF StatNext, allVars, statVars, NextHour, SummaryTrades, SummaryHouseholds, SummaryLedger,
                SummaryBalances, Summarise, BeginEntries, EntryRows, EntryTotal, List
  <2> QED BY <2>1, LedgerRests
<1> QED BY <1>1, <1>2

-----------------------------------------------------------------------------
(* With no bounds given every recorded trade is in the window, by either   *)
(* of its dates.                                                           *)
LEMMA EverythingIsRecorded ==
  ASSUME BookInv, DatesInv
  PROVE  /\ CompletedIn(Everything) = Recorded /\ RecordedIn(Everything) = Recorded
         /\ Parties(Everything) = Partners
         /\ {x \in Households : EntriesOf(x, Everything) # {}} = Partners
         /\ IsFiniteSet(Recorded) /\ IsFiniteSet(Partners)
         /\ Value \in Nat /\ Cardinality(Recorded) \in Nat /\ Cardinality(Partners) \in Nat
<1>1. Everything.from = 0 /\ Everything.to = Hours /\ Hours \in Nat
  BY WindowsAssumption DEF Everything
<1>2. \A t \in Trades : CompletedAt[t] \in 0 .. Hours - 1
  BY BooksAssumption
<1>3. CompletedIn(Everything) = Recorded
  BY <1>1, <1>2 DEF CompletedIn, Recorded, InWindow
<1>4. RecordedIn(Everything) = Recorded
  BY <1>1 DEF RecordedIn, Recorded, InWindow, DatesInv
<1>5. Parties(Everything) = Partners
  BY <1>3 DEF Parties, Partners
<1>6. {x \in Households : EntriesOf(x, Everything) # {}} = Partners
  BY <1>4 DEF EntriesOf, Partners
<1>7. Recorded \in SUBSET Trades /\ Partners \in SUBSET Households
  BY DEF Recorded, Partners
<1>8. IsFiniteSet(Recorded) /\ IsFiniteSet(Partners)
  <2> HIDE DEF Recorded, Partners
  <2> QED BY <1>7, FiniteTables, FS_Subset
<1>9. Value \in Nat
  <2>1. Recorded \in SUBSET Recorded
    OBVIOUS
  <2> QED BY <2>1, FiguresAreSums DEF Value
<1> QED BY <1>3, <1>4, <1>5, <1>6, <1>8, <1>9, FS_CardinalityType

(* Without bounds the figures only grow. *)
LEMMA FiguresGrow ==
  ASSUME BookInv, DatesInv, BookInv', DatesInv', Keeps
  PROVE  /\ Recorded \in SUBSET Recorded' /\ Partners \in SUBSET Partners'
         /\ Cardinality(Recorded) <= Cardinality(Recorded')
         /\ Cardinality(Partners) <= Cardinality(Partners')
         /\ Value <= Value' /\ Value' \in Nat
         /\ Cardinality(Recorded') \in Nat /\ Cardinality(Partners') \in Nat
<1>1. Recorded \in SUBSET Recorded'
  BY DEF Recorded, Keeps
<1>2. Partners \in SUBSET Partners'
  BY <1>1 DEF Partners, Recorded, Keeps
<1>3. IsFiniteSet(Recorded') /\ IsFiniteSet(Partners')
  <2>1. Recorded' \in SUBSET Trades /\ Partners' \in SUBSET Households
    BY DEF Recorded, Partners
  <2> HIDE DEF Recorded, Partners
  <2> QED BY <2>1, FiniteTables, FS_Subset
<1>4. /\ Cardinality(Recorded) <= Cardinality(Recorded')
      /\ Cardinality(Partners) <= Cardinality(Partners')
      /\ Cardinality(Recorded') \in Nat /\ Cardinality(Partners') \in Nat
  <2> HIDE DEF Recorded, Partners
  <2> QED BY <1>1, <1>2, <1>3, FS_Subset, FS_CardinalityType
<1>5. Value <= Value' /\ Value' \in Nat
  <2> DEFINE before == [t \in Trades |-> IF t \in Recorded THEN completed[t].payload.total ELSE 0]
             after == [t \in Trades |-> IF t \in Recorded' THEN completed'[t].payload.total ELSE 0]
  <2>1. \A t \in Recorded : completed[t].payload.total \in Nat
    BY RecordedTrade
  <2>2. \A t \in Recorded' : completed'[t].payload.total \in Nat
    <3>1. TypeOK'
      BY DEF BookInv, LedgerInv
    <3>2. \A t \in Recorded' : completed'[t] \in Request
      BY <3>1 DEF TypeOK, Recorded
    <3> QED BY <3>2, LedgerAssumption DEF Request, Payload
  <2>3. before \in [1 .. NTrades -> Nat] /\ after \in [1 .. NTrades -> Nat]
    BY <2>1, <2>2, FiniteTables
  <2>4. \A t \in 1 .. NTrades : before[t] <= after[t]
    <3>1. \A t \in Recorded : completed'[t] = completed[t]
      BY DEF Keeps, Recorded
    <3>2. \A t \in 1 .. NTrades : t \in Recorded => before[t] = after[t]
      BY <1>1, <3>1, FiniteTables
    <3>3. \A t \in 1 .. NTrades : before[t] \in Nat /\ after[t] \in Nat
      BY <2>3
    <3>4. \A t \in 1 .. NTrades : t \notin Recorded => before[t] = 0
      BY FiniteTables
    <3> HIDE DEF before, after
    <3> QED BY <3>2, <3>3, <3>4
  <2>5. Value = Total(before, NTrades) /\ Value' = Total(after, NTrades)
    BY DEF Value, Volume
  <2> HIDE DEF before, after
  <2> QED BY <2>3, <2>4, <2>5, FiniteTables, TotalIsMonotone, TotalIsNatural
<1> QED BY <1>1, <1>2, <1>4, <1>5

-----------------------------------------------------------------------------
(* What a reader has been told of the summary so far: without bounds it is *)
(* no more than there is now.                                              *)
Begun == summary.at # "idle"
Parted == summary.at \in {"households", "ledger", "balances"}
Booked == summary.at \in {"ledger", "balances"}
Unbounded == summary.window = Everything

SummaryInv ==
    /\ summary.at \in {"idle", "trades", "households", "ledger", "balances"}
    /\ Begun =>
          /\ summary.window \in Windows
          /\ Unbounded => /\ summary.trades.volume \in Nat /\ summary.trades.volume <= Value
                          /\ summary.trades.trades \in Nat
                          /\ summary.trades.trades <= Cardinality(Recorded)
    /\ Parted /\ Unbounded => summary.parties \in Nat /\ summary.parties <= Cardinality(Partners)
    /\ Booked =>
          /\ summary.ledger.credited \in Nat
          /\ summary.ledger.debited = summary.ledger.credited
          /\ Unbounded => /\ summary.ledger.credited >= summary.trades.volume
                          /\ summary.ledger.entries >= 2 * summary.trades.trades
                          /\ summary.ledger.households >= summary.parties
                          /\ summary.ledger.households \in Nat
                          /\ summary.ledger.households <= Cardinality(Partners)
    /\ summary.at = "balances" =>
          /\ summary.balances.totalCredit = summary.balances.totalDebit
          /\ Unbounded => summary.balances.households >= summary.ledger.households

LEMMA SummaryWaits ==
  ASSUME SummaryInv, BookInv, DatesInv, BookInv', DatesInv', Keeps, summary' = summary
  PROVE  SummaryInv'
<1>1. /\ Value \in Nat /\ Cardinality(Recorded) \in Nat /\ Cardinality(Partners) \in Nat
  BY EverythingIsRecorded
<1>2. /\ Cardinality(Recorded) <= Cardinality(Recorded)'
      /\ Cardinality(Partners) <= Cardinality(Partners)'
      /\ Value <= Value' /\ Value' \in Nat
      /\ Cardinality(Recorded)' \in Nat /\ Cardinality(Partners)' \in Nat
  BY FiguresGrow
<1> HIDE DEF Value, Recorded, Partners
<1>3. (Begun' <=> Begun) /\ (Parted' <=> Parted) /\ (Booked' <=> Booked) /\ (Unbounded' <=> Unbounded)
  BY DEF Begun, Parted, Booked, Unbounded
<1> HIDE DEF Begun, Parted, Booked, Unbounded
<1> QED BY <1>1, <1>2, <1>3 DEF SummaryInv

LEMMA SummaryTradesStep ==
  ASSUME BookInv, DatesInv, NEW w \in Windows, SummaryTrades(w)
  PROVE  SummaryInv'
<1>1. summary' = [at |-> "trades", window |-> w, trades |-> TradeRow(w)]
  BY DEF SummaryTrades, Summarise
<1>2. Value' = Value /\ Cardinality(Recorded)' = Cardinality(Recorded)
  BY DEF SummaryTrades, Summarise, vars, ledgerVars, Value, Volume, Recorded
<1>3. w = Everything => TradeRow(w).volume = Value /\ TradeRow(w).trades = Cardinality(Recorded)
  BY EverythingIsRecorded DEF TradeRow, Value
<1>4. Value \in Nat /\ Cardinality(Recorded) \in Nat
  BY EverythingIsRecorded
<1> HIDE DEF Value, Recorded
<1> QED BY <1>1, <1>2, <1>3, <1>4 DEF SummaryInv, Begun, Parted, Booked, Unbounded

LEMMA SummaryHouseholdsStep ==
  ASSUME SummaryInv, BookInv, DatesInv, SummaryHouseholds
  PROVE  SummaryInv'
<1>1. /\ summary.at = "trades"
      /\ summary' = [at |-> "households", window |-> summary.window, trades |-> summary.trades,
                     parties |-> Cardinality(Parties(summary.window))]
  BY DEF SummaryHouseholds, Summarise
<1>2. /\ Value' = Value /\ Cardinality(Recorded)' = Cardinality(Recorded)
      /\ Cardinality(Partners)' = Cardinality(Partners)
  BY DEF SummaryHouseholds, Summarise, vars, ledgerVars, Value, Volume, Recorded, Partners
<1>3. summary.window = Everything => Cardinality(Parties(summary.window)) = Cardinality(Partners)
  BY EverythingIsRecorded
<1>4. Cardinality(Partners) \in Nat
  BY EverythingIsRecorded
<1> HIDE DEF Value, Recorded, Partners
<1> QED BY <1>1, <1>2, <1>3, <1>4 DEF SummaryInv, Begun, Parted, Booked, Unbounded

LEMMA SummaryLedgerStep ==
  ASSUME SummaryInv, BookInv, DatesInv, SummaryLedger
  PROVE  SummaryInv'
<1> DEFINE row == LedgerRow(summary.window)
<1>1. /\ summary.at = "households"
      /\ summary' = [at |-> "ledger", window |-> summary.window, trades |-> summary.trades,
                     parties |-> summary.parties, ledger |-> row]
  BY DEF SummaryLedger, Summarise
<1>2. /\ Value' = Value /\ Cardinality(Recorded)' = Cardinality(Recorded)
      /\ Cardinality(Partners)' = Cardinality(Partners)
  BY DEF SummaryLedger, Summarise, vars, ledgerVars, Value, Volume, Recorded, Partners
<1>3. row.credited = Volume(RecordedIn(summary.window)) /\ row.debited = row.credited
      /\ row.credited \in Nat
  BY ColumnsAgree, FiguresAreSums
<1>4. summary.window = Everything =>
         /\ row.credited = Value /\ row.entries = 2 * Cardinality(Recorded)
         /\ row.households = Cardinality(Partners)
  BY <1>3, EverythingIsRecorded, TwoEntriesEach DEF Value, LedgerRow
<1>5. Cardinality(Partners) \in Nat /\ Cardinality(Recorded) \in Nat /\ Value \in Nat
  BY EverythingIsRecorded
<1> HIDE DEF Value, Recorded, Partners, row
<1> QED BY <1>1, <1>2, <1>3, <1>4, <1>5 DEF SummaryInv, Begun, Parted, Booked, Unbounded

LEMMA SummaryBalancesStep ==
  ASSUME SummaryInv, BookInv, DatesInv, SummaryBalances
  PROVE  SummaryInv'
<1>1. /\ summary.at = "ledger"
      /\ summary' = [at |-> "balances", window |-> summary.window, trades |-> summary.trades,
                     parties |-> summary.parties, ledger |-> summary.ledger,
                     balances |-> BalanceRow]
  BY DEF SummaryBalances, Summarise
<1>2. /\ Value' = Value /\ Cardinality(Recorded)' = Cardinality(Recorded)
      /\ Cardinality(Partners)' = Cardinality(Partners)
  BY DEF SummaryBalances, Summarise, vars, ledgerVars, Value, Volume, Recorded, Partners
<1>3. BalanceRow.totalCredit = BalanceRow.totalDebit
  BY OwedIsOwing
<1>4. BalanceRow.households = Cardinality(Partners) /\ Cardinality(Partners) \in Nat
  BY EverythingIsRecorded DEF BalanceRow
<1> HIDE DEF Value, Recorded, Partners
<1> QED BY <1>1, <1>2, <1>3, <1>4 DEF SummaryInv, Begun, Parted, Booked, Unbounded

-----------------------------------------------------------------------------
(* A household's entries, page by page.                                    *)
Comes(s, t) == createdAt[s] > createdAt[t] \/ (createdAt[s] = createdAt[t] /\ s > t)
Newer == {p \in Trades \X Trades : Comes(p[1], p[2])}
Own == EntriesOf(entries.of, Everything)

(* What was owed and has not been shown stands further on. *)
Ahead(pages) ==
    \A t \in entries.owed : t \in entries.shown \/ Place(Newer, Own, t) >= pages * PageSize

Reading ==
    /\ entries = [at |-> entries.at, of |-> entries.of, page |-> entries.page,
                  shown |-> entries.shown, owed |-> entries.owed]
    /\ entries.at \in {"rows", "total", "done"}
    /\ entries.page \in Nat \ {0}
    /\ entries.owed \subseteq Own

EntriesInv ==
    /\ entries = Idle \/ Reading
    /\ entries.at = "rows" => Ahead(entries.page - 1)
    /\ entries.at = "total" => Ahead(entries.page)
    /\ entries.at = "done" => entries.owed \subseteq entries.shown

LEMMA NewestFirstIsInOrder ==
  ASSUME DatesInv, NEW T \in SUBSET Trades
  PROVE  NewestFirst(T) = InOrder(Newer, T) /\ TellsApart(Newer, T) /\ IsFiniteSet(T)
<1>1. \A s, t \in T : <<s, t>> \in Newer <=> Comes(s, t)
  BY DEF Newer
<1>2. \A t \in T : {s \in T : <<s, t>> \in Newer} = {s \in T : Comes(s, t)}
  BY <1>1
<1>3. \A t \in T : Cardinality({s \in T : Comes(s, t)}) = Place(Newer, T, t)
  BY <1>2 DEF Place
<1>4. NewestFirst(T) =
        [n \in 1 .. Cardinality(T) |-> CHOOSE r \in T : Cardinality({s \in T : Comes(s, r)}) = n - 1]
  BY DEF NewestFirst, Ordered, Comes
<1>5. NewestFirst(T) = InOrder(Newer, T)
  <2>1. \A n \in 1 .. Cardinality(T) :
           (CHOOSE r \in T : Cardinality({s \in T : Comes(s, r)}) = n - 1)
           = CHOOSE r \in T : Place(Newer, T, r) = n - 1
    BY <1>3
  <2> QED BY <1>4, <2>1 DEF InOrder
<1>6. TellsApart(Newer, T)
  <2>1. \A t \in T : createdAt[t] \in Int /\ t \in Int
    BY FiniteTables, WindowsAssumption DEF DatesInv
  <2>2. /\ \A r \in T : ~ Comes(r, r)
        /\ \A r, s \in T : r # s => Comes(r, s) \/ Comes(s, r)
        /\ \A r, s, t \in T : Comes(r, s) /\ Comes(s, t) => Comes(r, t)
    BY <2>1 DEF Comes
  <2> QED BY <1>1, <2>2 DEF TellsApart
<1>7. IsFiniteSet(T)
  BY FiniteTables, FS_Subset
<1> QED BY <1>5, <1>6, <1>7

LEMMA OwnIsRecorded ==
  ASSUME BookInv, DatesInv
  PROVE  /\ Own \in SUBSET Recorded /\ Own \in SUBSET Trades
         /\ \A t \in Recorded : t \in Own <=> entries.of \in {completed[t].payload.seller,
                                                           completed[t].payload.buyer}
         /\ NewestFirst(Own) = InOrder(Newer, Own) /\ TellsApart(Newer, Own) /\ IsFiniteSet(Own)
         /\ Cardinality(Own) \in Nat
         /\ \A t \in Own : Place(Newer, Own, t) \in Nat /\ Place(Newer, Own, t) < Cardinality(Own)
<1>1. /\ Own \in SUBSET Recorded /\ Own \in SUBSET Trades
      /\ \A t \in Recorded : t \in Own <=> entries.of \in {completed[t].payload.seller,
                                                        completed[t].payload.buyer}
  BY EverythingIsRecorded DEF Own, EntriesOf, Recorded
<1> HIDE DEF Own
<1>2. NewestFirst(Own) = InOrder(Newer, Own) /\ TellsApart(Newer, Own) /\ IsFiniteSet(Own)
  BY <1>1, NewestFirstIsInOrder
<1> QED BY <1>1, <1>2, PlaceBounds, FS_CardinalityType

LEMMA EntriesWait ==
  ASSUME EntriesInv, BookInv, DatesInv, BookInv', DatesInv', Keeps, entries' = entries
  PROVE  EntriesInv'
<1>1. /\ Own \in SUBSET Recorded /\ Own \in SUBSET Own' /\ Own' \in SUBSET Trades
      /\ IsFiniteSet(Own')
  <2>1. RecordedIn(Everything)' = Recorded' /\ Recorded' \in SUBSET Trades
    <3>1. Everything.from = 0 /\ Everything.to = Hours /\ Hours \in Nat
      BY WindowsAssumption DEF Everything
    <3> QED BY <3>1 DEF RecordedIn, Recorded, InWindow, DatesInv
  <2>2. Own' = {t \in Recorded' : entries.of \in {completed'[t].payload.seller,
                                                  completed'[t].payload.buyer}}
    BY <2>1 DEF Own, EntriesOf
  <2>3. \A t \in Recorded : completed'[t] = completed[t] /\ t \in Recorded'
    BY DEF Keeps, Recorded
  <2>4. Own' \in SUBSET Trades
    BY <2>1, <2>2
  <2>5. IsFiniteSet(Own')
    <3> HIDE DEF Own
    <3> QED BY <2>4, FiniteTables, FS_Subset
  <2>6. Own \in SUBSET Own'
    BY <2>2, <2>3, OwnIsRecorded
  <2> QED BY <2>4, <2>5, <2>6, OwnIsRecorded
<1>2. ASSUME NEW t \in Own
      PROVE  /\ Place(Newer, Own, t) \in Nat /\ Place(Newer', Own', t) \in Nat
             /\ Place(Newer, Own, t) <= Place(Newer', Own', t)
  <2>1. \A s \in Own : createdAt'[s] = createdAt[s] /\ s \in Trades
    BY <1>1 DEF Keeps, Recorded
  <2>2. \A s \in Own : <<s, t>> \in Newer => s \in Own' /\ <<s, t>> \in Newer'
    BY <1>1, <2>1 DEF Newer, Comes
  <2> HIDE DEF Own, Newer
  <2> QED BY <1>1, <2>2, PlacesOnlyGrow
<1>3. ASSUME NEW n \in Nat, Ahead(n), Reading
      PROVE  Ahead(n)'
  <2>1. n * PageSize \in Nat
    BY WindowsAssumption
  <2>2. \A t \in entries.owed :
           t \in entries.shown \/ Place(Newer', Own', t) >= n * PageSize
    <3> HIDE DEF Own, Newer
    <3> QED BY <1>2, <1>3, <2>1 DEF Ahead, Reading
  <2> QED BY <2>2 DEF Ahead
<1>4. Reading => Reading' /\ entries.page \in Nat /\ entries.page - 1 \in Nat
  <2> HIDE DEF Own
  <2> QED BY <1>1 DEF Reading
<1>5. entries # Idle => Reading
  BY DEF EntriesInv
<1>6. entries = Idle => entries.at = "idle"
  BY DEF Idle
<1>7. (entries.page - 1)' = entries.page - 1 /\ entries'.page = entries.page
  OBVIOUS
<1>8. entries.at = "rows" => Ahead(entries.page - 1)'
  <2>1. SUFFICES ASSUME entries.at = "rows" PROVE Ahead(entries.page - 1)'
    OBVIOUS
  <2>2. Reading /\ Ahead(entries.page - 1) /\ entries.page - 1 \in Nat
    BY <1>4, <1>5, <1>6, <2>1 DEF EntriesInv
  <2> DEFINE n == entries.page - 1
  <2>3. n \in Nat /\ n' = n /\ Ahead(n)
    BY <2>2
  <2>4. \A t \in entries.owed :
           t \in entries.shown \/ Place(Newer', Own', t) >= n * PageSize
    <3>1. n * PageSize \in Nat
      BY <2>3, WindowsAssumption
    <3> HIDE DEF Own, Newer, n
    <3> QED BY <1>2, <2>2, <2>3, <3>1 DEF Ahead, Reading
  <2> QED BY <2>4 DEF Ahead
<1>9. entries.at = "total" => Ahead(entries.page)'
  <2>1. SUFFICES ASSUME entries.at = "total" PROVE Ahead(entries.page)'
    OBVIOUS
  <2>2. Reading /\ Ahead(entries.page) /\ entries.page \in Nat
    BY <1>4, <1>5, <1>6, <2>1 DEF EntriesInv
  <2>3. \A t \in entries.owed :
           t \in entries.shown \/ Place(Newer', Own', t) >= entries.page * PageSize
    <3>1. entries.page * PageSize \in Nat
      BY <2>2, WindowsAssumption
    <3> HIDE DEF Own, Newer
    <3> QED BY <1>2, <2>2, <3>1 DEF Ahead, Reading
  <2> QED BY <2>3 DEF Ahead
<1> QED BY <1>4, <1>5, <1>8, <1>9 DEF EntriesInv, Idle

LEMMA PageStays == \A seq, page : PageOf(seq, page) = PageIn(seq, PageSize, page)
BY DEF PageOf, PageIn

LEMMA BeginEntriesStep ==
  ASSUME BookInv, DatesInv, NEW x \in Households, BeginEntries(x)
  PROVE  EntriesInv'
<1>1. entries' = [at |-> "rows", of |-> x, page |-> 1, shown |-> {},
                  owed |-> EntriesOf(x, Everything)]
  BY DEF BeginEntries, List
<1>2. UNCHANGED <<completed, createdAt>>
  BY DEF BeginEntries, List, vars, ledgerVars
<1>3. entries'.owed = Own' /\ Newer' = Newer
  BY <1>1, <1>2 DEF Own, EntriesOf, RecordedIn, Newer, Comes
<1>4. \A t \in Own' : Place(Newer', Own', t) >= 0 * PageSize
  <2>1. Own' = EntriesOf(x, Everything) /\ Own' \in SUBSET Trades
    BY <1>1, <1>2 DEF Own, EntriesOf, RecordedIn
  <2>2. TellsApart(Newer, Own') /\ IsFiniteSet(Own')
    <3> HIDE DEF Own, Newer
    <3> QED BY <2>1, NewestFirstIsInOrder
  <2>3. 0 * PageSize = 0
    BY WindowsAssumption
  <2> HIDE DEF Own, Newer
  <2> QED BY <1>3, <2>2, <2>3, PlaceBounds
<1>5. Ahead(entries.page - 1)'
  <2>1. entries'.page - 1 = 0
    BY <1>1
  <2> QED BY <1>3, <1>4, <2>1 DEF Ahead
<1>6. Reading'
  <2> HIDE DEF Own
  <2> QED BY <1>1, <1>3 DEF Reading
<1> QED BY <1>1, <1>5, <1>6 DEF EntriesInv

LEMMA EntryRowsStep ==
  ASSUME EntriesInv, BookInv, DatesInv, EntryRows
  PROVE  EntriesInv'
<1> DEFINE here == PageOf(NewestFirst(Own), entries.page)
<1>1. Reading /\ entries.at = "rows"
  BY DEF EntryRows, EntriesInv, Idle
<1>2. /\ entries' = [entries EXCEPT !.at = "total", !.shown = @ \cup ToSet(here)]
      /\ UNCHANGED <<completed, createdAt>>
  BY DEF EntryRows, List, vars, ledgerVars, Own
<1> HIDE DEF here
<1>3. entries' = [at |-> "total", of |-> entries.of, page |-> entries.page,
                  shown |-> entries.shown \cup ToSet(here), owed |-> entries.owed]
  BY <1>1, <1>2 DEF Reading
<1>4. Own' = Own /\ Newer' = Newer
  BY <1>2, <1>3 DEF Own, EntriesOf, RecordedIn, Newer, Comes
<1>5. Reading'
  <2> HIDE DEF Own
  <2> QED BY <1>1, <1>3, <1>4 DEF Reading
<1>6. ASSUME NEW t \in entries.owed
      PROVE  \/ t \in entries.shown \cup ToSet(here)
             \/ Place(Newer, Own, t) >= entries.page * PageSize
  <2>1. t \in entries.shown \/ Place(Newer, Own, t) >= (entries.page - 1) * PageSize
    BY <1>1 DEF EntriesInv, Ahead
  <2>2. t \in Own /\ entries.page \in Nat \ {0} /\ PageSize \in Nat \ {0}
        /\ entries.page * PageSize \in Nat
    BY <1>1, WindowsAssumption DEF Reading
  <2>3. NewestFirst(Own) = InOrder(Newer, Own) /\ TellsApart(Newer, Own) /\ IsFiniteSet(Own)
        /\ Place(Newer, Own, t) \in Nat
    BY <2>2, OwnIsRecorded
  <2>4. SUFFICES ASSUME Place(Newer, Own, t) >= (entries.page - 1) * PageSize,
                        Place(Newer, Own, t) < entries.page * PageSize
                 PROVE  t \in ToSet(here)
    <3> HIDE DEF Own, Newer
    <3> QED BY <2>1, <2>2, <2>3, <2>4
  <2>5. here = PageIn(InOrder(Newer, Own), PageSize, entries.page)
    BY <2>3, PageStays DEF here
  <2>6. \E i \in DOMAIN here : here[i] = t
    <3> HIDE DEF Own, Newer
    <3> QED BY <2>2, <2>3, <2>4, <2>5, OnItsPage
  <2>7. ToSet(here) = {here[i] : i \in DOMAIN here}
    BY DEF ToSet
  <2> QED BY <2>6, <2>7
<1>7. Ahead(entries.page)'
  <2> HIDE DEF Own, Newer
  <2> QED BY <1>3, <1>4, <1>6 DEF Ahead
<1> QED BY <1>3, <1>5, <1>7 DEF EntriesInv

LEMMA EntryTotalStep ==
  ASSUME EntriesInv, BookInv, DatesInv, EntryTotal
  PROVE  EntriesInv'
<1> DEFINE more == entries.page * PageSize < Cardinality(Own)
<1>1. Reading /\ entries.at = "total"
  BY DEF EntryTotal, EntriesInv, Idle
<1>2. /\ entries' = [entries EXCEPT !.at = IF more THEN "rows" ELSE "done", !.page = @ + 1]
      /\ UNCHANGED <<completed, createdAt>>
  BY DEF EntryTotal, List, vars, ledgerVars, Own
<1> HIDE DEF more
<1>3. entries' = [at |-> IF more THEN "rows" ELSE "done", of |-> entries.of,
                  page |-> entries.page + 1, shown |-> entries.shown, owed |-> entries.owed]
  BY <1>1, <1>2 DEF Reading
<1>4. Own' = Own /\ Newer' = Newer
  BY <1>2, <1>3 DEF Own, EntriesOf, RecordedIn, Newer, Comes
<1>5. Reading'
  <2> HIDE DEF Own
  <2> QED BY <1>1, <1>3, <1>4 DEF Reading
<1>6. Ahead(entries.page)
  BY <1>1 DEF EntriesInv
<1>7. Ahead(entries.page - 1)'
  <2>1. entries'.page - 1 = entries.page
    BY <1>1, <1>3 DEF Reading
  <2> HIDE DEF Own, Newer
  <2> QED BY <1>3, <1>4, <1>6, <2>1 DEF Ahead
<1>8. ~ more => entries.owed \subseteq entries.shown
  <2>1. SUFFICES ASSUME ~ more, NEW t \in entries.owed PROVE t \in entries.shown
    OBVIOUS
  <2>2. entries.page * PageSize \in Nat /\ t \in Own
    BY <1>1, WindowsAssumption DEF Reading
  <2>3. Place(Newer, Own, t) \in Nat /\ Place(Newer, Own, t) < Cardinality(Own)
        /\ Cardinality(Own) \in Nat
    BY <2>2, OwnIsRecorded
  <2>4. t \in entries.shown \/ Place(Newer, Own, t) >= entries.page * PageSize
    BY <1>6 DEF Ahead
  <2> HIDE DEF Own, Newer
  <2> QED BY <2>1, <2>2, <2>3, <2>4 DEF more
<1> QED BY <1>3, <1>5, <1>7, <1>8 DEF EntriesInv

-----------------------------------------------------------------------------
(* What billing tells its readers fits together, whatever is recorded      *)
(* between the statements of an answer and the pages of a list, for every  *)
(* number of trades, households and concurrent requests.  (StatsService,   *)
(* LedgerService)                                                          *)
THEOREM BooksAlwaysAgree == StatSpec => []BooksAgree
<1>1. StatInit => BookInv /\ DatesInv /\ SummaryInv /\ EntriesInv
  BY BookInvInit DEF StatInit, SummaryInv, EntriesInv, Begun, Parted, Booked, Idle
<1>2. ASSUME BookInv, DatesInv, SummaryInv, EntriesInv, [StatNext]_allVars
      PROVE  BookInv' /\ DatesInv' /\ SummaryInv' /\ EntriesInv'
  <2>1. BookInv' /\ DatesInv' /\ Keeps
    BY <1>2, WhateverHappens
  <2>2. SummaryInv'
    <3>1. CASE summary' = summary
      BY <1>2, <2>1, <3>1, SummaryWaits
    <3>2. CASE \E w \in Windows : SummaryTrades(w)
      BY <1>2, <3>2, SummaryTradesStep
    <3>3. CASE SummaryHouseholds \/ SummaryLedger \/ SummaryBalances
      BY <1>2, <3>3, SummaryHouseholdsStep, SummaryLedgerStep, SummaryBalancesStep
    <3> QED BY <1>2, <3>1, <3>2, <3>3
            DEF StatNext, allVars, statVars, LedgerStep, NextHour, BeginEntries, EntryRows, EntryTotal, List
  <2>3. EntriesInv'
    <3>1. CASE entries' = entries
      BY <1>2, <2>1, <3>1, EntriesWait
    <3>2. CASE \E x \in Households : BeginEntries(x)
      BY <1>2, <3>2, BeginEntriesStep
    <3>3. CASE EntryRows \/ EntryTotal
      BY <1>2, <3>3, EntryRowsStep, EntryTotalStep
    <3> QED BY <1>2, <3>1, <3>2, <3>3
            DEF StatNext, allVars, statVars, LedgerStep, NextHour, SummaryTrades, SummaryHouseholds,
                SummaryLedger, SummaryBalances, Summarise
  <2> QED BY <2>1, <2>2, <2>3
<1>3. ASSUME BookInv, DatesInv, SummaryInv, EntriesInv
      PROVE  BooksAgree
  <2>1. BooksNeverUnbalanced /\ BalancesCancelOut
    BY <1>3 DEF SummaryInv, Booked, BooksNeverUnbalanced, BooksStatus, BalancesCancelOut
  <2>2. LaterStatementsCover
    BY <1>3 DEF SummaryInv, Booked, Begun, Parted, Unbounded, LaterStatementsCover
  <2>3. EntriesSkipNothing
    BY <1>3 DEF EntriesInv, EntriesSkipNothing
  <2> QED BY <1>3, <2>1, <2>2, <2>3, TrendsAddUp, NetsAreNothing DEF BooksAgree
<1> QED BY <1>1, <1>2, <1>3, PTL DEF StatSpec
=============================================================================
