---------------------------- MODULE BillingLedger ----------------------------
(***************************************************************************)
(* billing-ledger-service recording trades.  Requests are handled          *)
(* concurrently by any number of instances; each looks its idempotency key *)
(* up and then opens one transaction that inserts the completed trade, the *)
(* idempotency key and the two ledger entries, and moves the two balances. *)
(*                                                                         *)
(* The transaction claims one row at a time: an insert under a unique      *)
(* index waits while another open transaction has inserted the same value, *)
(* and fails once one with that value is committed; the upsert of a        *)
(* balance waits for the lock of its row.  What it writes is seen by       *)
(* others when it commits, so it is written here at the commit.  The       *)
(* inserts of the two ledger entries never wait: their unique index starts *)
(* with the trade id, which the transaction has claimed already.           *)
(***************************************************************************)
EXTENDS LedgerRequests

VARIABLES
    pc,         \* where each handler is
    request,    \* what it was asked, None when it is idle
    claimed,    \* how many rows its open transaction has claimed
    reply,      \* what it answers, None before it does
    completed,  \* completed_trades: the request recorded for each trade, or None
    keyRow,     \* idempotency_keys: [trade, requestHash] for each key, or None
    credit,     \* ledger_entries of type CREDIT, 0 where there is none
    debit,      \* ledger_entries of type DEBIT
    balance     \* household_balances

handlerVars == <<pc, request, claimed, reply>>
entryVars == <<credit, debit, balance>>
ledgerVars == <<completed, keyRow, entryVars>>
vars == <<handlerVars, ledgerVars>>

HandlerPoint == {"idle", "received", "recording", "raced", "answered"}
KeyRow == [trade : Trades, requestHash : Payloads \cup {None}]
LastRow == 5

ASSUME NoneIsNoRow == None \notin KeyRow

TypeOK ==
    /\ pc \in [Handlers -> HandlerPoint]
    /\ request \in [Handlers -> Requests \cup {None}]
    /\ claimed \in [Handlers -> 0 .. LastRow]
    /\ reply \in [Handlers -> Reply \cup {None}]
    /\ completed \in [Trades -> Request \cup {None}]
    /\ keyRow \in [Keys -> KeyRow \cup {None}]
    /\ credit \in [Households -> [Trades -> Nat]]
    /\ debit \in [Households -> [Trades -> Nat]]
    /\ balance \in [Households -> Int]

Init ==
    /\ pc = [h \in Handlers |-> "idle"]
    /\ request = [h \in Handlers |-> None]
    /\ claimed = [h \in Handlers |-> 0]
    /\ reply = [h \in Handlers |-> None]
    /\ completed = Earlier
    /\ keyRow = [k \in Keys |->
          IF k \in Unhashed
          THEN [trade |-> CHOOSE t \in Trades : Earlier[t] # None /\ Earlier[t].key = k,
                requestHash |-> None]
          ELSE None]
    /\ credit = EarlierCredit
    /\ debit = EarlierDebit
    /\ balance = EarlierBalance

-----------------------------------------------------------------------------
(* Rows and locks *)

Smaller(x, y) == IF x < y THEN x ELSE y
Larger(x, y) == IF x < y THEN y ELSE x

(* Mutant: the seller's balance first, whoever sorts first. *)
RowsSellerFirst(r) ==
    << <<"completedTrade", r.payload.trade>>, <<"completedTradeKey", r.key>>,
       <<"idempotencyKey", r.key>>,
       <<"balance", r.payload.seller>>, <<"balance", r.payload.buyer>> >>

(* The rows a transaction claims, in order: the two unique values of       *)
(* completed_trades, the key, and the balances sorted by household id.     *)
Rows(r) ==
    << <<"completedTrade", r.payload.trade>>, <<"completedTradeKey", r.key>>,
       <<"idempotencyKey", r.key>>,
       <<"balance", Smaller(r.payload.seller, r.payload.buyer)>>,
       <<"balance", Larger(r.payload.seller, r.payload.buyer)>> >>

Row(h, n) == Rows(request[h])[n]
Wants(h) == Row(h, claimed[h] + 1)
Claiming(h) == pc[h] = "recording" /\ claimed[h] < LastRow
Holds(h, row) == \E n \in 1 .. claimed[h] : Row(h, n) = row
WaitsFor(h, g) == h # g /\ Claiming(h) /\ Holds(g, Wants(h))
Free(h) == \A g \in Handlers : ~ WaitsFor(h, g)

(* Mutant: completed_trades has no unique index on tradeId. *)
TakenByKeyOnly(h) ==
    \/ claimed[h] = 1 /\ \E t \in Trades : completed[t] # None /\ completed[t].key = request[h].key
    \/ claimed[h] = 2 /\ keyRow[request[h].key] # None

(* A committed row has the value the next insert needs. *)
Taken(h) ==
    \/ claimed[h] = 0 /\ completed[request[h].payload.trade] # None
    \/ claimed[h] = 1 /\ \E t \in Trades : completed[t] # None /\ completed[t].key = request[h].key
    \/ claimed[h] = 2 /\ keyRow[request[h].key] # None

-----------------------------------------------------------------------------
(* One request *)

Receive(h) ==
    /\ pc[h] = "idle"
    /\ \E r \in Requests : request' = [request EXCEPT ![h] = r]
    /\ pc' = [pc EXCEPT ![h] = "received"]
    /\ UNCHANGED <<claimed, reply, ledgerVars>>

(* The handler answers without changing anything. *)
Answer(h, r) ==
    /\ pc' = [pc EXCEPT ![h] = "answered"]
    /\ reply' = [reply EXCEPT ![h] = r]
    /\ UNCHANGED <<request, claimed, ledgerVars>>

(* assertBusinessRules *)
Reject(h) ==
    /\ pc[h] = "received"
    /\ ~ Possible(request[h].payload)
    /\ Answer(h, Refusal("rejected"))

(* findReplay with a row: the stored trade, or a conflict.  A row from     *)
(* before fingerprints has none to compare and counts as a match.          *)
AnswerStored(h, row) ==
    Answer(h, IF row.requestHash \in {None, request[h].payload}
              THEN [outcome |-> "replayed", trade |-> completed[row.trade].payload]
              ELSE Refusal("keyConflict"))

FindReplay(h) ==
    /\ \/ pc[h] = "received" /\ Possible(request[h].payload)
       \/ pc[h] = "raced"
    /\ keyRow[request[h].key] # None
    /\ AnswerStored(h, keyRow[request[h].key])

(* The key is not there: the transaction begins. *)
BeginRecording(h) ==
    /\ pc[h] = "received"
    /\ Possible(request[h].payload)
    /\ keyRow[request[h].key] = None
    /\ pc' = [pc EXCEPT ![h] = "recording"]
    /\ UNCHANGED <<request, claimed, reply, ledgerVars>>

Claim(h) ==
    /\ Claiming(h) /\ Free(h)
    /\ ~ Taken(h)
    /\ claimed' = [claimed EXCEPT ![h] = @ + 1]
    /\ UNCHANGED <<pc, request, reply, ledgerVars>>

(* Mutant: the unique violation is answered at once. *)
LoseRaceAtOnce(h) ==
    /\ Claiming(h) /\ Free(h)
    /\ Taken(h)
    /\ pc' = [pc EXCEPT ![h] = "answered"]
    /\ claimed' = [claimed EXCEPT ![h] = 0]
    /\ reply' = [reply EXCEPT ![h] = Refusal("tradeConflict")]
    /\ UNCHANGED <<request, ledgerVars>>

(* A unique violation: another transaction with the value has committed.   *)
(* This one is rolled back and the key is looked up once more.             *)
LoseRace(h) ==
    /\ Claiming(h) /\ Free(h)
    /\ Taken(h)
    /\ pc' = [pc EXCEPT ![h] = "raced"]
    /\ claimed' = [claimed EXCEPT ![h] = 0]
    /\ UNCHANGED <<request, reply, ledgerVars>>

(* After a lost race without a row for the key, the trade id is taken      *)
(* under another one.                                                      *)
RefuseTrade(h) ==
    /\ pc[h] = "raced"
    /\ keyRow[request[h].key] = None
    /\ Answer(h, Refusal("tradeConflict"))

(* The two balances. *)
MoveMoney(p) == balance' = [x \in Households |-> balance[x] + Movement(p, x)]

WriteKey(r) ==
    keyRow' = [keyRow EXCEPT ![r.key] = [trade |-> r.payload.trade,
                                         requestHash |-> r.payload]]

(* One CREDIT and one DEBIT. *)
WriteEntries(p) ==
    /\ credit' = [credit EXCEPT ![p.seller][p.trade] = p.total]
    /\ debit' = [debit EXCEPT ![p.buyer][p.trade] = p.total]

(* Everything the transaction wrote becomes visible. *)
Commit(h) ==
    LET r == request[h]
        p == r.payload
    IN  /\ pc[h] = "recording" /\ claimed[h] = LastRow
        /\ completed' = [completed EXCEPT ![p.trade] = r]
        /\ WriteKey(r)
        /\ WriteEntries(p)
        /\ MoveMoney(p)
        /\ pc' = [pc EXCEPT ![h] = "answered"]
        /\ claimed' = [claimed EXCEPT ![h] = 0]
        /\ reply' = [reply EXCEPT ![h] = [outcome |-> "created", trade |-> p]]
        /\ UNCHANGED request

(* The process dies, the transaction runs out of time or the database      *)
(* gives it up: it is rolled back and the caller gets no definite answer.  *)
Fail(h) ==
    /\ pc[h] \in {"received", "recording", "raced"}
    /\ pc' = [pc EXCEPT ![h] = "idle"]
    /\ request' = [request EXCEPT ![h] = None]
    /\ claimed' = [claimed EXCEPT ![h] = 0]
    /\ UNCHANGED <<reply, ledgerVars>>

(* The response is sent; it may also be lost, a commit's with it. *)
Deliver(h) ==
    /\ pc[h] = "answered"
    /\ pc' = [pc EXCEPT ![h] = "idle"]
    /\ request' = [request EXCEPT ![h] = None]
    /\ reply' = [reply EXCEPT ![h] = None]
    /\ UNCHANGED <<claimed, ledgerVars>>

Work(h) == \/ Reject(h)      \/ FindReplay(h) \/ BeginRecording(h) \/ Claim(h)
           \/ LoseRace(h)    \/ RefuseTrade(h) \/ Commit(h) \/ Deliver(h)

Next == \E h \in Handlers : Receive(h) \/ Work(h) \/ Fail(h)

Spec == Init /\ [][Next]_vars

(* A handler goes on; one that waits for a row is let through before it    *)
(* has been passed over for ever.  A failure may never come.               *)
FairSpec == Spec /\ \A h \in Handlers : SF_vars(Work(h))

-----------------------------------------------------------------------------
(* Properties *)

(* The balance of a household is what its ledger entries add up to: the    *)
(* two are written by different statements and nothing recomputes one from *)
(* the other.                                                              *)
BalanceIsLedger == \A x \in Households :
    balance[x] = Total(credit[x], NTrades) - Total(debit[x], NTrades)

(* Credits and debits cancel out, trade by trade: each recorded trade has  *)
(* one credit and one debit of its total, and no other trade has any, so   *)
(* that the ledger's net is zero.                                          *)
EntriesAreTrades == \A x \in Households, t \in Trades :
    LET p == completed[t].payload
        isTrade == completed[t] # None
    IN  /\ credit[x][t] = IF isTrade /\ x = p.seller THEN p.total ELSE 0
        /\ debit[x][t] = IF isTrade /\ x = p.buyer THEN p.total ELSE 0

(* Keys and trades are paired: a trade is found under the key it was       *)
(* recorded with and under no other, with the fingerprint of the request   *)
(* that recorded it.                                                       *)
KeysMatchTrades ==
    /\ \A t \in Trades : completed[t] # None =>
          /\ completed[t].payload.trade = t
          /\ keyRow[completed[t].key] # None
          /\ keyRow[completed[t].key].trade = t
    /\ \A k \in Keys : keyRow[k] # None =>
          /\ completed[keyRow[k].trade] # None
          /\ completed[keyRow[k].trade].key = k
          /\ keyRow[k].requestHash =
                IF k \in Unhashed THEN None ELSE completed[keyRow[k].trade].payload

(* No transactions wait for each other in a circle, whichever way the      *)
(* trades between the households run: in every group of handlers one waits *)
(* for nobody in the group.                                                *)
NoDeadlock == \A group \in (SUBSET Handlers) \ {{}} :
    \E h \in group : \A g \in group : ~ WaitsFor(h, g)

(* Two open transactions never hold the same row, and none holds a value   *)
(* that has been committed: the unique indexes leave one recorder for each *)
(* trade and each key.                                                     *)
RowsAreExclusive ==
    /\ \A h, g \in Handlers : h # g => \A n \in 1 .. claimed[h] : ~ Holds(g, Row(h, n))
    /\ \A h \in Handlers :
          /\ claimed[h] >= 1 => completed[request[h].payload.trade] = None
          /\ claimed[h] >= 2 => keyRow[request[h].key] = None

(* Billing is the exactly-once ledger: whatever races, fails or is asked   *)
(* again, each answer is the one a ledger that does one thing at a time    *)
(* would have given, and money moves only with it.                         *)
RecordedUnder == [k \in Keys |->
    IF keyRow[k] = None THEN None ELSE completed[keyRow[k].trade].payload]
Ledger == INSTANCE ExactlyOnceLedger WITH recorded <- RecordedUnder
ImplementsLedger == Ledger!Spec

(* Every request is answered unless its handler fails. *)
EveryRequestEnds == \A h \in Handlers :
    pc[h] = "received" ~> pc[h] \in {"answered", "idle"}
=============================================================================
