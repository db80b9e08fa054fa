--------------------------- MODULE LedgerRequests ---------------------------
(***************************************************************************)
(* What billing is asked to record: a trade under an idempotency key, and  *)
(* what it answers.  Shared by what the ledger promises                    *)
(* (ExactlyOnceLedger) and by how billing does it (BillingLedger).         *)
(*                                                                         *)
(* A payload is the request in the canonical form its fingerprint is taken *)
(* over, so two requests for the same trade are equal payloads however     *)
(* their decimals and dates were written.  Energy, price and money are     *)
(* counted in the units of their columns (0.001 kWh, 0.0001 and 0.01 TRY). *)
(* The currency, always TRY, and the completion time are left out: a       *)
(* difference in either is a difference like that of two prices.           *)
(***************************************************************************)
EXTENDS Integers, Totals

CONSTANTS
    NTrades, NHouseholds,
    Keys,       \* idempotency keys
    Payloads,   \* payloads that pass validation
    Requests,   \* the requests that may arrive, [key : Keys, payload : Payloads]
    Earlier,    \* what was recorded, trade by trade, before keys had fingerprints
    Handlers,   \* requests that may be in progress at once
    None

Trades == 1 .. NTrades
(* Numbered in the order localeCompare sorts their ids. *)
Households == 1 .. NHouseholds

Payload == [trade : Trades, seller : Households, buyer : Households,
            energy : Nat, price : Nat, total : Nat]
Request == [key : Keys, payload : Payloads]

(* energy times price, rounded half up to whole hundredths. *)
ExpectedTotal(energy, price) == (energy * price + 50000) \div 100000

(* The business rules: two households, and a total that is the energy      *)
(* times the price.                                                        *)
Possible(p) == p.seller # p.buyer /\ p.total = ExpectedTotal(p.energy, p.price)

Outcome == {"created", "replayed", "keyConflict", "tradeConflict", "rejected"}
Reply == [outcome : Outcome, trade : Payloads \cup {None}]
Refusal(outcome) == [outcome |-> outcome, trade |-> None]

(* What recording p adds to the balance of household x. *)
Movement(p, x) == IF x = p.seller THEN p.total
                  ELSE IF x = p.buyer THEN 0 - p.total
                  ELSE 0

(* The entries and the balances of the trades recorded earlier. *)
EarlierCredit == [x \in Households |-> [t \in Trades |->
    IF Earlier[t] # None /\ Earlier[t].payload.seller = x
    THEN Earlier[t].payload.total ELSE 0]]
EarlierDebit == [x \in Households |-> [t \in Trades |->
    IF Earlier[t] # None /\ Earlier[t].payload.buyer = x
    THEN Earlier[t].payload.total ELSE 0]]
EarlierBalance == [x \in Households |->
    Total(EarlierCredit[x], NTrades) - Total(EarlierDebit[x], NTrades)]
Unhashed == {Earlier[t].key : t \in {u \in Trades : Earlier[u] # None}}

ASSUME LedgerAssumption ==
    /\ NTrades \in Nat /\ NHouseholds \in Nat
    /\ Payloads \subseteq Payload
    /\ Requests \subseteq Request
    /\ None \notin Payloads /\ None \notin Request /\ None \notin Reply
    /\ Earlier \in [Trades -> Request \cup {None}]
    /\ \A t \in Trades : Earlier[t] # None =>
          /\ Earlier[t].payload.trade = t
          /\ Possible(Earlier[t].payload)
          /\ \A u \in Trades \ {t} : Earlier[u] # None => Earlier[u].key # Earlier[t].key
=============================================================================
