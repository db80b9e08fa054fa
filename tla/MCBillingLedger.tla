--------------------------- MODULE MCBillingLedger ---------------------------
(***************************************************************************)
(* A small billing service, with a reader of its statistics.  A behaviour  *)
(* belongs to a scenario, chosen at the start, which says what may be      *)
(* asked for: trades in a circle, retries of every kind, or trades that    *)
(* are recorded while one answer is read.                                  *)
(***************************************************************************)
EXTENDS BooksStatistics, TLC

CONSTANTS k1, k2, k3, k4, h1, h2, h3

\* 0.001 kWh at 5.0000 TRY rounds up to 0.01 TRY, at 4.9999 down to 0.00.
Pay(trade, seller, buyer, price, total) ==
    [trade |-> trade, seller |-> seller, buyer |-> buyer,
     energy |-> 1, price |-> price, total |-> total]
Ask(key, payload) == [key |-> key, payload |-> payload]

\* Trade 4 was recorded before keys had fingerprints.
Old == Pay(4, 2, 1, 50000, 1)
FourthEarlier == [t \in 1 .. 4 |-> IF t = 4 THEN Ask(k4, Old) ELSE None]

\* Three trades that run around a circle of three households, each under a
\* key of its own or all under one.
Circle == {Pay(1, 1, 2, 50000, 1), Pay(2, 2, 3, 150000, 2), Pay(3, 3, 1, 250000, 3)}
CircleRequests == {Ask(CASE p.trade = 1 -> k1 [] p.trade = 2 -> k2 [] OTHER -> k3, p) : p \in Circle}
                  \cup [key : {k1}, payload : Circle]

\* Requests for trades 1 and 2 in opposite directions, at two prices, under
\* every key; a total not rounded half up, a household on both sides.
Retries == {Pay(1, 1, 2, 50000, 1), Pay(1, 1, 2, 49999, 0), Pay(2, 2, 1, 150000, 2),
            Old, Pay(2, 2, 1, 50000, 0), Pay(2, 2, 2, 50000, 1)}

\* Trades between two households, each under its own key.
Watched == {Ask(k1, Pay(1, 1, 2, 50000, 1)), Ask(k2, Pay(2, 2, 1, 150000, 2))}

RetryRequests == [key : {k1, k2, k4}, payload : Retries]
EveryPayload == Circle \cup Retries
EveryRequest == CircleRequests \cup RetryRequests \cup Watched
HourByHour == <<0, 1, 1, 0>>

HandlerSymmetry == Permutations(Handlers)

VARIABLE scenario

Asked == CASE scenario = "circle" -> CircleRequests
           [] scenario = "retries" -> RetryRequests
           [] OTHER -> Watched
AtOnce == IF scenario = "circle" THEN 3 ELSE 2
Reading == scenario \in {"summary", "entries"}

MCInit ==
    /\ StatInit
    /\ scenario \in {"circle", "retries", "summary", "entries"}
    /\ hour = IF Reading THEN 0 ELSE Hours - 1

MCNext ==
    /\ StatNext
    /\ \A h \in Handlers : pc[h] = "idle" /\ pc'[h] = "received" => request'[h] \in Asked
    /\ Cardinality({h \in Handlers : pc'[h] # "idle"}) <= AtOnce
    /\ scenario # "summary" => summary' = summary
    /\ scenario # "entries" => entries' = entries
    /\ scenario' = scenario

MCSpec == MCInit /\ [][MCNext]_<<allVars, scenario>>

=============================================================================
