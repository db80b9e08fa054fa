---------------------------- MODULE TradeAmounts ----------------------------
(***************************************************************************)
(* The figures of a trade on their way from two meters to the ledger: what *)
(* each service checks, rounds, stores and spells, and what billing makes  *)
(* of a later request that writes the same amounts in another way.  When a *)
(* step is taken, and how often, is the matter of the other modules.       *)
(***************************************************************************)
EXTENDS Decimals, FiniteSets, FiniteSetsExt, Functions

CONSTANTS
    Events,          \* energy events; each is announced once
    Trades,
    KeysReused,      \* trades whose keys somebody uses once more
    EnergyScale, PriceScale, MoneyScale,
    EnergyDigits,    \* digits a column of energy holds
    MaxReading,      \* MAX_READING_KWH, in units of energy
    Measured,        \* inputs: pairs of production and consumption
    HandMade,        \* inputs: figures of messages nobody measured
    Prices,          \* inputs: prices the pricing engine may name
    ConsumerBounds, EnergyOptions, PriceOptions, TotalOptions,
    None

AmountsAssumption ==
    /\ IsFiniteSet(Trades) /\ KeysReused \subseteq Trades /\ None \notin Spellings
    /\ {EnergyScale, PriceScale, MoneyScale, EnergyDigits} \subseteq Nat
    /\ MaxReading \in Nat /\ Measured \subseteq (0..MaxReading) \X (0..MaxReading)
    /\ Prices \subseteq Nat \ {0} /\ HandMade \subseteq Spellings
    /\ {ConsumerBounds.min, ConsumerBounds.max} \subseteq Spellings
    /\ {EnergyOptions, PriceOptions, TotalOptions}
          \subseteq [min : Spellings, max : Spellings, scale : Nat]

VARIABLES
    announced,    \* the event about each reading
    book,         \* what became of it: the offer or request, in units of energy
    trade,        \* trade_matches
    refusal,      \* billing's answer to each trade, when it is not "recorded"
    ledger,       \* completed_trades, with the fingerprint of the request
    again         \* the last request made with a key that has been used

vars == <<announced, book, trade, refusal, ledger, again>>

Energy == 0 .. PowerOfTen[EnergyDigits] - 1
Amounts == [energyKwh : Spellings, pricePerKwh : Spellings, totalAmount : Spellings]
Recorded == {t \in Trades : ledger[t] # None}

(* Every figure fits the column it is stored in. *)
TypeOK ==
    /\ \A e \in Events : book[e] # None =>
          /\ book[e].at \in {"stored", "parked", "overflow"}
          /\ book[e].at = "stored" =>
                book[e].original \in Energy /\ book[e].left \in 0..book[e].original
    /\ \A t \in Trades : trade[t] # None =>
          /\ trade[t].energyKwh.units \in Energy \ {0} /\ trade[t].energyKwh.scale = EnergyScale
          /\ trade[t].pricePerKwh.units > 0 /\ trade[t].totalAmount.scale = MoneyScale
    /\ refusal \in [Trades -> {None, "invalid", "impossible"}]
    /\ \A t \in Recorded : ledger[t].amounts \in Amounts

Init ==
    /\ announced = [e \in Events |-> None]
    /\ book = [e \in Events |-> None]
    /\ trade = [t \in Trades |-> None]
    /\ refusal = [t \in Trades |-> None]
    /\ ledger = [t \in Trades |-> None]
    /\ again = None

-----------------------------------------------------------------------------
(* The smart meter. *)

FormatEnergy(v) == ToFixed(v, EnergyScale)
FormatPrice(v) == ToFixed(v, PriceScale)
FormatMoney(v) == ToFixed(v, MoneyScale)

CalculateEnergyStatus(production, consumption) ==
    LET net == [negative |-> production < consumption, scale |-> EnergyScale,
                units |-> IF production < consumption THEN consumption - production
                                                      ELSE production - consumption]
    IN  [status |-> CASE net.units = 0 -> "BALANCED" [] net.negative -> "DEMAND" [] OTHER -> "SURPLUS",
         amount |-> FormatEnergy([net EXCEPT !.negative = FALSE])]

(* A balanced reading has nothing to trade and is not announced. *)
Measure(e) ==
    /\ announced[e] = None
    /\ \E m \in Measured :
          LET found == CalculateEnergyStatus(m[1], m[2]) IN
          /\ found.status # "BALANCED"
          /\ announced' = [announced EXCEPT ![e] = [side |-> found.status, kwh |-> found.amount]]
    /\ UNCHANGED <<book, trade, refusal, ledger, again>>

(* A message an operator wrote, or an older producer. *)
HandCraft(e) ==
    /\ announced[e] = None
    /\ \E v \in HandMade, side \in {"SURPLUS", "DEMAND"} :
          announced' = [announced EXCEPT ![e] = [side |-> side, kwh |-> v]]
    /\ UNCHANGED <<book, trade, refusal, ledger, again>>

(* The consumer parks what is no positive amount; the database rounds what *)
(* it is given to its column, and refuses what does not fit.               *)
IsPositiveEnergy(v) == IsDecimalWithin(v, ConsumerBounds)

Consume(e) ==
    /\ announced[e] # None /\ book[e] = None
    /\ LET stored == FormatEnergy(announced[e].kwh).units IN
       book' = [book EXCEPT ![e] =
           [at |-> IF ~IsPositiveEnergy(announced[e].kwh) THEN "parked"
                   ELSE IF stored \in Energy THEN "stored" ELSE "overflow",
            original |-> stored, left |-> stored]]
    /\ UNCHANGED <<announced, trade, refusal, ledger, again>>

-----------------------------------------------------------------------------
(* Trade matching. *)

Stored == {e \in Events : book[e] # None /\ book[e].at = "stored"}
Open(side) == {e \in Stored : announced[e].side = side /\ book[e].left > 0}

TotalAmount(energy, price) == FormatMoney(Mul(energy, price))

Reserve(t) ==
    /\ trade[t] = None
    /\ \E o \in Open("SURPLUS"), r \in Open("DEMAND"), price \in Prices :
          LET kwh == Min({book[o].left, book[r].left})
              energy == Spelled(kwh, EnergyScale)
          IN  /\ trade' = [trade EXCEPT ![t] =
                    [energyKwh |-> energy, pricePerKwh |-> Spelled(price, PriceScale),
                     totalAmount |-> TotalAmount(energy, Spelled(price, PriceScale))]]
              /\ book' = [book EXCEPT ![o].left = @ - kwh, ![r].left = @ - kwh]
    /\ UNCHANGED <<announced, refusal, ledger, again>>

(* How the limits of the services fit each other: billing takes what one   *)
(* trade of a whole reading can come to, and each figure at its own scale. *)
FiguresFit ==
    /\ EnergyOptions.scale = EnergyScale /\ PriceOptions.scale = PriceScale
    /\ TotalOptions.scale = MoneyScale /\ MoneyScale <= EnergyScale + PriceScale
    /\ IsDecimalWithin(Spelled(1, EnergyScale), EnergyOptions)
    /\ IsDecimalWithin(Spelled(MaxReading, EnergyScale), EnergyOptions)
    /\ AtMost(TotalOptions.min, Spelled(0, 0))
    /\ \A price \in Prices :
          /\ IsDecimalWithin(Spelled(price, PriceScale), PriceOptions)
          /\ AtMost(TotalAmount(Spelled(MaxReading, EnergyScale), Spelled(price, PriceScale)),
                    TotalOptions.max)

Request(t) ==
    [energyKwh |-> FormatEnergy(trade[t].energyKwh),
     pricePerKwh |-> FormatPrice(trade[t].pricePerKwh),
     totalAmount |-> FormatMoney(trade[t].totalAmount)]

-----------------------------------------------------------------------------
(* Billing. *)

(* What the body's decorators refuse with a 400. *)
Invalid(dto) ==
    \/ DecimalAmountProblem(dto.energyKwh, EnergyOptions) # "none"
    \/ DecimalAmountProblem(dto.pricePerKwh, PriceOptions) # "none"
    \/ DecimalAmountProblem(dto.totalAmount, TotalOptions) # "none"

ExpectedTotal(energy, price) == FormatMoney(Mul(energy, price))

(* What the business rules refuse with a 422. *)
Impossible(dto) == FormatMoney(dto.totalAmount) # ExpectedTotal(dto.energyKwh, dto.pricePerKwh)

(* Each figure at the scale of its column. *)
Canonical(dto) ==
    [energyKwh |-> FormatEnergy(dto.energyKwh), pricePerKwh |-> FormatPrice(dto.pricePerKwh),
     totalAmount |-> FormatMoney(dto.totalAmount)]

AsWritten(dto) == dto
(* What a request asks for, independent of how it was written. *)
Fingerprint(dto) == Canonical(dto)

DifferingFields(stored, dto) ==
    {field \in DOMAIN dto : Canonical(stored)[field] # Canonical(dto)[field]}

Answer(dto, existing) ==
    CASE Invalid(dto) -> "invalid"
      [] ~Invalid(dto) /\ Impossible(dto) -> "impossible"
      [] ~Invalid(dto) /\ ~Impossible(dto) ->
            IF existing = None THEN "recorded"
            ELSE IF existing.requestHash # Fingerprint(dto) THEN "conflict" ELSE "replayed"

Bill(t) ==
    /\ trade[t] # None /\ ledger[t] = None /\ refusal[t] = None
    /\ LET answer == Answer(Request(t), None) IN
       IF answer = "recorded"
       THEN /\ ledger' = [ledger EXCEPT ![t] =
                  [amounts |-> Request(t), requestHash |-> Fingerprint(Request(t))]]
            /\ UNCHANGED refusal
       ELSE refusal' = [refusal EXCEPT ![t] = answer] /\ UNCHANGED ledger
    /\ UNCHANGED <<announced, book, trade, again>>

(* Ways to write an amount, and the amounts next to it. *)
Rewritten(v) ==
    {v, [v EXCEPT !.units = @ * 10, !.scale = @ + 1], [v EXCEPT !.units = @ + 1],
     [v EXCEPT !.negative = TRUE]}
    \cup {w \in {[v EXCEPT !.units = @ \div 10, !.scale = @ - 1]} : w.scale >= 0 /\ w.units * 10 = v.units}

(* Somebody uses the key of a recorded trade once more. *)
AskAgain(t) ==
    /\ t \in Recorded \cap KeysReused
    /\ LET stored == ledger[t].amounts IN
       \E e \in Rewritten(stored.energyKwh), p \in Rewritten(stored.pricePerKwh),
          m \in Rewritten(stored.totalAmount) :
          LET dto == [energyKwh |-> e, pricePerKwh |-> p, totalAmount |-> m] IN
          again' = [stored |-> stored, dto |-> dto, answer |-> Answer(dto, ledger[t]),
                    fields |-> DifferingFields(stored, dto)]
    /\ UNCHANGED <<announced, book, trade, refusal, ledger>>

(* The dashboard's price of an average kilowatt hour. *)
SumOfEnergy == SumFunction([t \in Recorded |-> trade[t].energyKwh.units])
SumOfTotals == SumFunction([t \in Recorded |-> trade[t].totalAmount.units])
VolumeWeightedPrice ==
    DivideDecimal(Spelled(SumOfTotals, MoneyScale), Spelled(SumOfEnergy, EnergyScale),
                  PriceScale, None)

Next ==
    \/ \E e \in Events : Measure(e) \/ HandCraft(e) \/ Consume(e)
    \/ \E t \in Trades : Reserve(t) \/ Bill(t) \/ AskAgain(t)

Spec == Init /\ [][Next]_vars

-----------------------------------------------------------------------------
(* What measured readings lead to is never refused for its figures: the    *)
(* bounds of four services and two roundings of one product agree.         *)
NoTradeIsRefused == \A t \in Trades : refusal[t] = None

(* A later request with the key is answered from the ledger exactly when   *)
(* it is well formed and each of its amounts is the recorded one, however  *)
(* it is written, and never for two amounts that round to the same.        *)
RepeatsAreRecognised ==
    again # None =>
        (again.answer = "replayed"
         <=> /\ ~Invalid(again.dto)
             /\ \A field \in DOMAIN again.dto :
                   SameAmount(again.dto[field], again.stored[field]))

(* The 409 names exactly the amounts that are not the recorded ones. *)
ConflictsAreExplained ==
    again # None /\ again.answer = "conflict" =>
        again.fields = {field \in DOMAIN again.dto :
                           ~SameAmount(again.dto[field], again.stored[field])}

(* The volume weighted price is none only while nothing was traded, and    *)
(* otherwise as far from the exact one as the rounding of each total and   *)
(* of the quotient explain, and no further.                                *)
VolumeWeightedPriceIsClose ==
    LET exact == SumFunction(
            [t \in Recorded |-> trade[t].energyKwh.units * trade[t].pricePerKwh.units])
        error == VolumeWeightedPrice.units * SumOfEnergy - exact
    IN  /\ Recorded = {} <=> VolumeWeightedPrice = None
        /\ Recorded # {} =>
              LET twice == 2 * (IF error < 0 THEN -error ELSE error)
              IN  twice <= SumOfEnergy + Cardinality(Recorded) * PowerOfTen[EnergyScale + PriceScale - MoneyScale]

(* Nothing billing accepts is outside the pattern its schema documents. *)
AcceptedMatchesSchema ==
    again # None /\ again.answer # "invalid" =>
        /\ MatchesPattern(again.dto.energyKwh, EnergyOptions)
        /\ MatchesPattern(again.dto.pricePerKwh, PriceOptions)
        /\ MatchesPattern(again.dto.totalAmount, TotalOptions)

(* No figure the consumer lets pass fails in the database. *)
OverflowIsCaught == \A e \in Events : book[e] # None => book[e].at # "overflow"
=============================================================================
