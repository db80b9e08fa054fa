---------------------------- MODULE MCMeterReadings ----------------------------
(***************************************************************************)
(* A few meter readings posted at once, a reader of the statistics, and    *)
(* what becomes of the figures of a reading.  A behaviour belongs to a     *)
(* scenario, chosen at the start:                                          *)
(*   "race"       three calls at once, one payload for each reading        *)
(*   "payloads"   three calls at once, two payloads for one reading        *)
(*   "figures"    the readings of "race", two calls at once, and the       *)
(*                statistics compared in every state                       *)
(*   "lists"      one call at a time over three households, while a list   *)
(*                is read page by page                                     *)
(*   "measured", "repeated"   nothing is posted; TradeAmounts, which has   *)
(*                variables of its own, does all                           *)
(***************************************************************************)
EXTENDS EnergyStatistics

CONSTANTS c1, c2, c3, ann, bob, cyd, e1, e2, e3, t1, t2, Nothing

Took(h, t, p, c) == [household |-> h, time |-> t, production |-> p, consumption |-> c]

\* A surplus, a demand and a balanced reading of one household, a surplus of another.
OnePerKey == {Took(ann, 0, 3, 1), Took(ann, 1, 1, 2), Took(ann, 2, 2, 2), Took(bob, 1, 5, 0)}

\* Two readings for one time, and readings for later times.
TwoPerKey == {Took(ann, 0, 3, 1), Took(ann, 0, 1, 2), Took(ann, 1, 2, 2), Took(ann, 2, 4, 0)}

\* Three households, two of which report again.
ThreeHouseholds == {Took(ann, 0, 1, 0), Took(bob, 0, 2, 0), Took(cyd, 0, 3, 0),
                    Took(ann, 1, 4, 0), Took(bob, 1, 0, 1)}

EveryReading == OnePerKey \cup TwoPerKey \cup ThreeHouseholds
Alphabetical == (ann :> 1) @@ (bob :> 2) @@ (cyd :> 3)
HandlerSymmetry == Permutations(Handlers)

-----------------------------------------------------------------------------
(* The figures of what is measured, on their way to the ledger: energy to  *)
(* the hundredth of a kilowatt hour, prices and money to one decimal; 0.004,  *)
(* 0.019, 4.00 and one less than the column holds.                         *)
VARIABLES announced, book, trade, refusal, ledger, asked
amountsVars == <<announced, book, trade, refusal, ledger, asked>>

Decimal(units, scale) == [negative |-> FALSE, units |-> units, scale |-> scale]
ProducedAndConsumed == {<<1, 0>>, <<0, 2>>, <<300, 0>>, <<0, 300>>, <<7, 30>>, <<30, 7>>}

CONSTANT Figures
FiguresOfThree ==
    [Events |-> {e1, e2, e3}, Trades |-> {t1, t2}, KeysReused |-> {t1}, LateEvents |-> {e3},
     EnergyScale |-> 2, PriceScale |-> 1, MoneyScale |-> 1, EnergyDigits |-> 5, MaxReading |-> 300,
     Measured |-> ProducedAndConsumed,
     HandMade |-> {Decimal(4, 3), Decimal(19, 3), Decimal(400, 2), Decimal(99999, 2)},
     Prices |-> {25, 33, 48},
     ConsumerBounds |-> [min |-> Decimal(1, 2), max |-> Decimal(1000, 0)],
     EnergyOptions |-> [min |-> Decimal(1, 2), max |-> Decimal(3, 0), scale |-> 2],
     PriceOptions |-> [min |-> Decimal(1, 1), max |-> Decimal(1000, 0), scale |-> 1],
     TotalOptions |-> [min |-> Decimal(0, 0), max |-> Decimal(1000, 0), scale |-> 1]]

Amounts == INSTANCE TradeAmounts WITH
    again <- asked, None <- Nothing, Events <- Figures.Events, Trades <- Figures.Trades,
    KeysReused <- Figures.KeysReused, EnergyScale <- Figures.EnergyScale,
    PriceScale <- Figures.PriceScale, MoneyScale <- Figures.MoneyScale,
    EnergyDigits <- Figures.EnergyDigits, MaxReading <- Figures.MaxReading,
    Measured <- Figures.Measured, HandMade <- Figures.HandMade, Prices <- Figures.Prices,
    ConsumerBounds <- Figures.ConsumerBounds, EnergyOptions <- Figures.EnergyOptions,
    PriceOptions <- Figures.PriceOptions, TotalOptions <- Figures.TotalOptions
ASSUME AmountsConstants == Amounts!AmountsAssumption /\ Amounts!FiguresFit

\* Trades of what meters measured; or one trade of whatever is announced, asked for again.
Measuring ==
    \/ \E e \in Figures.Events : Amounts!Measure(e) \/ Amounts!Consume(e)
    \/ \E t \in Figures.Trades : Amounts!Reserve(t) \/ Amounts!Bill(t)
Repeating ==
    \/ \E e \in Figures.Events \ Figures.LateEvents :
          Amounts!Measure(e) \/ Amounts!HandCraft(e) \/ Amounts!Consume(e)
    \/ \E t \in Figures.KeysReused :
          \/ Amounts!Reserve(t) \/ Amounts!Bill(t)
          \/ asked = Nothing /\ Amounts!AskAgain(t)

-----------------------------------------------------------------------------
VARIABLE scenario

Calls == CASE scenario \in {"race", "figures"} -> OnePerKey
           [] scenario = "payloads" -> TwoPerKey
           [] OTHER -> ThreeHouseholds
AtOnce == CASE scenario \in {"race", "payloads"} -> 3 [] scenario = "figures" -> 2 [] OTHER -> 1

MCInit ==
    /\ StatInit /\ Amounts!Init
    /\ scenario \in {"race", "payloads", "figures", "lists", "measured", "repeated"}

ReadingSteps ==
    /\ scenario \notin {"measured", "repeated"} /\ StatNext
    /\ \A h \in Handlers : At(h, "idle") /\ pc'[h] = "received" => posted'[h] \in Calls
    /\ Cardinality({h \in Handlers : pc'[h] # "idle"}) <= AtOnce
    /\ IF scenario = "lists" THEN failures' = 0 /\ now' <= 1 ELSE listing' = listing
    /\ UNCHANGED amountsVars

AmountsSteps ==
    /\ \/ scenario = "measured" /\ Measuring
       \/ scenario = "repeated" /\ Repeating
    /\ UNCHANGED allVars

\* The events and trades come to an end.
Finished == scenario \in {"measured", "repeated"} /\ UNCHANGED <<allVars, amountsVars>>

MCNext == (ReadingSteps \/ AmountsSteps \/ Finished) /\ scenario' = scenario

MCSpec == MCInit /\ [][MCNext]_<<allVars, amountsVars, scenario>>

-----------------------------------------------------------------------------
(* The ways of adding up the readings agree over every window, the status  *)
(* rows tell of the same readings, and a household that sends nothing      *)
(* while a list is read is on one of its pages.                            *)
StatisticsAgree ==
    /\ scenario = "figures" => FiguresAgree /\ ReportedIsMeasured
    /\ QuietAreListed

(* What meters measure is never refused for its figures on the way to the  *)
(* ledger, an average price is as close as its roundings, and a repeated   *)
(* request is known by its amounts, however they are written.              *)
(* (formatEnergy, decimalProblem, expectedTotal, fingerprint)              *)
AmountsAgree ==
    scenario \in {"measured", "repeated"} =>
        /\ Amounts!TypeOK
        /\ scenario = "measured" => Amounts!NoTradeIsRefused /\ Amounts!VolumeWeightedPriceIsClose
        /\ Amounts!RepeatsAreRecognised /\ Amounts!ConflictsAreExplained
=============================================================================
