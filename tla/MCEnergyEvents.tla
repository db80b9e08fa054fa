---------------------------- MODULE MCEnergyEvents ----------------------------
(***************************************************************************)
(* Two instances of the consumer, two deliveries at once, one retry.  A    *)
(* behaviour belongs to a scenario, chosen at the start:                   *)
(*   "faults"     one event published twice; a crash and a dropped         *)
(*                connection, or an orderly stop and one of the two        *)
(*   "malformed"  an event without an amount and one of a newer producer,  *)
(*                and a dropped connection                                 *)
(*   "two"        two good events, of which the second meets no failure,   *)
(*                and one crash or dropped connection                      *)
(***************************************************************************)
EXTENDS DeliveryHistory, TLC

CONSTANTS h1, h2, i1, i2

ValidBody == [object |-> TRUE, eventId |-> TRUE, correlationId |-> TRUE,
              householdId |-> TRUE, version |-> 1, type |-> "surplus", positive |-> TRUE]

FourEvents == 1 .. 4
FourBodies == <<ValidBody,
                [ValidBody EXCEPT !.type = "demand", !.positive = FALSE],
                [ValidBody EXCEPT !.version = 2],
                [ValidBody EXCEPT !.type = "demand"]>>

Symmetry == Permutations(Handlers) \cup Permutations(Instances)

VARIABLE scenario

Times(e) == CASE scenario = "faults" -> IF e = 1 THEN 2 ELSE 0
              [] scenario = "malformed" -> IF e \in {2, 3} THEN 1 ELSE 0
              [] scenario = "two" -> IF e \in {1, 4} THEN 1 ELSE 0

\* A bound of "two": nothing fails for the second of its events.
NoneFails(e) == \A h \in Handlers : At(h, "failed")' => handler'[h].message.event # e

\* Only one instance has deliveries at a time.
OneAtATime == \A h, g \in Handlers : Busy(h)' /\ Busy(g)' => handler'[h].instance = handler'[g].instance

MCInit == HistInit /\ scenario \in {"faults", "malformed", "two"}

MCNext ==
    /\ HistNext
    /\ \A e \in Events : published'[e] <= Times(e)
    /\ scenario = "malformed" => faults'.crashes + faults'.stops = 0
    /\ faults'.crashes + faults'.drops + faults'.stops <= IF scenario = "two" THEN 1 ELSE 2
    /\ scenario = "two" => faults'.stops = 0 /\ OneAtATime /\ NoneFails(4)
    /\ scenario' = scenario

MCSpec == MCInit /\ [][MCNext]_<<histVars, scenario>>
=============================================================================
