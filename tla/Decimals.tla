------------------------------ MODULE Decimals ------------------------------
(***************************************************************************)
(* Decimal amounts as the services spell them: a sign, the digits without  *)
(* their point, and how many of them follow it.  "-0.50" is                *)
(* [negative |-> TRUE, units |-> 50, scale |-> 2].                         *)
(***************************************************************************)
EXTENDS Integers

Spellings == [negative : BOOLEAN, units : Nat, scale : Nat]
Spelled(n, scale) == [negative |-> FALSE, units |-> n, scale |-> scale]

(* The weight of a place.  A function, so that it can be reasoned about for *)
(* every number of decimals.                                               *)
PowerOfTen[n \in Nat] == IF n = 0 THEN 1 ELSE 10 * PowerOfTen[n - 1]

Signed(v) == IF v.negative THEN -v.units ELSE v.units

(* v <= w, whatever their scales. *)
AtMost(v, w) == Signed(v) * PowerOfTen[w.scale] <= Signed(w) * PowerOfTen[v.scale]
SameAmount(v, w) == AtMost(v, w) /\ AtMost(w, v)

RoundHalfUp(n, d) == (2 * n + d) \div (2 * d)

(* A value rounded half up, away from zero, to a number of decimals.  The  *)
(* sign of a value that rounds to zero stays, that of a zero goes.         *)
ToFixed(v, scale) ==
    [negative |-> v.negative /\ v.units # 0,
     units |-> RoundHalfUp(v.units * PowerOfTen[scale], PowerOfTen[v.scale]),
     scale |-> scale]

Mul(v, w) ==
    [negative |-> v.negative # w.negative, units |-> v.units * w.units, scale |-> v.scale + w.scale]

IsDecimalWithin(v, bounds) == AtMost(bounds.min, v) /\ AtMost(v, bounds.max)

(* Why an amount in a request's body is refused. *)
DecimalAmountProblem(v, options) ==
    CASE v.scale > options.scale -> "decimal places"
      [] v.scale <= options.scale /\ ~IsDecimalWithin(v, options) -> "bounds"
      [] OTHER -> "none"

(* The pattern the documented schema has for it: no sign. *)
MatchesPattern(v, options) == ~v.negative /\ v.scale <= options.scale

(* The quotient of two amounts that are not negative, none when the        *)
(* divisor is zero.                                                        *)
DivideDecimal(dividend, divisor, scale, none) ==
    IF divisor.units = 0 THEN none
    ELSE Spelled(RoundHalfUp(dividend.units * PowerOfTen[divisor.scale + scale],
                             divisor.units * PowerOfTen[dividend.scale]), scale)

=============================================================================
