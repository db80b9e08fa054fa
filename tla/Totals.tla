------------------------------- MODULE Totals -------------------------------
(***************************************************************************)
(* The total of a numbered family of amounts: how many kWh a set of trades *)
(* holds, what a ledger's entries add up to.  Written as a recursive       *)
(* function of the number of amounts so that it can be reasoned about for  *)
(* every number of them (TotalsProofs).                                    *)
(***************************************************************************)
EXTENDS Naturals

(* amount[1] + ... + amount[n] for amount \in [1 .. n -> Nat]. *)
RunningTotal(amount, n) ==
    LET sum[k \in 0 .. n] == IF k = 0 THEN 0 ELSE sum[k - 1] + amount[k]
    IN  sum

Total(amount, n) == RunningTotal(amount, n)[n]
=============================================================================
