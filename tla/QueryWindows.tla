----------------------------- MODULE QueryWindows -----------------------------
(***************************************************************************)
(* What a reader asks of the statistics and the lists: the rows of a       *)
(* window of time, and one page of them.                                   *)
(***************************************************************************)
EXTENDS Naturals, Sequences, FiniteSets

CONSTANTS
    Hours,       \* bound: the hours that are watched
    PageSize     \* ?limit

ASSUME WindowsAssumption == Hours \in Nat /\ PageSize \in Nat \ {0}

(* A window: the hours from "from" on and before "to".  A bound that is    *)
(* not given is one before, or after, every row.                           *)
Windows == {w \in [from : 0 .. Hours, to : 0 .. Hours] : w.from < w.to}
Everything == [from |-> 0, to |-> Hours]

InWindow(w, moment) == w.from <= moment /\ moment < w.to

(* Rows in the order of an ORDER BY that tells any two of them apart.      *)
Ordered(rows, Before(_, _)) ==
    [n \in 1 .. Cardinality(rows) |->
        CHOOSE r \in rows : Cardinality({s \in rows : Before(s, r)}) = n - 1]

PageOf(rows, page) ==
    SubSeq(rows, (page - 1) * PageSize + 1,
           IF page * PageSize < Len(rows) THEN page * PageSize ELSE Len(rows))
=============================================================================
