-------------------------- MODULE MCMatchingPlanner --------------------------
(* A small instance of MatchingPlanner: ann and bob are on both sides. *)
EXTENDS MatchingPlanner

CONSTANTS ann, bob, cyd

ThreeSellers == <<ann, bob, ann>>
ThreeBuyers == <<ann, cyd, bob>>
=============================================================================
