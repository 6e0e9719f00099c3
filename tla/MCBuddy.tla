------------------------------ MODULE MCBuddy ------------------------------
(* An instance of Buddy for TLC: a region without a whole page, and one    *)
(* that starts off alignment and holds two buddies of the largest order.   *)
EXTENDS Buddy

MCRegions == <<[start |-> 5, end |-> 5], [start |-> 7, end |-> 16]>>
=============================================================================
