------------------------------ MODULE MCMatching ------------------------------
(* Matching with two trips of the rider, two offers and two finds in flight *)
EXTENDS Matching, TLC

CONSTANTS m1, m2, o1, o2, c1, c2

MCMine == {m1, m2}
MCOffers == {o1, o2}
MCCalls == {c1, c2}

MCSymmetry == Permutations(MCMine) \union Permutations(MCOffers) \union Permutations(MCCalls)
=============================================================================
