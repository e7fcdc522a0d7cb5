---------------------------- MODULE MCTripOrigin ----------------------------
(***************************************************************************)
(* Two screens and five points: a mean of the halvings, the points beside  *)
(* it on one and on both axes, and the two ends of both axes.              *)
(***************************************************************************)
EXTENDS TripOrigin

MCPositions == {[lat |-> 0, lon |-> 0], [lat |-> -1, lon |-> 0],
                [lat |-> -1, lon |-> -1], [lat |-> Side, lon |-> Side],
                [lat |-> -Side, lon |-> -Side]}
=============================================================================
