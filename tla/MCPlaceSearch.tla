---------------------------- MODULE MCPlaceSearch ----------------------------
(* PlaceSearch with two texts (one with two predictions, one with one), two *)
(* queries in flight and room for three favorite places.                    *)
EXTENDS PlaceSearch

CONSTANTS home, work, a, ab, q1, q2

MCPlaces == {home, work}
MCTexts == {a, ab}
MCPredictions == [t \in MCTexts |-> IF t = a THEN <<home, work>> ELSE <<work>>]
MCCalls == {q1, q2}
=============================================================================
