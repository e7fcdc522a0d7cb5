--------------------------- MODULE MCRoutePlanning ---------------------------
(* RoutePlanning with two screens (the one in view and one left behind),    *)
(* two places, one position and two calls in flight at a time.              *)
EXTENDS RoutePlanning

CONSTANTS s1, s2, home, airport, here, c1, c2

MCScreens == {s1, s2}
MCPlaces == {home, airport}
MCLocations == {here}
MCCalls == {c1, c2}
=============================================================================
