---------------------------- MODULE MCTripUpload ----------------------------
(* TripUpload with three trips, two of which were given the same key.       *)
EXTENDS TripUpload

CONSTANTS t1, t2, t3, k1, k2

MCTrips == {t1, t2, t3}
MCKeys == {k1, k2}
MCKeyOf == [t \in MCTrips |-> IF t = t3 THEN k2 ELSE k1]
=============================================================================
