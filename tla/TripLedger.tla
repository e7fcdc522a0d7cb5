----------------------------- MODULE TripLedger -----------------------------
(***************************************************************************)
(* What RideHitch promises about a rider's own trips: a trip gets into the *)
(* phone's list only after the cloud has taken it, and once.               *)
(***************************************************************************)
EXTENDS Sequences

CONSTANT Trips

VARIABLES
    accepted,   \* trips DynamoDB has stored at some time
    recorded    \* the RealmTrip rows, oldest first

vars == <<accepted, recorded>>

Init == accepted = {} /\ recorded = <<>>

Listed == {recorded[i] : i \in DOMAIN recorded}

Accept(t) ==
    /\ accepted' = accepted \union {t}
    /\ UNCHANGED recorded

Record(t) ==
    /\ t \in accepted \ Listed
    /\ recorded' = Append(recorded, t)
    /\ UNCHANGED accepted

Next == \E t \in Trips : Accept(t) \/ Record(t)

Spec == Init /\ [][Next]_vars
=============================================================================
