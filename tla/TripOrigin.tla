----------------------------- MODULE TripOrigin -----------------------------
(***************************************************************************)
(* From the permission to the key of a trip: the position a screen has got *)
(* becomes the origin of a trip, and the geohash of the origin the key     *)
(* under which the trip is stored.  What else the trip takes from the      *)
(* screen, and the traps of the segue, are RoutePlanning's.                *)
(***************************************************************************)
EXTENDS LocationPermission, Geohash

CONSTANT KeyLength      \* characters of a trip's geohash: 4 in the program

ASSUME KeyLengthAssumption == KeyLength \in Nat \ {0}

\* Positions, here, are points of the grid.
ASSUME GridAssumption == Positions \subseteq [lat : -Side..Side, lon : -Side..Side]

\* The halvings that a key keeps are exact, as they are in the program, which
\* halves 90.0 and 180.0 ten times for a key: a double has 53 bits.
ASSUME ExactAssumption == (2 * Side) % pow2[(5 * KeyLength + 1) \div 2] = 0

VARIABLE trip           \* by screen, the trip it has made, or None

allVars == <<vars, trip>>

OriginInit == Init /\ trip = [s \in Screens |-> None]

\* The trip of a screen takes the position of that moment, and has no key yet.
prepare(s) ==
    /\ currentLocation[s] # None
    /\ trip' = [trip EXCEPT ![s] = [origin |-> currentLocation[s], geohash |-> <<>>]]
    /\ UNCHANGED vars

\* The key is of the trip's origin, not of where the rider is by now.
requestButtonPressed(s) ==
    /\ trip[s] # None
    /\ LET origin == trip[s].origin IN
         trip' = [trip EXCEPT ![s].geohash = encode(origin.lat, origin.lon, KeyLength)]
    /\ UNCHANGED vars

Located(A) == A /\ UNCHANGED trip

OriginNext ==
    \/ \E s \in Screens :
         \/ Located(proposeDetermined(s)) \/ Located(proposeDisabled(s))
         \/ Located(proposeUndetermined(s))
         \/ \E p \in Positions : Located(didUpdateLocations(s, p))
         \/ prepare(s) \/ requestButtonPressed(s)
    \/ Located(ShowAlert) \/ Located(DismissAlert)
    \/ \E to \in Statuses : Located(ChangeStatus(to))
    \/ Located(didChangeAuthorization) \/ Located(answer)
    \/ Relaunch /\ trip' = [s \in Screens |-> None]

\* The main run loop delivers the delegate's callbacks and runs its blocks.
\* Nothing is assumed of the user or of the reception of positions.
OriginSpec ==
    /\ OriginInit /\ [][OriginNext]_allVars
    /\ WF_allVars(Located(didChangeAuthorization)) /\ WF_allVars(Located(answer))
-----------------------------------------------------------------------------
Uploaded(s) == trip[s] # None /\ trip[s].geohash # <<>>

\* The reference, of Geohash: the strips of the grid that the bits of a key
\* stand for, the longitude's being one more when their number is odd.
Cell(p) ==
    LET bits == 5 * KeyLength
    IN  [longitude |-> Strip(p.lon, (bits + 1) \div 2),
         latitude  |-> Strip(p.lat, bits \div 2)]

\* The key of a trip stands for the one cell of the grid that holds its origin,
\* whatever edge or corner the origin is on, and wherever the screen's location
\* is by the time the button is pressed.
KeyIsOriginsCell ==
    \A s \in Screens : Uploaded(s) => decode(trip[s].geohash, None) = Cell(trip[s].origin)

\* Trips can meet in a query by key exactly if they start in one cell.
SameKeySameCell ==
    \A s, t \in Screens : Uploaded(s) /\ Uploaded(t) =>
        (trip[s].geohash = trip[t].geohash <=> Cell(trip[s].origin) = Cell(trip[t].origin))
=============================================================================
