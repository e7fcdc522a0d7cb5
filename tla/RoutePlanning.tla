---------------------------- MODULE RoutePlanning ----------------------------
(***************************************************************************)
(* Choosing a destination and getting a route for it: AddTripWithMapVC,    *)
(* the RouteCalculator singleton it shares with every other instance of    *)
(* itself, and the two calls it waits for (a Google place lookup, then a   *)
(* MapKit directions request).  Everything runs on the main thread, so an  *)
(* action is one event of the run loop; the interleavings are those of the *)
(* user's gestures with the completion handlers.                           *)
(*                                                                         *)
(* A screen is one AddTripWithMapVC object.  The completion handler of a   *)
(* lookup captures the screen, so a screen the user has left ("gone")      *)
(* still runs it; the handler of a directions request captures only the    *)
(* singleton, which tells whoever observes "RouteCalculated".              *)
(***************************************************************************)
EXTENDS Naturals, FiniteSets

CONSTANTS
    Screens,     \* AddTripWithMapVC objects that may exist together
    Places,      \* places the user may choose
    Locations,   \* positions the device may report
    Calls,       \* identities of the SDK calls in flight: the bound on them
    MaxAlts,     \* most alternative routes one MapKit answer carries
    None         \* Swift's nil

ASSUME MaxAltsAssumption == MaxAlts \in Nat \ {0}
ASSUME NoneAssumption == None \notin Places \union Locations

VARIABLES
    status,         \* where each screen stands in the navigation
    observers,      \* screens registered for "RouteCalculated"
    location,       \* currentLocation of each screen
    currentResult,  \* the looked up place of each screen
    nextEnabled,    \* nextButton.isEnabled
    segments,       \* segments of the screen's route control, 0 while hidden
    drawn,          \* which alternative the screen's map shows, 0 before any
    lookups,        \* outstanding lookUpPlaceID calls
    dirs,           \* outstanding MKDirections requests
    calc,           \* routes and polygon of the RouteCalculator singleton
    identified,     \* AWSIdentityManager has an identityId
    trip,           \* the Trips object handed to ConfigureTripVC
    trap,           \* the force unwrap or index that ended the process
    orderly         \* history: so far the user waited and no call failed

screenVars == <<status, observers, location, currentResult, nextEnabled,
                segments, drawn>>
vars == <<screenVars, lookups, dirs, calc, identified, trip, trap, orderly>>

Route == [from : Locations, to : Places, alts : 1..MaxAlts]
NoRoute == [alts |-> 0]
Trip == [origin : Locations, destination : Places, polygon : Route]
NoTrip == [origin |-> None]
Traps == {"none", "nilLocation", "nilIdentity", "nilOrigin", "nilDestination",
          "nilPolygon", "nilRoutes", "badIndex"}

TypeOK ==
    /\ status \in [Screens -> {"unborn", "visible", "otherTab", "configuring", "gone"}]
    /\ observers \subseteq Screens
    /\ location \in [Screens -> Locations \union {None}]
    /\ currentResult \in [Screens -> Places \union {None}]
    /\ nextEnabled \in [Screens -> BOOLEAN]
    /\ segments \in [Screens -> 0..MaxAlts]
    /\ drawn \in [Screens -> 0..MaxAlts]
    /\ lookups \subseteq [id : Calls, by : Screens, place : Places]
    /\ dirs \subseteq [id : Calls, from : Locations, to : Places]
    /\ calc \in Route \union {NoRoute}
    /\ identified \in BOOLEAN
    /\ trip \in Trip \union {NoTrip}
    /\ trap \in Traps
    /\ orderly \in BOOLEAN

(* On the navigation stack of the first tab. *)
Live(s) == status[s] \in {"visible", "otherTab", "configuring"}
Idle == lookups = {} /\ dirs = {}
InUse == {l.id : l \in lookups} \union {d.id : d \in dirs}
Running == trap = "none"

(* A trap ends the process: nothing else of the handler takes effect. *)
Trap(why) ==
    /\ trap' = why
    /\ UNCHANGED <<screenVars, lookups, dirs, calc, identified, trip, orderly>>

Init ==
    /\ status = [s \in Screens |-> "unborn"]
    /\ observers = {}
    /\ location = [s \in Screens |-> None]
    /\ currentResult = [s \in Screens |-> None]
    /\ nextEnabled = [s \in Screens |-> FALSE]
    /\ segments = [s \in Screens |-> 0]
    /\ drawn = [s \in Screens |-> 0]
    /\ lookups = {}
    /\ dirs = {}
    /\ calc = NoRoute
    /\ identified = FALSE
    /\ trip = NoTrip
    /\ trap = "none"
    /\ orderly = TRUE

-----------------------------------------------------------------------------
(* The life of a screen *)

(* addObserver and removeObserver *)
viewWillAppear(s) == observers' = observers \union {s}
viewWillDisappearKeepsObserver(s) == observers' = observers  \* mutant
viewWillDisappear(s) == observers' = observers \ {s}

OpenEnabled(s) ==   \* mutant: viewDidLoad does not disable Next
    /\ Running
    /\ status[s] = "unborn"
    /\ \A other \in Screens : ~Live(other)
    /\ status' = [status EXCEPT ![s] = "visible"]
    /\ nextEnabled' = [nextEnabled EXCEPT ![s] = TRUE]
    /\ viewWillAppear(s)
    /\ orderly' = (orderly /\ Idle)
    /\ UNCHANGED <<location, currentResult, segments, drawn, lookups, dirs,
                   calc, identified, trip, trap>>

(* "+" on the list of trips pushes a new screen: viewDidLoad, then          *)
(* viewWillAppear.  The other outlets have the values of a fresh object.    *)
Open(s) ==
    /\ Running
    /\ status[s] = "unborn"
    /\ \A other \in Screens : ~Live(other)
    /\ status' = [status EXCEPT ![s] = "visible"]
    /\ nextEnabled' = [nextEnabled EXCEPT ![s] = FALSE]
    /\ viewWillAppear(s)
    /\ orderly' = (orderly /\ Idle)
    /\ UNCHANGED <<location, currentResult, segments, drawn, lookups, dirs,
                   calc, identified, trip, trap>>

(* The user leaves for the other tab, or pops the screen. *)
Leave(s, to) ==
    /\ Running
    /\ status[s] = "visible"
    /\ status' = [status EXCEPT ![s] = to]
    /\ viewWillDisappear(s)
    /\ orderly' = (orderly /\ Idle)
    /\ UNCHANGED <<location, currentResult, nextEnabled, segments, drawn,
                   lookups, dirs, calc, identified, trip, trap>>

SwitchTab(s) == Leave(s, "otherTab")
Back(s) == Leave(s, "gone")

(* The first tab, or the screen under ConfigureTripVC, appears again.       *)
Reappear(s, from) ==
    /\ Running
    /\ status[s] = from
    /\ status' = [status EXCEPT ![s] = "visible"]
    /\ viewWillAppear(s)
    /\ trip' = NoTrip
    /\ UNCHANGED <<location, currentResult, nextEnabled, segments, drawn,
                   lookups, dirs, calc, identified, trap, orderly>>

ReturnToTab(s) == Reappear(s, "otherTab")
BackFromConfigure(s) == Reappear(s, "configuring")

(* ConfigureTripVC hands the trip to the upload and pops to the list,       *)
(* past this screen, whose view is already off screen.                      *)
RequestRide(s) ==
    /\ Running
    /\ status[s] = "configuring"
    /\ status' = [status EXCEPT ![s] = "gone"]
    /\ trip' = NoTrip
    /\ UNCHANGED <<observers, location, currentResult, nextEnabled, segments,
                   drawn, lookups, dirs, calc, identified, trap, orderly>>

(* The last reference to a popped screen goes: no handler captures it.      *)
Release(s) ==
    /\ Running
    /\ status[s] = "gone"
    /\ \A l \in lookups : l.by # s
    /\ status' = [status EXCEPT ![s] = "unborn"]
    /\ location' = [location EXCEPT ![s] = None]
    /\ currentResult' = [currentResult EXCEPT ![s] = None]
    /\ nextEnabled' = [nextEnabled EXCEPT ![s] = FALSE]
    /\ segments' = [segments EXCEPT ![s] = 0]
    /\ drawn' = [drawn EXCEPT ![s] = 0]
    /\ UNCHANGED <<observers, lookups, dirs, calc, identified, trip, trap, orderly>>

(* The process starts afresh after a trap: nothing here is persistent.      *)
Relaunch ==
    /\ ~Running
    /\ status' = [s \in Screens |-> "unborn"]
    /\ observers' = {}
    /\ location' = [s \in Screens |-> None]
    /\ currentResult' = [s \in Screens |-> None]
    /\ nextEnabled' = [s \in Screens |-> FALSE]
    /\ segments' = [s \in Screens |-> 0]
    /\ drawn' = [s \in Screens |-> 0]
    /\ lookups' = {}
    /\ dirs' = {}
    /\ calc' = NoRoute
    /\ identified' = FALSE
    /\ trip' = NoTrip
    /\ trap' = "none"
    /\ orderly' = TRUE

(* The resumed session or a login gives the process its identity, at some   *)
(* time after the launch (Session says when).                               *)
Identify ==
    /\ Running
    /\ ~identified
    /\ identified' = TRUE
    /\ UNCHANGED <<screenVars, lookups, dirs, calc, trip, trap, orderly>>

-----------------------------------------------------------------------------
(* Location, lookup, directions *)

(* didUpdateLocations: the first fix is kept and the manager dropped.       *)
LocationFix(s, where) ==
    /\ Running
    /\ status[s] # "unborn"
    /\ location[s] = None
    /\ location' = [location EXCEPT ![s] = where]
    /\ UNCHANGED <<status, observers, currentResult, nextEnabled, segments,
                   drawn, lookups, dirs, calc, identified, trip, trap, orderly>>

(* A row of the table is tapped: look the place up.                         *)
Select(s, place) ==
    /\ Running
    /\ status[s] = "visible"
    /\ \E id \in Calls \ InUse :
         lookups' = lookups \union {[id |-> id, by |-> s, place |-> place]}
    /\ orderly' = (orderly /\ Idle)
    /\ UNCHANGED <<screenVars, dirs, calc, identified, trip, trap>>

(* The lookup's handler with a place: keep it, pin it, ask for directions   *)
(* from currentLocation!.                                                   *)
LookupFound(l) ==
    /\ Running
    /\ location[l.by] # None
    /\ lookups' = lookups \ {l}
    /\ currentResult' = [currentResult EXCEPT ![l.by] = l.place]
    /\ dirs' = dirs \union
         {[id |-> l.id, from |-> location[l.by], to |-> l.place]}
    /\ UNCHANGED <<status, observers, location, nextEnabled, segments, drawn, calc,
                   identified, trip, trap, orderly>>

LookupFoundTraps(l) ==
    /\ Running
    /\ location[l.by] = None
    /\ Trap("nilLocation")

(* The same handler when the lookup failed: completion(nil).                *)
LookupFailed(l) ==
    /\ Running
    /\ lookups' = lookups \ {l}
    /\ currentResult' = [currentResult EXCEPT ![l.by] = None]
    /\ orderly' = FALSE
    /\ UNCHANGED <<status, observers, location, nextEnabled, segments, drawn,
                   dirs, calc, identified, trip, trap>>

routesReadyOldControl(route) ==   \* mutant: the control is built once
    /\ nextEnabled' = [s \in Screens |-> s \in observers \/ nextEnabled[s]]
    /\ segments' = [s \in Screens |->
         IF s \in observers /\ segments[s] = 0 THEN route.alts ELSE segments[s]]
    /\ drawn' = [s \in Screens |->
         IF s \in observers THEN 1 ELSE drawn[s]]

routesReadyOneMore(route) ==   \* mutant: a segment for 0...numRoutes
    /\ nextEnabled' = [s \in Screens |-> s \in observers \/ nextEnabled[s]]
    /\ segments' = [s \in Screens |->
         IF s \in observers THEN route.alts + 1 ELSE segments[s]]
    /\ UNCHANGED drawn

routesReadySilent(route) ==   \* mutant: Next stays disabled
    /\ segments' = [s \in Screens |->
         IF s \in observers THEN route.alts ELSE segments[s]]
    /\ UNCHANGED <<nextEnabled, drawn>>

(* routesReady on every registered screen: a control with one segment per   *)
(* route, the first route drawn, Next enabled.                              *)
routesReady(route) ==
    /\ nextEnabled' = [s \in Screens |-> s \in observers \/ nextEnabled[s]]
    /\ segments' = [s \in Screens |->
                      IF s \in observers THEN route.alts ELSE segments[s]]
    /\ drawn' = [s \in Screens |->
                   IF s \in observers THEN 1
                                      ELSE drawn[s]]

(* MapKit answers: the singleton takes the routes, computes the polygon of  *)
(* the first one and posts the notification before it returns.              *)
DirectionsFound(d, alts) ==
    LET route == [from |-> d.from, to |-> d.to, alts |-> alts] IN
    /\ Running
    /\ dirs' = dirs \ {d}
    /\ calc' = route
    /\ routesReady(route)
    /\ UNCHANGED <<status, observers, location, currentResult, lookups,
                   identified, trip, trap, orderly>>

(* MapKit answers with an error: nothing is said to anybody.                *)
DirectionsFailed(d) ==
    /\ Running
    /\ dirs' = dirs \ {d}
    /\ orderly' = FALSE
    /\ UNCHANGED <<screenVars, lookups, calc, identified, trip, trap>>

-----------------------------------------------------------------------------
(* The user with a route *)

(* Another segment is tapped: routes![index] is drawn, if there is one.     *)
changeRoute(s, index) ==
    /\ Running
    /\ status[s] = "visible"
    /\ index \in 1..segments[s]
    /\ index \in 1..calc.alts
    /\ nextEnabled' = [nextEnabled EXCEPT ![s] = TRUE]
    /\ drawn' = [drawn EXCEPT ![s] = index]
    /\ UNCHANGED <<status, observers, location, currentResult, segments, lookups,
                   dirs, calc, identified, trip, trap, orderly>>

changeRouteTraps(s, index) ==
    /\ Running
    /\ status[s] = "visible"
    /\ index \in 1..segments[s]
    /\ index \notin 1..calc.alts
    /\ Trap(IF calc = NoRoute THEN "nilRoutes" ELSE "badIndex")

(* What prepare(for:) unwraps, in its order, and finds nil.                 *)
Missing(s) ==
    IF ~identified THEN "nilIdentity"
    ELSE IF location[s] = None THEN "nilOrigin"
    ELSE IF currentResult[s] = None THEN "nilDestination"
    ELSE IF calc = NoRoute THEN "nilPolygon"
    ELSE "none"

(* prepare(for:) of configureTripSegue: the trip takes its origin and       *)
(* destination from the screen and its polygon from the singleton.          *)
prepare(s) ==
    /\ Running
    /\ status[s] = "visible"
    /\ nextEnabled[s]
    /\ Missing(s) = "none"
    /\ trip' = [origin |-> location[s], destination |-> currentResult[s],
                polygon |-> calc]
    /\ status' = [status EXCEPT ![s] = "configuring"]
    /\ viewWillDisappear(s)
    /\ orderly' = (orderly /\ Idle)
    /\ UNCHANGED <<location, currentResult, nextEnabled, segments, drawn, lookups,
                   dirs, calc, identified, trap>>

prepareTraps(s) ==
    /\ Running
    /\ status[s] = "visible"
    /\ nextEnabled[s]
    /\ Missing(s) # "none"
    /\ Trap(Missing(s))

-----------------------------------------------------------------------------
Navigate(s) ==
    \/ Open(s) \/ SwitchTab(s) \/ ReturnToTab(s) \/ Back(s)
    \/ BackFromConfigure(s) \/ RequestRide(s) \/ Release(s)

Answer(id) ==
    \/ \E l \in lookups :
         /\ l.id = id
         /\ LookupFound(l) \/ LookupFoundTraps(l) \/ LookupFailed(l)
    \/ \E d \in dirs :
         /\ d.id = id
         /\ DirectionsFailed(d) \/ \E n \in 1..MaxAlts : DirectionsFound(d, n)

Next ==
    \/ Relaunch \/ Identify
    \/ \E s \in Screens :
         \/ Navigate(s)
         \/ prepare(s) \/ prepareTraps(s)
         \/ \E where \in Locations : LocationFix(s, where)
         \/ \E place \in Places : Select(s, place)
         \/ \E index \in 1..MaxAlts : changeRoute(s, index) \/ changeRouteTraps(s, index)
    \/ \E id \in Calls : Answer(id)

(* Both SDKs call a completion handler once for every call.  The user, the  *)
(* location service and the launch of the process owe nothing.              *)
Fairness == \A id \in Calls : WF_vars(Answer(id))

Spec == Init /\ [][Next]_vars /\ Fairness

-----------------------------------------------------------------------------
(* Properties *)

(* The force unwraps of the singleton's routes and polygon never meet nil:  *)
(* Next and the route control are only reachable once it holds a route.     *)
SingletonUnwrapsHold == trap \notin {"nilPolygon", "nilRoutes"}

(* A route that arrives while a screen is covered, on the other tab or      *)
(* popped changes nothing on it: only the screen in view hears of routes.   *)
OffscreenMapFrozen ==
    [][\A s \in Screens :
         status[s] \in {"otherTab", "configuring", "gone"} /\ status'[s] # "unborn"
           => drawn'[s] = drawn[s] /\ nextEnabled'[s] = nextEnabled[s]]_vars

(* A user who waits for every answer before the next gesture, and whose     *)
(* calls succeed, uploads the polygon of a route that leaves from the       *)
(* trip's origin and ends at its destination, although the three are read   *)
(* from two objects that are written by different handlers; and for such a  *)
(* user no unwrap can fail but that of the location at line 179 and, while  *)
(* the process has no identity, that of line 62; and every segment is a     *)
(* route of the singleton.                                                  *)
OrderlyUse ==
    orderly =>
      /\ trap \in {"none", "nilLocation"} \/ (trap = "nilIdentity" /\ ~identified)
      /\ trip # NoTrip => /\ trip.polygon.from = trip.origin
                         /\ trip.polygon.to = trip.destination
      /\ \A s \in Screens : status[s] = "visible" /\ segments[s] > 0
                              => segments[s] = calc.alts

(* A lookup made by such a user leads to Next being enabled, unless a call  *)
(* fails, the user stops waiting or the process dies.                       *)
RouteOffered ==
    \A s \in Screens :
      (orderly /\ \E l \in lookups : l.by = s)
        ~> (nextEnabled[s] \/ ~orderly \/ trap # "none")

(* The unwrap at AddTripWithMapVC.swift:179 asserts that a place is only    *)
(* routed once the device has reported its position.                        *)
LocationUnwrapHolds == trap # "nilLocation"

(* The unwraps at AddTripWithMapVC.swift:69-71 assert that Next is only     *)
(* pressed with a looked up place.                                          *)
DestinationUnwrapHolds == trap # "nilDestination"
=============================================================================
