------------------------ MODULE RoutePlanning_proofs ------------------------
(***************************************************************************)
(* Proofs about RoutePlanning for any numbers of screens, places,          *)
(* positions, calls in flight and alternative routes.                      *)
(***************************************************************************)
EXTENDS RoutePlanning, TLAPS

-----------------------------------------------------------------------------
(* The inductive invariant *)

(* viewWillAppear and viewWillDisappear are balanced, and the navigation    *)
(* stack holds one AddTripWithMapVC at most.                                *)
Registered ==
    /\ observers = {s \in Screens : status[s] = "visible"}
    /\ \A s, t \in Screens : Live(s) /\ Live(t) => s = t
    /\ \A s \in Screens : status[s] = "unborn" => segments[s] = 0

(* An enabled Next, or a control with segments, has a route behind it.      *)
RouteBehindNext ==
    /\ \A s \in Screens : (segments[s] > 0 => nextEnabled[s]) /\ (nextEnabled[s] => calc # NoRoute)
    /\ SingletonUnwrapsHold

(* What waiting for every answer buys: one call in flight at most, made for *)
(* the screen in view, and a singleton that agrees with that screen.        *)
OrderlyAgrees ==
    orderly =>
      /\ trap \in {"none", "nilLocation"} \/ (trap = "nilIdentity" /\ ~identified)
      /\ \A l, m \in lookups : l = m
      /\ \A d, e \in dirs : d = e
      /\ lookups = {} \/ dirs = {}
      /\ \A l \in lookups : status[l.by] = "visible"
      /\ \A d \in dirs : \E s \in Screens : /\ status[s] = "visible"
                                            /\ location[s] = d.from
                                            /\ currentResult[s] = d.to
      /\ \A s \in Screens : Live(s) /\ nextEnabled[s] /\ dirs = {} =>
           location[s] = calc.from /\ currentResult[s] = calc.to
      /\ \A s \in Screens : Live(s) /\ segments[s] > 0 => segments[s] = calc.alts
      /\ trip # NoTrip => /\ trip.polygon.from = trip.origin
                          /\ trip.polygon.to = trip.destination

(* The inductive invariant.                                                 *)
IInv == TypeOK /\ Registered /\ RouteBehindNext /\ OrderlyAgrees

-----------------------------------------------------------------------------
(* It holds at the start and every step keeps it *)

(* The invariant holds at launch.                                           *)
LEMMA InitIInv == Init => IInv
<1> SUFFICES ASSUME Init PROVE IInv
  OBVIOUS
<1> USE MaxAltsAssumption DEF Init
<1>1. TypeOK
  <2>1. /\ status \in [Screens -> {"unborn", "visible", "otherTab", "configuring", "gone"}]
        /\ location \in [Screens -> Locations \union {None}]
        /\ currentResult \in [Screens -> Places \union {None}]
        /\ nextEnabled \in [Screens -> BOOLEAN]
    OBVIOUS
  <2>2. segments \in [Screens -> 0..MaxAlts] /\ drawn \in [Screens -> 0..MaxAlts]
    OBVIOUS
  <2>3. /\ observers \subseteq Screens
        /\ lookups \subseteq [id : Calls, by : Screens, place : Places]
        /\ dirs \subseteq [id : Calls, from : Locations, to : Places]
    OBVIOUS
  <2>4. calc \in Route \union {NoRoute} /\ trip \in Trip \union {NoTrip}
    OBVIOUS
  <2>5. identified \in BOOLEAN /\ trap \in Traps /\ orderly \in BOOLEAN
    BY DEF Traps
  <2>6. QED
    BY <2>1, <2>2, <2>3, <2>4, <2>5 DEF TypeOK
<1>2. Registered
  BY DEF Registered, Live
<1>3. RouteBehindNext
  BY DEF RouteBehindNext, SingletonUnwrapsHold
<1>4. OrderlyAgrees
  BY DEF OrderlyAgrees, Live
<1>5. QED
  BY <1>1, <1>2, <1>3, <1>4 DEF IInv

(* Every step keeps every variable in its range. *)
LEMMA TypeStep ==
    ASSUME TypeOK, [Next]_vars
    PROVE  TypeOK'
<1> USE MaxAltsAssumption, NoneAssumption DEF TypeOK, Trip, Route, Traps, screenVars, NoRoute, NoTrip
<1>1. CASE Relaunch
  <2>1. status' \in [Screens -> {"unborn", "visible", "otherTab", "configuring", "gone"}]
    BY <1>1 DEF Relaunch
  <2>2. /\ trap' \in Traps /\ calc' \in Route \union {NoRoute} /\ trip' \in Trip \union {NoTrip}
        /\ identified' \in BOOLEAN /\ orderly' \in BOOLEAN
    BY <1>1 DEF Relaunch
  <2>3. /\ observers' \subseteq Screens
        /\ lookups' \subseteq [id : Calls, by : Screens, place : Places]
        /\ dirs' \subseteq [id : Calls, from : Locations, to : Places]
    BY <1>1 DEF Relaunch
  <2>4. /\ location' \in [Screens -> Locations \union {None}]
        /\ currentResult' \in [Screens -> Places \union {None}]
        /\ nextEnabled' \in [Screens -> BOOLEAN]
    BY <1>1 DEF Relaunch
  <2>5. segments' \in [Screens -> 0..MaxAlts] /\ drawn' \in [Screens -> 0..MaxAlts]
    BY <1>1 DEF Relaunch
  <2>6. QED
    BY <2>1, <2>2, <2>3, <2>4, <2>5
<1>1b. CASE Identify
  BY <1>1b DEF Identify
<1>2. ASSUME NEW s \in Screens, Open(s) PROVE TypeOK'
  BY <1>2 DEF Open, viewWillAppear
<1>3. ASSUME NEW s \in Screens, SwitchTab(s) PROVE TypeOK'
  BY <1>3 DEF SwitchTab, Leave, viewWillDisappear
<1>4. ASSUME NEW s \in Screens, ReturnToTab(s) PROVE TypeOK'
  BY <1>4 DEF ReturnToTab, Reappear, viewWillAppear
<1>5. ASSUME NEW s \in Screens, Back(s) PROVE TypeOK'
  BY <1>5 DEF Back, Leave, viewWillDisappear
<1>6. ASSUME NEW s \in Screens, BackFromConfigure(s) PROVE TypeOK'
  BY <1>6 DEF BackFromConfigure, Reappear, viewWillAppear
<1>7. ASSUME NEW s \in Screens, RequestRide(s) PROVE TypeOK'
  BY <1>7 DEF RequestRide
<1>8. ASSUME NEW s \in Screens, Release(s) PROVE TypeOK'
  BY <1>8 DEF Release
<1>9. ASSUME NEW s \in Screens, prepare(s) PROVE TypeOK'
  BY <1>9 DEF prepare, viewWillDisappear, Missing
<1>10. ASSUME NEW s \in Screens, prepareTraps(s) PROVE TypeOK'
  BY <1>10 DEF prepareTraps, Trap, Missing
<1>11. ASSUME NEW s \in Screens, NEW where \in Locations, LocationFix(s, where) PROVE TypeOK'
  BY <1>11 DEF LocationFix
<1>12. ASSUME NEW s \in Screens, NEW place \in Places, Select(s, place) PROVE TypeOK'
  BY <1>12 DEF Select, InUse
<1>13. ASSUME NEW s \in Screens, NEW index \in 1..MaxAlts, changeRoute(s, index) PROVE TypeOK'
  BY <1>13 DEF changeRoute
<1>14. ASSUME NEW s \in Screens, NEW index \in 1..MaxAlts, changeRouteTraps(s, index) PROVE TypeOK'
  BY <1>14 DEF changeRouteTraps, Trap
<1>15. ASSUME NEW l \in lookups, LookupFound(l) PROVE TypeOK'
  BY <1>15 DEF LookupFound
<1>16. ASSUME NEW l \in lookups, LookupFoundTraps(l) PROVE TypeOK'
  BY <1>16 DEF LookupFoundTraps, Trap
<1>17. ASSUME NEW l \in lookups, LookupFailed(l) PROVE TypeOK'
  BY <1>17 DEF LookupFailed
<1>18. ASSUME NEW d \in dirs, DirectionsFailed(d) PROVE TypeOK'
  BY <1>18 DEF DirectionsFailed
<1>19. ASSUME NEW d \in dirs, NEW n \in 1..MaxAlts, DirectionsFound(d, n) PROVE TypeOK'
  BY <1>19 DEF DirectionsFound, routesReady
<1>20. CASE UNCHANGED vars
  BY <1>20 DEF vars
<1>21. QED
  BY <1>1, <1>1b, <1>2, <1>3, <1>4, <1>5, <1>6, <1>7, <1>8, <1>9, <1>10, <1>11, <1>12, <1>13, <1>14, <1>15, <1>16, <1>17, <1>18, <1>19, <1>20 DEF Next, Navigate, Answer

(* Every step keeps the observers and the navigation stack in order. *)
LEMMA RegisteredStep ==
    ASSUME TypeOK, Registered, [Next]_vars
    PROVE  Registered'
<1> USE MaxAltsAssumption, NoneAssumption DEF TypeOK, Registered, Live, screenVars
<1>1. CASE Relaunch
  BY <1>1 DEF Relaunch
<1>1b. CASE Identify
  BY <1>1b DEF Identify
<1>2. ASSUME NEW s \in Screens, Open(s) PROVE Registered'
  BY <1>2 DEF Open, viewWillAppear
<1>3. ASSUME NEW s \in Screens, SwitchTab(s) PROVE Registered'
  BY <1>3 DEF SwitchTab, Leave, viewWillDisappear
<1>4. ASSUME NEW s \in Screens, ReturnToTab(s) PROVE Registered'
  BY <1>4 DEF ReturnToTab, Reappear, viewWillAppear
<1>5. ASSUME NEW s \in Screens, Back(s) PROVE Registered'
  BY <1>5 DEF Back, Leave, viewWillDisappear
<1>6. ASSUME NEW s \in Screens, BackFromConfigure(s) PROVE Registered'
  BY <1>6 DEF BackFromConfigure, Reappear, viewWillAppear
<1>7. ASSUME NEW s \in Screens, RequestRide(s) PROVE Registered'
  BY <1>7 DEF RequestRide
<1>8. ASSUME NEW s \in Screens, Release(s) PROVE Registered'
  BY <1>8 DEF Release
<1>9. ASSUME NEW s \in Screens, prepare(s) PROVE Registered'
  BY <1>9 DEF prepare, viewWillDisappear, Missing
<1>10. ASSUME NEW s \in Screens, prepareTraps(s) PROVE Registered'
  BY <1>10 DEF prepareTraps, Trap, Missing
<1>11. ASSUME NEW s \in Screens, NEW where \in Locations, LocationFix(s, where) PROVE Registered'
  BY <1>11 DEF LocationFix
<1>12. ASSUME NEW s \in Screens, NEW place \in Places, Select(s, place) PROVE Registered'
  BY <1>12 DEF Select, InUse
<1>13. ASSUME NEW s \in Screens, NEW index \in 1..MaxAlts, changeRoute(s, index) PROVE Registered'
  BY <1>13 DEF changeRoute
<1>14. ASSUME NEW s \in Screens, NEW index \in 1..MaxAlts, changeRouteTraps(s, index) PROVE Registered'
  BY <1>14 DEF changeRouteTraps, Trap
<1>15. ASSUME NEW l \in lookups, LookupFound(l) PROVE Registered'
  BY <1>15 DEF LookupFound
<1>16. ASSUME NEW l \in lookups, LookupFoundTraps(l) PROVE Registered'
  BY <1>16 DEF LookupFoundTraps, Trap
<1>17. ASSUME NEW l \in lookups, LookupFailed(l) PROVE Registered'
  BY <1>17 DEF LookupFailed
<1>18. ASSUME NEW d \in dirs, DirectionsFailed(d) PROVE Registered'
  BY <1>18 DEF DirectionsFailed
<1>19. ASSUME NEW d \in dirs, NEW n \in 1..MaxAlts, DirectionsFound(d, n) PROVE Registered'
  BY <1>19 DEF DirectionsFound, routesReady
<1>20. CASE UNCHANGED vars
  BY <1>20 DEF vars
<1>21. QED
  BY <1>1, <1>1b, <1>2, <1>3, <1>4, <1>5, <1>6, <1>7, <1>8, <1>9, <1>10, <1>11, <1>12, <1>13, <1>14, <1>15, <1>16, <1>17, <1>18, <1>19, <1>20 DEF Next, Navigate, Answer

(* No step enables Next before the singleton holds a route. *)
LEMMA RouteStep ==
    ASSUME TypeOK, Registered, RouteBehindNext, [Next]_vars
    PROVE  RouteBehindNext'
<1> USE MaxAltsAssumption, NoneAssumption DEF TypeOK, Registered, RouteBehindNext, Route, NoRoute, SingletonUnwrapsHold, screenVars
<1>1. CASE Relaunch
  BY <1>1 DEF Relaunch
<1>1b. CASE Identify
  BY <1>1b DEF Identify
<1>2. ASSUME NEW s \in Screens, Open(s) PROVE RouteBehindNext'
  BY <1>2 DEF Open, viewWillAppear
<1>3. ASSUME NEW s \in Screens, SwitchTab(s) PROVE RouteBehindNext'
  BY <1>3 DEF SwitchTab, Leave, viewWillDisappear
<1>4. ASSUME NEW s \in Screens, ReturnToTab(s) PROVE RouteBehindNext'
  BY <1>4 DEF ReturnToTab, Reappear, viewWillAppear
<1>5. ASSUME NEW s \in Screens, Back(s) PROVE RouteBehindNext'
  BY <1>5 DEF Back, Leave, viewWillDisappear
<1>6. ASSUME NEW s \in Screens, BackFromConfigure(s) PROVE RouteBehindNext'
  BY <1>6 DEF BackFromConfigure, Reappear, viewWillAppear
<1>7. ASSUME NEW s \in Screens, RequestRide(s) PROVE RouteBehindNext'
  BY <1>7 DEF RequestRide
<1>8. ASSUME NEW s \in Screens, Release(s) PROVE RouteBehindNext'
  BY <1>8 DEF Release
<1>9. ASSUME NEW s \in Screens, prepare(s) PROVE RouteBehindNext'
  BY <1>9 DEF prepare, viewWillDisappear, Missing
<1>10. ASSUME NEW s \in Screens, prepareTraps(s) PROVE RouteBehindNext'
  BY <1>10 DEF prepareTraps, Trap, Missing
<1>11. ASSUME NEW s \in Screens, NEW where \in Locations, LocationFix(s, where) PROVE RouteBehindNext'
  BY <1>11 DEF LocationFix
<1>12. ASSUME NEW s \in Screens, NEW place \in Places, Select(s, place) PROVE RouteBehindNext'
  BY <1>12 DEF Select, InUse
<1>13. ASSUME NEW s \in Screens, NEW index \in 1..MaxAlts, changeRoute(s, index) PROVE RouteBehindNext'
  BY <1>13 DEF changeRoute
<1>14. ASSUME NEW s \in Screens, NEW index \in 1..MaxAlts, changeRouteTraps(s, index) PROVE RouteBehindNext'
  BY <1>14 DEF changeRouteTraps, Trap
<1>15. ASSUME NEW l \in lookups, LookupFound(l) PROVE RouteBehindNext'
  BY <1>15 DEF LookupFound
<1>16. ASSUME NEW l \in lookups, LookupFoundTraps(l) PROVE RouteBehindNext'
  BY <1>16 DEF LookupFoundTraps, Trap
<1>17. ASSUME NEW l \in lookups, LookupFailed(l) PROVE RouteBehindNext'
  BY <1>17 DEF LookupFailed
<1>18. ASSUME NEW d \in dirs, DirectionsFailed(d) PROVE RouteBehindNext'
  BY <1>18 DEF DirectionsFailed
<1>19. ASSUME NEW d \in dirs, NEW n \in 1..MaxAlts, DirectionsFound(d, n) PROVE RouteBehindNext'
  BY <1>19 DEF DirectionsFound, routesReady
<1>20. CASE UNCHANGED vars
  BY <1>20 DEF vars
<1>21. QED
  BY <1>1, <1>1b, <1>2, <1>3, <1>4, <1>5, <1>6, <1>7, <1>8, <1>9, <1>10, <1>11, <1>12, <1>13, <1>14, <1>15, <1>16, <1>17, <1>18, <1>19, <1>20 DEF Next, Navigate, Answer

(* Every step keeps the agreement that waiting buys. *)
LEMMA OrderlyStep ==
    ASSUME IInv, [Next]_vars
    PROVE  OrderlyAgrees'
<1> USE MaxAltsAssumption, NoneAssumption DEF IInv, TypeOK, Registered, RouteBehindNext, OrderlyAgrees, Live, Idle, Running, Route, NoRoute, Trip, NoTrip, screenVars
<1>1. CASE Relaunch
  BY <1>1 DEF Relaunch
<1>1b. CASE Identify
  BY <1>1b DEF Identify
<1>2. ASSUME NEW s \in Screens, Open(s) PROVE OrderlyAgrees'
  BY <1>2 DEF Open, viewWillAppear
<1>3. ASSUME NEW s \in Screens, SwitchTab(s) PROVE OrderlyAgrees'
  <2> SUFFICES ASSUME orderly' PROVE OrderlyAgrees'
    BY DEF OrderlyAgrees
  <2>1. orderly /\ lookups' = {} /\ dirs' = {} /\ calc' = calc /\ trip' = trip /\ trap' = trap
    BY <1>3 DEF SwitchTab, Leave, viewWillDisappear
  <2>2. \A t \in Screens : Live(t)' => Live(t)
    BY <1>3 DEF SwitchTab, Leave, viewWillDisappear
  <2>3. UNCHANGED <<location, currentResult, nextEnabled, segments>>
    BY <1>3 DEF SwitchTab, Leave, viewWillDisappear
  <2>4. QED
    BY <1>3, <2>1, <2>2, <2>3 DEF SwitchTab, Leave, viewWillDisappear
<1>4. ASSUME NEW s \in Screens, ReturnToTab(s) PROVE OrderlyAgrees'
  BY <1>4 DEF ReturnToTab, Reappear, viewWillAppear
<1>5. ASSUME NEW s \in Screens, Back(s) PROVE OrderlyAgrees'
  <2> SUFFICES ASSUME orderly' PROVE OrderlyAgrees'
    BY DEF OrderlyAgrees
  <2>1. orderly /\ lookups' = {} /\ dirs' = {} /\ calc' = calc /\ trip' = trip /\ trap' = trap
    BY <1>5 DEF Back, Leave, viewWillDisappear
  <2>2. \A t \in Screens : Live(t)' => Live(t)
    BY <1>5 DEF Back, Leave, viewWillDisappear
  <2>3. UNCHANGED <<location, currentResult, nextEnabled, segments>>
    BY <1>5 DEF Back, Leave, viewWillDisappear
  <2>4. QED
    BY <1>5, <2>1, <2>2, <2>3 DEF Back, Leave, viewWillDisappear
<1>6. ASSUME NEW s \in Screens, BackFromConfigure(s) PROVE OrderlyAgrees'
  BY <1>6 DEF BackFromConfigure, Reappear, viewWillAppear
<1>7. ASSUME NEW s \in Screens, RequestRide(s) PROVE OrderlyAgrees'
  BY <1>7 DEF RequestRide
<1>8. ASSUME NEW s \in Screens, Release(s) PROVE OrderlyAgrees'
  BY <1>8 DEF Release
<1>9. ASSUME NEW s \in Screens, prepare(s) PROVE OrderlyAgrees'
  <2> SUFFICES ASSUME orderly' PROVE OrderlyAgrees'
    BY DEF OrderlyAgrees
  <2>1. orderly /\ lookups' = {} /\ dirs = {} /\ dirs' = {} /\ calc' = calc /\ trap' = trap
    BY <1>9 DEF prepare, viewWillDisappear, Missing
  <2>2. \A t \in Screens : Live(t)' => Live(t)
    BY <1>9 DEF prepare, viewWillDisappear, Missing
  <2>3. UNCHANGED <<location, currentResult, nextEnabled, segments>>
    BY <1>9 DEF prepare, viewWillDisappear, Missing
  <2>4. trip' = [origin |-> location[s], destination |-> currentResult[s], polygon |-> calc]
    BY <1>9 DEF prepare, viewWillDisappear, Missing
  <2>5. location[s] = calc.from /\ currentResult[s] = calc.to
    BY <1>9, <2>1 DEF prepare, viewWillDisappear, Missing
  <2>6. trip'.polygon.from = trip'.origin /\ trip'.polygon.to = trip'.destination
    BY <2>4, <2>5
  <2>7. trap' = "none"
    BY <1>9 DEF prepare
  <2>8. \A t \in Screens : Live(t)' /\ nextEnabled'[t] /\ dirs' = {} =>
          location'[t] = calc'.from /\ currentResult'[t] = calc'.to
    BY <2>1, <2>2, <2>3
  <2>9. \A t \in Screens : Live(t)' /\ segments'[t] > 0 => segments'[t] = calc'.alts
    BY <2>1, <2>2, <2>3
  <2>10. QED
    BY <2>1, <2>6, <2>7, <2>8, <2>9 DEF OrderlyAgrees
<1>10. ASSUME NEW s \in Screens, prepareTraps(s) PROVE OrderlyAgrees'
  BY <1>10 DEF prepareTraps, Trap, Missing
<1>11. ASSUME NEW s \in Screens, NEW where \in Locations, LocationFix(s, where) PROVE OrderlyAgrees'
  BY <1>11 DEF LocationFix
<1>12. ASSUME NEW s \in Screens, NEW place \in Places, Select(s, place) PROVE OrderlyAgrees'
  <2> SUFFICES ASSUME orderly' PROVE OrderlyAgrees'
    BY DEF OrderlyAgrees
  <2>1. orderly /\ lookups = {} /\ dirs' = {} /\ status[s] = "visible"
    BY <1>12 DEF Select
  <2>2. PICK id : lookups' = lookups \union {[id |-> id, by |-> s, place |-> place]}
    BY <1>12 DEF Select
  <2>3. lookups' = {[id |-> id, by |-> s, place |-> place]}
    BY <2>1, <2>2
  <2>4. QED
    BY <1>12, <2>1, <2>3 DEF Select
<1>13. ASSUME NEW s \in Screens, NEW index \in 1..MaxAlts, changeRoute(s, index) PROVE OrderlyAgrees'
  BY <1>13 DEF changeRoute
<1>14. ASSUME NEW s \in Screens, NEW index \in 1..MaxAlts, changeRouteTraps(s, index) PROVE OrderlyAgrees'
  BY <1>14 DEF changeRouteTraps, Trap
<1>15. ASSUME NEW l \in lookups, LookupFound(l) PROVE OrderlyAgrees'
  <2> SUFFICES ASSUME orderly' PROVE OrderlyAgrees'
    BY DEF OrderlyAgrees
  <2> DEFINE d == [id |-> l.id, from |-> location[l.by], to |-> l.place]
  <2>1. orderly /\ lookups' = {} /\ dirs' = {d}
    BY <1>15 DEF LookupFound
  <2>2. /\ l.by \in Screens
        /\ status'[l.by] = "visible"
        /\ location'[l.by] = d.from
        /\ currentResult'[l.by] = d.to
    BY <1>15, <2>1 DEF LookupFound
  <2> HIDE DEF d
  <2>3. QED
    BY <1>15, <2>1, <2>2 DEF LookupFound
<1>16. ASSUME NEW l \in lookups, LookupFoundTraps(l) PROVE OrderlyAgrees'
  BY <1>16 DEF LookupFoundTraps, Trap
<1>17. ASSUME NEW l \in lookups, LookupFailed(l) PROVE OrderlyAgrees'
  BY <1>17 DEF LookupFailed
<1>18. ASSUME NEW d \in dirs, DirectionsFailed(d) PROVE OrderlyAgrees'
  BY <1>18 DEF DirectionsFailed
<1>19. ASSUME NEW d \in dirs, NEW n \in 1..MaxAlts, DirectionsFound(d, n) PROVE OrderlyAgrees'
  BY <1>19 DEF DirectionsFound, routesReady
<1>20. CASE UNCHANGED vars
  BY <1>20 DEF vars
<1>21. QED
  BY <1>1, <1>1b, <1>2, <1>3, <1>4, <1>5, <1>6, <1>7, <1>8, <1>9, <1>10, <1>11, <1>12, <1>13, <1>14, <1>15, <1>16, <1>17, <1>18, <1>19, <1>20 DEF Next, Navigate, Answer

-----------------------------------------------------------------------------
(* The results *)

(* Every reachable state satisfies the inductive invariant.                 *)
LEMMA Invariance == Spec => []IInv
<1>1. IInv /\ [Next]_vars => IInv'
  <2> SUFFICES ASSUME IInv, [Next]_vars PROVE IInv'
    OBVIOUS
  <2>1. TypeOK /\ Registered /\ RouteBehindNext
    BY DEF IInv
  <2>2. TypeOK'
    BY <2>1, TypeStep
  <2>3. Registered'
    BY <2>1, RegisteredStep
  <2>4. RouteBehindNext'
    BY <2>1, RouteStep
  <2>5. OrderlyAgrees'
    BY OrderlyStep
  <2>6. QED
    BY <2>2, <2>3, <2>4, <2>5 DEF IInv
<1>2. QED
  BY InitIInv, <1>1, PTL DEF Spec

(* Every variable keeps its type.                                           *)
THEOREM TypeCorrect == Spec => []TypeOK
<1>1. IInv => TypeOK
  BY DEF IInv
<1>2. QED
  BY Invariance, <1>1, PTL

(* The unwraps of the singleton's routes and polygon (lines 76, 197, 202)   *)
(* never fail, whatever the user and the network do.                        *)
THEOREM SingletonIsReady == Spec => []SingletonUnwrapsHold
<1>1. IInv => SingletonUnwrapsHold
  BY DEF IInv, RouteBehindNext
<1>2. QED
  BY Invariance, <1>1, PTL

(* A user who waits and whose calls succeed uploads a polygon that belongs  *)
(* to the trip, and meets no failing unwrap but that of the location and,   *)
(* while the process has no identity, that of the identity.                 *)
THEOREM OrderlyUseIsSafe == Spec => []OrderlyUse
<1>1. IInv => OrderlyUse
  BY DEF IInv, OrderlyAgrees, OrderlyUse, Live
<1>2. QED
  BY Invariance, <1>1, PTL

(* A route that arrives changes no screen that is not in view.              *)
THEOREM OffscreenIsFrozen == Spec => OffscreenMapFrozen
<1> DEFINE Frozen ==
      \A s \in Screens :
        status[s] \in {"otherTab", "configuring", "gone"} /\ status'[s] # "unborn"
          => drawn'[s] = drawn[s] /\ nextEnabled'[s] = nextEnabled[s]
<1>1. ASSUME IInv, [Next]_vars PROVE [Frozen]_vars
  <2> SUFFICES ASSUME Next, NEW t \in Screens,
                      status[t] \in {"otherTab", "configuring", "gone"},
                      status'[t] # "unborn"
               PROVE  drawn'[t] = drawn[t] /\ nextEnabled'[t] = nextEnabled[t]
    BY <1>1
  <2> DEFINE Same == drawn'[t] = drawn[t] /\ nextEnabled'[t] = nextEnabled[t]
  <2> USE <1>1 DEF IInv, TypeOK, Registered
  <2>1. CASE Relaunch
    BY <2>1 DEF Relaunch
  <2>1b. CASE Identify
    BY <2>1b DEF Identify, screenVars
  <2>2. ASSUME NEW s \in Screens, Navigate(s) PROVE Same
    <3>1. CASE Open(s)
      BY <3>1 DEF Open
    <3>2. CASE SwitchTab(s) \/ Back(s)
      BY <3>2 DEF SwitchTab, Back, Leave
    <3>3. CASE ReturnToTab(s) \/ BackFromConfigure(s)
      BY <3>3 DEF ReturnToTab, BackFromConfigure, Reappear
    <3>4. CASE RequestRide(s)
      BY <3>4 DEF RequestRide
    <3>5. CASE Release(s)
      BY <3>5 DEF Release
    <3>6. QED
      BY <2>2, <3>1, <3>2, <3>3, <3>4, <3>5 DEF Navigate
  <2>3. ASSUME NEW s \in Screens, prepare(s) \/ prepareTraps(s) PROVE Same
    BY <2>3 DEF prepare, prepareTraps, Trap, screenVars
  <2>4. ASSUME NEW s \in Screens, NEW where \in Locations, LocationFix(s, where)
        PROVE  Same
    BY <2>4 DEF LocationFix
  <2>5. ASSUME NEW s \in Screens, NEW place \in Places, Select(s, place)
        PROVE  Same
    BY <2>5 DEF Select, screenVars
  <2>6. ASSUME NEW s \in Screens, NEW index \in 1..MaxAlts,
               changeRoute(s, index) \/ changeRouteTraps(s, index)
        PROVE  Same
    BY <2>6 DEF changeRoute, changeRouteTraps, Trap, screenVars
  <2>7. ASSUME NEW l \in lookups,
               LookupFound(l) \/ LookupFoundTraps(l) \/ LookupFailed(l)
        PROVE  Same
    BY <2>7 DEF LookupFound, LookupFoundTraps, LookupFailed, Trap, screenVars
  <2>8. ASSUME NEW d \in dirs, DirectionsFailed(d) PROVE Same
    BY <2>8 DEF DirectionsFailed, screenVars
  <2>9. ASSUME NEW d \in dirs, NEW n \in 1..MaxAlts, DirectionsFound(d, n)
        PROVE  Same
    <3>1. t \notin observers
      OBVIOUS
    <3>2. drawn'[t] = drawn[t]
      BY <2>9, <3>1 DEF DirectionsFound, routesReady
    <3>3. nextEnabled'[t] = nextEnabled[t]
      BY <2>9, <3>1 DEF DirectionsFound, routesReady
    <3>4. QED
      BY <3>2, <3>3
  <2>10. QED
    BY <2>1, <2>1b, <2>2, <2>3, <2>4, <2>5, <2>6, <2>7, <2>8, <2>9 DEF Next, Answer
<1>2. QED
  BY Invariance, <1>1, PTL DEF Spec, OffscreenMapFrozen
=============================================================================
