--------------------------- MODULE Matching_proofs ---------------------------
(***************************************************************************)
(* Proofs about Matching for any sets of trips, offers and calls in        *)
(* flight.                                                                 *)
(***************************************************************************)
EXTENDS Matching, FiniteSetTheorems, TLAPS

(* The table shows the results, the selected row is one of them, and it is  *)
(* the row the user saw; before the first answer there was none to see.     *)
TableAgrees ==
    /\ drawn = IF potentialTrips = None THEN <<>> ELSE potentialTrips
    /\ potentialTrips = None => seen = None
    /\ row # 0 => row \in DOMAIN drawn /\ drawn[row] = seen
    /\ screen = "accept" => matchedTrip = seen

(* The requests, the matches and the presses are counted by trip and offer. *)
Counters ==
    /\ puts \in [Pair -> Nat]
    /\ matches \in [Pair -> Nat]
    /\ asked \in [Pair -> Nat]

(* The inductive invariant.                                                 *)
IInv == TableAgrees /\ Counters /\ MatchesWereAsked /\ trap # "badRow"

(* The invariant holds before any screen is opened.                         *)
LEMMA InitIInv == Init => IInv
BY DEF Init, IInv, TableAgrees, Counters, MatchesWereAsked

(* A selection that agrees with the table exists.                           *)
LEMMA SelectionLemma ==
    ASSUME TableAgrees, row # 0
    PROVE  SelectionExists /\ potentialTrips[row] = seen
<1>1. potentialTrips # None
  <2>1. DOMAIN <<>> = {}
    OBVIOUS
  <2>2. QED
    BY <2>1 DEF TableAgrees
<1>2. QED
  BY <1>1 DEF TableAgrees, SelectionExists

(* One more of a pair.                                                      *)
LEMMA OneMore ==
    ASSUME NEW S, NEW count \in [S -> Nat], NEW x
    PROVE  /\ [count EXCEPT ![x] = @ + 1] \in [S -> Nat]
           /\ \A p \in S : [count EXCEPT ![x] = @ + 1][p]
                              = IF p = x THEN count[p] + 1 ELSE count[p]
<1> DEFINE more == [count EXCEPT ![x] = @ + 1]
<1>1. more = [p \in S |-> IF p = x THEN count[p] + 1 ELSE count[p]]
  OBVIOUS
<1>2. \A p \in S : more[p] = IF p = x THEN count[p] + 1 ELSE count[p]
  BY <1>1
<1>3. \A p \in S : (IF p = x THEN count[p] + 1 ELSE count[p]) \in Nat
  OBVIOUS
<1>4. more \in [S -> Nat]
  BY <1>1, <1>3
<1>5. QED
  BY <1>2, <1>4

(* Every event, of the screens or of the cloud, keeps it.                   *)
LEMMA Step == IInv /\ [Next]_vars => IInv'
<1> SUFFICES ASSUME IInv, [Next]_vars PROVE IInv'
  OBVIOUS
<1> USE DEF IInv, TableAgrees, Counters, MatchesWereAsked, uiVars, cloudVars, userVars
<1>1. ASSUME NEW mine \in Mine, Open(mine) PROVE IInv'
  BY <1>1 DEF Open
<1>2. CASE refresh
  BY <1>2 DEF refresh
<1>3. CASE prepare
  <2>1. matchedTrip' = seen
    <3>1. CASE potentialTrips = None
      BY <1>3, <3>1 DEF prepare
    <3>2. CASE potentialTrips # None
      BY <1>3, <3>2, SelectionLemma DEF prepare, SelectionExists
    <3>3. QED
      BY <3>1, <3>2
  <2>2. QED
    BY <1>3, <2>1 DEF prepare
<1>4. CASE prepareTraps
  BY <1>4, SelectionLemma DEF prepareTraps, Trap
<1>5. CASE requestButtonPressed
  <2> DEFINE p == [mine |-> selectedTrip, other |-> seen]
  <2>1. puts' = [puts EXCEPT ![p] = @ + 1] /\ asked' = [asked EXCEPT ![p] = @ + 1]
    BY <1>5 DEF requestButtonPressed
  <2>2. UNCHANGED <<uiVars, matches, trap>>
    BY <1>5 DEF requestButtonPressed
  <2> HIDE DEF p
  <2>a. /\ puts' \in [Pair -> Nat]
        /\ \A q \in Pair : puts'[q] = IF q = p THEN puts[q] + 1 ELSE puts[q]
    BY <2>1, OneMore
  <2>b. /\ asked' \in [Pair -> Nat]
        /\ \A q \in Pair : asked'[q] = IF q = p THEN asked[q] + 1 ELSE asked[q]
    BY <2>1, OneMore
  <2>c. matches' = matches /\ matches \in [Pair -> Nat]
    BY <2>2
  <2>d. ASSUME NEW q \in Pair PROVE matches'[q] + puts'[q] <= asked'[q]
    <3>1. matches[q] + puts[q] <= asked[q]
      OBVIOUS
    <3>2. matches[q] \in Nat /\ puts[q] \in Nat /\ asked[q] \in Nat
      BY <2>c
    <3>3. /\ matches'[q] = matches[q]
          /\ \/ puts'[q] = puts[q] /\ asked'[q] = asked[q]
             \/ puts'[q] = puts[q] + 1 /\ asked'[q] = asked[q] + 1
      BY <2>a, <2>b, <2>c
    <3> HIDE DEF IInv, TableAgrees, Counters, MatchesWereAsked
    <3>4. QED
      BY <3>1, <3>2, <3>3
  <2>3. Counters' /\ MatchesWereAsked'
    BY <2>a, <2>b, <2>c, <2>d
  <2>4. QED
    BY <2>2, <2>3
<1>5b. CASE requestButtonTraps
  BY <1>5b DEF requestButtonTraps, Trap
<1>6. CASE Back
  BY <1>6 DEF Back
<1>7. ASSUME NEW i \in 1..Cardinality(Offers), SelectRow(i) PROVE IInv'
  BY <1>7 DEF SelectRow
<1>8. ASSUME NEW f \in finds, Results(f) PROVE IInv'
  BY <1>8 DEF Results
<1>9. ASSUME NEW f \in finds, FindUnseen(f) PROVE IInv'
  BY <1>9 DEF FindUnseen
<1>10. ASSUME NEW f \in finds, FindTraps(f) PROVE IInv'
  BY <1>10 DEF FindTraps, Trap
<1>11. ASSUME NEW f \in finds, CloudAnswers(f) PROVE IInv'
  BY <1>11 DEF CloudAnswers
<1>12. ASSUME NEW p \in Pair, CloudMatches(p) PROVE IInv'
  BY <1>12 DEF CloudMatches
<1>13. ASSUME NEW p \in Pair, PutLost(p) PROVE IInv'
  BY <1>13 DEF PutLost
<1>14. CASE OffersChange
  BY <1>14 DEF OffersChange
<1>15. CASE Relaunch
  BY <1>15 DEF Relaunch
<1>16. CASE UNCHANGED vars
  BY <1>16 DEF vars
<1>17. QED
  BY <1>1, <1>2, <1>3, <1>4, <1>5, <1>5b, <1>6, <1>7, <1>8, <1>9, <1>10, <1>11, <1>12,
     <1>13, <1>14, <1>15, <1>16 DEF Next

(* Every reachable state satisfies it.                                      *)
LEMMA Invariance == Spec => []IInv
BY InitIInv, Step, PTL DEF Spec

(* The offer asked for is the one the user saw in the row tapped.           *)
THEOREM MatchIsWhatWasSeen == Spec => []MatchIsRowSeen
<1>1. IInv => MatchIsRowSeen
  BY DEF IInv, TableAgrees, MatchIsRowSeen
<1>2. QED
  BY Invariance, <1>1, PTL

(* A selected row has a result behind it: line 129 never indexes beyond     *)
(* the results.                                                             *)
THEOREM SelectionIsInRange == Spec => []SelectionInRange
<1>1. IInv => SelectionInRange
  BY SelectionLemma DEF IInv, SelectionInRange
<1>2. QED
  BY Invariance, <1>1, PTL

(* Every match of the cloud is due to a press of its own.                   *)
THEOREM MatchesAreAsked == Spec => []MatchesWereAsked
<1>1. IInv => MatchesWereAsked
  BY DEF IInv
<1>2. QED
  BY Invariance, <1>1, PTL

-----------------------------------------------------------------------------
(* The types *)

(* The second screens have a trip.                                          *)
TypeIInv ==
    /\ TypeOK
    /\ screen # "list" => selectedTrip \in Mine

(* An answer is a list of offers, and may be empty.                         *)
LEMMA AnswersProperties ==
    /\ <<>> \in Answers
    /\ \A a \in Answers : \A i \in DOMAIN a : a[i] \in Offers
<1>1. Cardinality(Offers) \in Nat
  BY OffersAssumption, FS_CardinalityType
<1>2. 0 \in 0..Cardinality(Offers)
  BY <1>1
<1>3. <<>> \in [1..0 -> Offers] /\ DOMAIN <<>> = {}
  OBVIOUS
<1>4. <<>> \in {f \in [1..0 -> Offers] : \A i, j \in 1..0 : f[i] = f[j] => i = j}
  <2>1. 1..0 = {}
    OBVIOUS
  <2>2. QED
    BY <1>3, <2>1
<1>5. <<>> \in Answers
  BY <1>2, <1>4 DEF Answers
<1>6. \A a \in Answers : \E n \in 0..Cardinality(Offers) : a \in [1..n -> Offers]
  BY DEF Answers
<1>7. QED
  BY <1>5, <1>6

(* Nothing is open and nothing is in flight when the app starts.            *)
LEMMA InitTypes == Init => TypeIInv
<1>1. 0 \in 0..Cardinality(Offers) /\ 0 \in 0..MaxPresses
  BY OffersAssumption, MaxPressesAssumption, FS_CardinalityType
<1>2. QED
  BY <1>1, AnswersProperties DEF Init, TypeIInv, TypeOK

(* Every event keeps the types: what a row shows is an offer, and the       *)
(* counts stay natural numbers.                                             *)
LEMMA TypeStep == TypeIInv /\ IInv /\ [Next]_vars => TypeIInv'
<1> SUFFICES ASSUME TypeIInv, IInv, [Next]_vars PROVE TypeIInv'
  OBVIOUS
<1>0. 0 \in 0..Cardinality(Offers)
  BY OffersAssumption, FS_CardinalityType
<1>a. ASSUME TypeOK, callCloudFunction
      PROVE  finds' \subseteq [id : Calls, answer : Answers \union {None}, shown : BOOLEAN]
  <2>1. PICK id \in Calls :
          finds' = finds \union {[id |-> id, answer |-> None, shown |-> TRUE]}
    BY <1>a DEF callCloudFunction
  <2> DEFINE Find == [id : Calls, answer : Answers \union {None}, shown : BOOLEAN]
  <2>2. [id |-> id, answer |-> None, shown |-> TRUE] \in Find
    OBVIOUS
  <2>3. finds \subseteq Find
    BY <1>a DEF TypeOK
  <2> HIDE DEF Find
  <2>4. finds' \subseteq Find
    BY <2>1, <2>2, <2>3
  <2>5. QED
    BY <2>4 DEF Find
<1> USE AnswersProperties, <1>0 DEF TypeIInv, TypeOK, uiVars, cloudVars, userVars
<1>1. ASSUME NEW mine \in Mine, Open(mine) PROVE TypeIInv'
  BY <1>1, <1>a DEF Open
<1>2. CASE refresh
  BY <1>2, <1>a DEF refresh
<1>3. CASE prepare
  BY <1>3 DEF prepare, SelectionExists
<1>4. CASE prepareTraps
  BY <1>4 DEF prepareTraps, Trap
<1>5. CASE requestButtonPressed
  <2>1. presses + 1 \in 0..MaxPresses
    BY <1>5, MaxPressesAssumption DEF requestButtonPressed
  <2>2. puts' \in [Pair -> Nat] /\ asked' \in [Pair -> Nat]
    BY <1>5, OneMore DEF requestButtonPressed
  <2>3. QED
    BY <1>5, <2>1, <2>2 DEF requestButtonPressed
<1>5b. CASE requestButtonTraps
  BY <1>5b DEF requestButtonTraps, Trap
<1>6. CASE Back
  BY <1>6 DEF Back
<1>7. ASSUME NEW i \in 1..Cardinality(Offers), SelectRow(i) PROVE TypeIInv'
  <2>1. i \in 0..Cardinality(Offers) /\ drawn[i] \in Offers
    BY <1>7, OffersAssumption, FS_CardinalityType DEF SelectRow
  <2>2. QED
    BY <1>7, <2>1 DEF SelectRow
<1>8. ASSUME NEW f \in finds, Results(f) PROVE TypeIInv'
  BY <1>8 DEF Results
<1>9. ASSUME NEW f \in finds, FindUnseen(f) PROVE TypeIInv'
  BY <1>9 DEF FindUnseen
<1>10. ASSUME NEW f \in finds, FindTraps(f) PROVE TypeIInv'
  BY <1>10 DEF FindTraps, Trap
<1>11. ASSUME NEW f \in finds, CloudAnswers(f) PROVE TypeIInv'
  <2>1. [f EXCEPT !.answer = offered]
          \in [id : Calls, answer : Answers \union {None}, shown : BOOLEAN]
    BY <1>11
  <2>2. QED
    BY <1>11, <2>1 DEF CloudAnswers
<1>12. ASSUME NEW p \in Pair, CloudMatches(p) PROVE TypeIInv'
  BY <1>12 DEF CloudMatches
<1>13. ASSUME NEW p \in Pair, PutLost(p) PROVE TypeIInv'
  BY <1>13 DEF PutLost
<1>14. CASE OffersChange
  BY <1>14 DEF OffersChange
<1>15. CASE Relaunch
  BY <1>15 DEF Relaunch
<1>16. CASE UNCHANGED vars
  BY <1>16 DEF vars
<1>17. QED
  BY <1>1, <1>2, <1>3, <1>4, <1>5, <1>5b, <1>6, <1>7, <1>8, <1>9, <1>10, <1>11, <1>12,
     <1>13, <1>14, <1>15, <1>16 DEF Next

(* The variables of the two screens and of the cloud keep their types.      *)
THEOREM TypeCorrect == Spec => []TypeOK
<1>1. TypeIInv => TypeOK
  BY DEF TypeIInv
<1>2. QED
  BY InitTypes, TypeStep, Invariance, <1>1, PTL DEF Spec
=============================================================================
