-------------------------- MODULE TripUpload_proofs --------------------------
(***************************************************************************)
(* Proofs about TripUpload for any set of trips, any assignment of keys    *)
(* and any number of retries: the list of trips implements TripLedger.     *)
(***************************************************************************)
EXTENDS TripUpload, TLAPS

-----------------------------------------------------------------------------
(* The inductive invariant *)

(* An answer only travels for a trip the cloud has stored, and the item     *)
(* under the key of a stored trip is a stored trip with that key.           *)
CloudKnows ==
    /\ answer \subseteq stored
    /\ \A t \in stored : /\ cloud[KeyOf[t]] \in stored
                         /\ KeyOf[cloud[KeyOf[t]]] = KeyOf[t]

(* A row is a stored trip and occurs once.                                  *)
RowsAreStored ==
    /\ Rows(realm) \subseteq stored
    /\ \A i, j \in DOMAIN realm : realm[i] = realm[j] => i = j

(* The trip in the form has not been requested before.                      *)
FormIsNew == configuring # None => call[configuring] = "idle"

(* The inductive invariant.                                                 *)
IInv == TypeOK /\ FormIsNew /\ CloudKnows /\ RowsAreStored /\ OneFate /\ ListIsOlderRealm

-----------------------------------------------------------------------------
(* A table of rows *)

(* Appending a row keeps the others where they are and adds its trip.       *)
LEMMA AppendRow ==
    ASSUME NEW S, NEW table \in Seq(S), NEW t \in S
    PROVE  /\ Append(table, t) \in Seq(S)
           /\ Len(Append(table, t)) = Len(table) + 1
           /\ \A i \in 1..Len(table) : Append(table, t)[i] = table[i]
           /\ Append(table, t)[Len(table) + 1] = t
           /\ Rows(Append(table, t)) = Rows(table) \union {t}
<1>1. /\ Append(table, t) \in Seq(S)
      /\ Len(Append(table, t)) = Len(table) + 1
      /\ \A i \in 1..Len(table) : Append(table, t)[i] = table[i]
      /\ Append(table, t)[Len(table) + 1] = t
  OBVIOUS
<1>2. DOMAIN table = 1..Len(table) /\ Len(table) \in Nat
  OBVIOUS
<1>3. DOMAIN Append(table, t) = (1..Len(table)) \union {Len(table) + 1}
  BY <1>1, <1>2
<1>4. Rows(Append(table, t)) = Rows(table) \union {t}
  BY <1>1, <1>2, <1>3 DEF Rows
<1>5. QED
  BY <1>1, <1>4
-----------------------------------------------------------------------------
(* It holds at the start and every step keeps it *)

(* The invariant holds at the first launch.                                 *)
LEMMA InitIInv == Init => IInv
BY KeyOfAssumption, MaxRetriesAssumption
   DEF Init, IInv, TypeOK, FormIsNew, CloudKnows, RowsAreStored, OneFate, ListIsOlderRealm, Rows

(* Every step keeps every variable in its range. *)
LEMMA TypeStep ==
    ASSUME TypeOK, [Next]_vars
    PROVE  TypeOK'
<1> USE KeyOfAssumption, MaxRetriesAssumption
    DEF TypeOK, Fields, formVars, netVars
<1>1. CASE \E t \in Trips : Configure(t)
  BY <1>1 DEF Configure
<1>2. CASE \E f \in Fields : TapField(f)
  BY <1>2 DEF TapField
<1>3. CASE Abandon
  BY <1>3 DEF Abandon
<1>4. CASE updateTextField \/ doneButtonPressed
  BY <1>4 DEF updateTextField, doneButtonPressed
<1>5. CASE requestButtonPressed
  BY <1>5 DEF requestButtonPressed
<1>6. CASE requestButtonTraps \/ Kill
  BY <1>6 DEF requestButtonTraps, Kill, Die
<1>7. ASSUME NEW t \in Trips, CloudStores(t) PROVE TypeOK'
  BY <1>7 DEF CloudStores
<1>8. ASSUME NEW t \in Trips, RequestLost(t) PROVE TypeOK'
  BY <1>8 DEF RequestLost
<1>9. ASSUME NEW t \in Trips, AnswerLost(t) PROVE TypeOK'
  BY <1>9 DEF AnswerLost
<1>10. ASSUME NEW t \in Trips, Resend(t) PROVE TypeOK'
  BY <1>10 DEF Resend
<1>11. ASSUME NEW t \in Trips, SaveSucceeded(t) PROVE TypeOK'
  BY <1>11 DEF SaveSucceeded, Saves
<1>12. ASSUME NEW t \in Trips, SaveFailed(t) PROVE TypeOK'
  BY <1>12 DEF SaveFailed
<1>13. CASE reload
  BY <1>13 DEF reload
<1>14. CASE Launch
  BY <1>14 DEF Launch
<1>15. CASE UNCHANGED vars
  BY <1>15 DEF vars
<1>16. QED
  BY <1>1, <1>2, <1>3, <1>4, <1>5, <1>6, <1>7, <1>8, <1>9, <1>10, <1>11, <1>12, <1>13, <1>14, <1>15
     DEF Next, Form, Network, Handler

(* Every step keeps the table and the answers in agreement. *)
LEMMA CloudStep ==
    ASSUME TypeOK, CloudKnows, [Next]_vars
    PROVE  CloudKnows'
<1> USE KeyOfAssumption DEF TypeOK, CloudKnows, formVars, netVars
<1>1. CASE \E t \in Trips : Configure(t)
  BY <1>1 DEF Configure
<1>2. CASE \E f \in Fields : TapField(f)
  BY <1>2 DEF TapField
<1>3. CASE Abandon
  BY <1>3 DEF Abandon
<1>4. CASE updateTextField \/ doneButtonPressed
  BY <1>4 DEF updateTextField, doneButtonPressed
<1>5. CASE requestButtonPressed
  BY <1>5 DEF requestButtonPressed
<1>6. CASE requestButtonTraps \/ Kill
  BY <1>6 DEF requestButtonTraps, Kill, Die
<1>7. ASSUME NEW t \in Trips, CloudStores(t) PROVE CloudKnows'
  BY <1>7 DEF CloudStores
<1>8. ASSUME NEW t \in Trips, RequestLost(t) PROVE CloudKnows'
  BY <1>8 DEF RequestLost
<1>9. ASSUME NEW t \in Trips, AnswerLost(t) PROVE CloudKnows'
  BY <1>9 DEF AnswerLost
<1>10. ASSUME NEW t \in Trips, Resend(t) PROVE CloudKnows'
  BY <1>10 DEF Resend
<1>11. ASSUME NEW t \in Trips, SaveSucceeded(t) PROVE CloudKnows'
  BY <1>11 DEF SaveSucceeded, Saves
<1>12. ASSUME NEW t \in Trips, SaveFailed(t) PROVE CloudKnows'
  BY <1>12 DEF SaveFailed
<1>13. CASE reload
  BY <1>13 DEF reload
<1>14. CASE Launch
  BY <1>14 DEF Launch
<1>15. CASE UNCHANGED vars
  BY <1>15 DEF vars
<1>16. QED
  BY <1>1, <1>2, <1>3, <1>4, <1>5, <1>6, <1>7, <1>8, <1>9, <1>10, <1>11, <1>12, <1>13, <1>14, <1>15
     DEF Next, Form, Network, Handler

(* Every step leaves an unrequested trip in the form. *)
LEMMA FormStep ==
    ASSUME TypeOK, FormIsNew, [Next]_vars
    PROVE  FormIsNew'
<1> USE NoneAssumption DEF TypeOK, FormIsNew, formVars, netVars
<1>1. CASE \E t \in Trips : Configure(t)
  BY <1>1 DEF Configure
<1>2. CASE \E f \in Fields : TapField(f)
  BY <1>2 DEF TapField
<1>3. CASE Abandon
  BY <1>3 DEF Abandon
<1>4. CASE updateTextField \/ doneButtonPressed
  BY <1>4 DEF updateTextField, doneButtonPressed
<1>5. CASE requestButtonPressed
  BY <1>5 DEF requestButtonPressed
<1>6. CASE requestButtonTraps \/ Kill
  BY <1>6 DEF requestButtonTraps, Kill, Die
<1>7. ASSUME NEW t \in Trips, CloudStores(t) PROVE FormIsNew'
  BY <1>7 DEF CloudStores
<1>8. ASSUME NEW t \in Trips, RequestLost(t) PROVE FormIsNew'
  BY <1>8 DEF RequestLost
<1>9. ASSUME NEW t \in Trips, AnswerLost(t) PROVE FormIsNew'
  BY <1>9 DEF AnswerLost
<1>10. ASSUME NEW t \in Trips, Resend(t) PROVE FormIsNew'
  BY <1>10 DEF Resend
<1>11. ASSUME NEW t \in Trips, SaveSucceeded(t) PROVE FormIsNew'
  BY <1>11 DEF SaveSucceeded, Saves
<1>12. ASSUME NEW t \in Trips, SaveFailed(t) PROVE FormIsNew'
  BY <1>12 DEF SaveFailed
<1>13. CASE reload
  BY <1>13 DEF reload
<1>14. CASE Launch
  BY <1>14 DEF Launch
<1>15. CASE UNCHANGED vars
  BY <1>15 DEF vars
<1>16. QED
  BY <1>1, <1>2, <1>3, <1>4, <1>5, <1>6, <1>7, <1>8, <1>9, <1>10, <1>11, <1>12, <1>13, <1>14, <1>15
     DEF Next, Form, Network, Handler

(* Only the handler of a success adds a row, and what is stored stays so.   *)
LEMMA RowsChange ==
    ASSUME [Next]_vars
    PROVE  /\ stored \subseteq stored'
           /\ realm' = realm \/ \E t \in Trips : SaveSucceeded(t)
BY DEF Next, Form, Network, Handler, Configure, TapField, Abandon, updateTextField,
       doneButtonPressed, requestButtonPressed, requestButtonTraps, Kill, Die,
       CloudStores, RequestLost, AnswerLost, Resend, SaveSucceeded, Saves, SaveFailed,
       reload, Launch, vars, netVars

(* Every step keeps the rows stored and distinct.                           *)
LEMMA RowsStep ==
    ASSUME IInv, [Next]_vars
    PROVE  RowsAreStored'
<1>1. CASE realm' = realm
  BY <1>1, RowsChange DEF IInv, RowsAreStored, Rows
<1>2. ASSUME NEW t \in Trips, SaveSucceeded(t)
      PROVE  RowsAreStored'
  <2>1. t \in stored /\ t \notin Rows(realm)
    BY <1>2 DEF IInv, CloudKnows, OneFate, SaveSucceeded, Saves
  <2>2. realm \in Seq(Trips) /\ realm' = Append(realm, t)
    BY <1>2 DEF IInv, TypeOK, SaveSucceeded, Saves
  <2>3. Rows(realm') = Rows(realm) \union {t}
    BY <2>2, AppendRow
  <2>4. Rows(realm') \subseteq stored'
    BY <2>1, <2>3, RowsChange DEF IInv, RowsAreStored
  <2>5. \A i, j \in DOMAIN realm' : realm'[i] = realm'[j] => i = j
    <3>1. \A i \in 1..Len(realm) : realm[i] # t
      BY <2>1, <2>2 DEF Rows
    <3>2. \A i, j \in 1..Len(realm) : realm[i] = realm[j] => i = j
      BY <2>2 DEF IInv, RowsAreStored
    <3>3. DOMAIN realm' = 1..(Len(realm) + 1) /\ Len(realm) \in Nat
      BY <2>2
    <3>4. /\ \A i \in 1..Len(realm) : realm'[i] = realm[i]
          /\ realm'[Len(realm) + 1] = t
      BY <2>2, AppendRow
    <3>5. QED
      BY <3>1, <3>2, <3>3, <3>4
  <2>6. QED
    BY <2>4, <2>5 DEF RowsAreStored
<1>3. QED
  BY <1>1, <1>2, RowsChange

(* Every step leaves each ended save with one fate.                         *)
LEMMA FateStep ==
    ASSUME IInv, [Next]_vars
    PROVE  OneFate'
<1> USE DEF IInv, TypeOK, FormIsNew, OneFate, formVars, netVars
<1>1. CASE \E t \in Trips : Configure(t)
  BY <1>1 DEF Configure
<1>2. CASE \E f \in Fields : TapField(f)
  BY <1>2 DEF TapField
<1>3. CASE Abandon
  BY <1>3 DEF Abandon
<1>4. CASE updateTextField \/ doneButtonPressed
  BY <1>4 DEF updateTextField, doneButtonPressed
<1>5. CASE requestButtonPressed
  BY <1>5 DEF requestButtonPressed
<1>6. CASE requestButtonTraps \/ Kill
  BY <1>6 DEF requestButtonTraps, Kill, Die
<1>7. ASSUME NEW t \in Trips, CloudStores(t) PROVE OneFate'
  BY <1>7 DEF CloudStores
<1>8. ASSUME NEW t \in Trips, RequestLost(t) PROVE OneFate'
  BY <1>8 DEF RequestLost
<1>9. ASSUME NEW t \in Trips, AnswerLost(t) PROVE OneFate'
  BY <1>9 DEF AnswerLost
<1>10. ASSUME NEW t \in Trips, Resend(t) PROVE OneFate'
  BY <1>10 DEF Resend
<1>11. ASSUME NEW t \in Trips, SaveSucceeded(t) PROVE OneFate'
  <2>1. Rows(realm') = Rows(realm) \union {t}
    BY <1>11, AppendRow DEF SaveSucceeded, Saves
  <2>2. QED
    BY <1>11, <2>1 DEF SaveSucceeded, Saves
<1>12. ASSUME NEW t \in Trips, SaveFailed(t) PROVE OneFate'
  BY <1>12 DEF SaveFailed
<1>13. CASE reload
  BY <1>13 DEF reload
<1>14. CASE Launch
  BY <1>14 DEF Launch
<1>15. CASE UNCHANGED vars
  BY <1>15 DEF vars
<1>16. QED
  BY <1>1, <1>2, <1>3, <1>4, <1>5, <1>6, <1>7, <1>8, <1>9, <1>10, <1>11, <1>12, <1>13, <1>14, <1>15
     DEF Next, Form, Network, Handler

(* Every step leaves the list on screen behind the rows.                    *)
LEMMA ListStep ==
    ASSUME IInv, [Next]_vars
    PROVE  ListIsOlderRealm'
<1>1. CASE realm' = realm
  <2>1. CASE reload
    <3>1. PICK n \in Len(data)..Len(realm) : data' = SubSeq(realm, 1, n)
      BY <2>1 DEF reload
    <3>2. realm \in Seq(Trips) /\ Len(data) \in Nat /\ n \in 0..Len(realm)
      BY DEF IInv, TypeOK
    <3>3. Len(data') = n /\ \A i \in 1..n : data'[i] = realm[i]
      BY <3>1, <3>2
    <3>4. QED
      BY <1>1, <3>2, <3>3 DEF ListIsOlderRealm
  <2>2. CASE ~reload
    <3>1. data' = data \/ data' = realm
      BY <2>2 DEF Next, Form, Network, Handler, Configure, TapField, Abandon, updateTextField,
             doneButtonPressed, requestButtonPressed, requestButtonTraps, Kill, Die,
             CloudStores, RequestLost, AnswerLost, Resend, SaveSucceeded, Saves,
             SaveFailed, Launch, vars, netVars
    <3>2. QED
      BY <1>1, <3>1 DEF IInv, TypeOK, ListIsOlderRealm
  <2>3. QED
    BY <2>1, <2>2
<1>2. ASSUME NEW t \in Trips, SaveSucceeded(t)
      PROVE  ListIsOlderRealm'
  BY <1>2, AppendRow DEF IInv, TypeOK, ListIsOlderRealm, SaveSucceeded, Saves
<1>3. QED
  BY <1>1, <1>2, RowsChange

-----------------------------------------------------------------------------
(* The results *)

(* Every reachable state satisfies the inductive invariant.                 *)
LEMMA Invariance == Spec => []IInv
<1>1. IInv /\ [Next]_vars => IInv'
  <2> SUFFICES ASSUME IInv, [Next]_vars PROVE IInv'
    OBVIOUS
  <2>1. TypeOK'
    BY TypeStep DEF IInv
  <2>2. FormIsNew' /\ CloudKnows'
    BY FormStep, CloudStep DEF IInv
  <2>3. RowsAreStored'
    BY RowsStep
  <2>4. OneFate'
    BY FateStep
  <2>5. ListIsOlderRealm'
    BY ListStep
  <2>6. QED
    BY <2>1, <2>2, <2>3, <2>4, <2>5 DEF IInv
<1>2. QED
  BY InitIInv, <1>1, PTL DEF Spec

(* Every variable keeps its type.                                           *)
THEOREM TypeCorrect == Spec => []TypeOK
<1>1. IInv => TypeOK
  BY DEF IInv
<1>2. QED
  BY Invariance, <1>1, PTL

(* A finished save is either a row or a forgotten trip.                     *)
THEOREM SavesHaveOneFate == Spec => []OneFate
<1>1. IInv => OneFate
  BY DEF IInv
<1>2. QED
  BY Invariance, <1>1, PTL

(* The cloud holds an item under the key of every row.                      *)
THEOREM RowsAreInCloud == Spec => []ListedIsInCloud
<1>1. IInv => ListedIsInCloud
  BY DEF IInv, CloudKnows, RowsAreStored, ListedIsInCloud
<1>2. QED
  BY Invariance, <1>1, PTL

(* The list on screen never shows a row that Realm has not, nor in another  *)
(* place.                                                                   *)
THEOREM ListFollowsRealm == Spec => []ListIsOlderRealm
<1>1. IInv => ListIsOlderRealm
  BY DEF IInv
<1>2. QED
  BY Invariance, <1>1, PTL

(* TripUpload implements TripLedger: a trip is recorded only once the cloud *)
(* has accepted it, and once.                                               *)
THEOREM Implements == Spec => ImplementsLedger
<1>1. Init => Ledger!Init
  BY DEF Init, Ledger!Init
<1>2. IInv /\ [Next]_vars => [Ledger!Next]_Ledger!vars
  <2> SUFFICES ASSUME IInv, [Next]_vars PROVE [Ledger!Next]_Ledger!vars
    OBVIOUS
  <2>1. CASE UNCHANGED <<stored, realm>>
    BY <2>1 DEF Ledger!vars
  <2>2. ASSUME NEW t \in Trips, CloudStores(t)
        PROVE  Ledger!Next
    <3>1. Ledger!Accept(t)
      BY <2>2 DEF CloudStores, Ledger!Accept
    <3>2. QED
      BY <3>1 DEF Ledger!Next
  <2>3. ASSUME NEW t \in Trips, SaveSucceeded(t)
        PROVE  Ledger!Next
    <3>1. t \in stored /\ t \notin Rows(realm)
      BY <2>3 DEF IInv, CloudKnows, OneFate, SaveSucceeded, Saves
    <3>2. Ledger!Record(t)
      BY <2>3, <3>1 DEF SaveSucceeded, Saves, Rows, Ledger!Record, Ledger!Listed
    <3>3. QED
      BY <3>2 DEF Ledger!Next
  <2>4. \/ UNCHANGED <<stored, realm>>
        \/ \E t \in Trips : CloudStores(t) \/ SaveSucceeded(t)
    BY DEF Next, Form, Network, Handler, Configure, TapField, Abandon, updateTextField,
           doneButtonPressed, requestButtonPressed, requestButtonTraps, Kill, Die,
           RequestLost, AnswerLost, Resend, SaveFailed, reload, Launch, vars, netVars
  <2>5. QED
    BY <2>1, <2>2, <2>3, <2>4
<1>3. QED
  BY Invariance, <1>1, <1>2, PTL DEF Spec, ImplementsLedger
=============================================================================
