------------------------- MODULE PlaceSearch_proofs -------------------------
(***************************************************************************)
(* Proofs about PlaceSearch for any texts, any predictions and any number  *)
(* of queries in flight.  What the search does to the favorite places is   *)
(* an instance of FavoritePlaces, whose theorems it inherits.              *)
(***************************************************************************)
EXTENDS PlaceSearch, SequenceTheorems, TLAPS

-----------------------------------------------------------------------------
(* The favorite places *)

(* What a save and a save cut short keep of the table.                      *)
FavIInv == favorites \in Seq(Places) /\ HistoryBounded

-----------------------------------------------------------------------------
(* The operators *)

(* A function on an initial segment of the naturals is a sequence of that   *)
(* length.                                                                  *)
LEMMA SegmentIsSeq ==
    ASSUME NEW S, NEW n \in Nat, NEW f \in [1..n -> S]
    PROVE  f \in Seq(S) /\ Len(f) = n
<1>1. f \in Seq(S)
  BY SeqDef
<1>2. Len(f) \in Nat /\ DOMAIN f = 1..Len(f) /\ DOMAIN f = 1..n
  BY <1>1, LenProperties
<1>3. Len(f) = n
  BY <1>2
<1>4. QED
  BY <1>1, <1>3

(* The first transaction leaves a table of Threshold rows at most, unless   *)
(* it had none to delete, and touches none but the oldest.                  *)
LEMMA TrimmedProperties ==
    ASSUME favorites \in Seq(Places), HistoryBounded
    PROVE  /\ Trimmed \in Seq(Places)
           /\ Len(Trimmed) <= Threshold
           /\ Len(favorites) <= Threshold => Len(Trimmed) = Len(favorites)
           /\ Len(favorites) > Threshold => Len(Trimmed) = Len(favorites) - 1
           /\ \A i \in 1..Len(Trimmed) : Trimmed[i] = favorites[i]
<1>1. Len(favorites) \in Nat /\ favorites \in [1..Len(favorites) -> Places]
  BY LenProperties
<1>0. Len(favorites) \in Nat /\ Threshold \in Nat
  BY <1>1, ThresholdAssumption
<1>2. CASE Len(favorites) > Threshold
  <2> DEFINE n == Len(favorites) - 1
             f == [i \in 1..n |-> favorites[i]]
  <2>1. n \in Nat /\ f \in [1..n -> Places]
    BY <1>1, <1>2, ThresholdAssumption
  <2>2. f \in Seq(Places) /\ Len(f) = n
    <3> HIDE DEF n, f
    <3>1. QED
      BY <2>1, SegmentIsSeq
  <2>3. Trimmed = f
    BY <1>2 DEF Trimmed
  <2>4. Len(favorites) = Threshold + 1
    BY <1>0, <1>2 DEF HistoryBounded
  <2>5. \A i \in 1..n : f[i] = favorites[i]
    OBVIOUS
  <2> HIDE DEF f
  <2>6. QED
    BY <1>1, <2>2, <2>3, <2>4, <2>5, ThresholdAssumption
<1>3. CASE ~(Len(favorites) > Threshold)
  <2>1. Trimmed = favorites
    BY <1>3 DEF Trimmed
  <2>2. QED
    BY <1>0, <1>3, <2>1
<1>4. QED
  BY <1>2, <1>3

(* Inserting adds one row and shifts those behind it by one.                *)
LEMMA InsertedProperties ==
    ASSUME NEW table \in Seq(Places), NEW place \in Places, NEW newer \in 0..Len(table)
    PROVE  /\ Inserted(table, place, newer) \in Seq(Places)
           /\ Len(Inserted(table, place, newer)) = Len(table) + 1
           /\ \A i \in 1..Len(table) :
                \E j \in {i, i + 1} : /\ j \in 1..(Len(table) + 1)
                                      /\ Inserted(table, place, newer)[j] = table[i]
           /\ newer + 1 \in DOMAIN Inserted(table, place, newer)
           /\ Inserted(table, place, newer)[newer + 1] = place
<1> DEFINE n == Len(table) + 1
           f == Inserted(table, place, newer)
<1>1. Len(table) \in Nat /\ table \in [1..Len(table) -> Places]
  BY LenProperties
<1>2. n \in Nat /\ f \in [1..n -> Places]
  BY <1>1 DEF Inserted
<1>3. f \in Seq(Places) /\ Len(f) = n
  <2> HIDE DEF n, f
  <2>1. QED
    BY <1>2, SegmentIsSeq
<1>4. ASSUME NEW i \in 1..Len(table)
      PROVE  \E j \in {i, i + 1} : j \in 1..n /\ f[j] = table[i]
  <2>1. CASE i <= newer
    <3>1. i \in 1..n /\ f[i] = table[i]
      BY <1>1, <2>1 DEF Inserted
    <3>2. QED
      BY <3>1
  <2>2. CASE ~(i <= newer)
    <3>1. i + 1 \in 1..n /\ f[i + 1] = table[i]
      BY <1>1, <2>2 DEF Inserted
    <3>2. QED
      BY <3>1
  <2>3. QED
    BY <2>1, <2>2
<1>5. newer + 1 \in DOMAIN f /\ f[newer + 1] = place
  BY <1>1 DEF Inserted
<1>6. QED
  BY <1>3, <1>4, <1>5

-----------------------------------------------------------------------------
(* The results *)

(* Every step keeps a table of at most Threshold + 1 rows.                  *)
LEMMA FavStep ==
    ASSUME FavIInv, [FavNext]_favorites
    PROVE  FavIInv'
<1> USE DEF FavIInv
<1>1. CASE saveCutShort
  BY <1>1, TrimmedProperties, LenProperties, ThresholdAssumption
     DEF saveCutShort, HistoryBounded
<1>2. ASSUME NEW place \in Places, saveFavoritePlace(place)
      PROVE  FavIInv'
  <2>1. PICK newer \in 0..Len(Trimmed) : favorites' = Inserted(Trimmed, place, newer)
    BY <1>2 DEF saveFavoritePlace
  <2>2. favorites' \in Seq(Places) /\ Len(favorites') = Len(Trimmed) + 1
    BY <2>1, TrimmedProperties, InsertedProperties
  <2>3. QED
    BY <2>2, TrimmedProperties, LenProperties, ThresholdAssumption DEF HistoryBounded
<1>3. CASE UNCHANGED favorites
  BY <1>3 DEF HistoryBounded
<1>4. QED
  BY <1>1, <1>2, <1>3 DEF FavNext

(* Every reachable table satisfies the invariant.                           *)
LEMMA FavInvariance == FavSpec => []FavIInv
<1>1. FavInit => FavIInv
  BY ThresholdAssumption DEF FavInit, FavIInv, HistoryBounded
<1>2. FavIInv /\ [FavNext]_favorites => FavIInv'
  BY FavStep
<1>3. QED
  BY <1>1, <1>2, PTL DEF FavSpec

(* The table never holds more than Threshold + 1 rows.                      *)
THEOREM FavoritesAreBounded == FavSpec => []HistoryBounded
<1>1. FavIInv => HistoryBounded
  BY DEF FavIInv
<1>2. QED
  BY FavInvariance, <1>1, PTL

(* A save, whole or cut short, loses the oldest row at most.                *)
THEOREM SaveLosesOldest == FavSpec => OnlyOldestGoes
<1> DEFINE Kept ==
      /\ Len(favorites) >= Threshold => Len(favorites') >= Threshold
      /\ \A i \in 1..(Len(favorites) - 1) :
           \E j \in {i, i + 1} : /\ j \in 1..Len(favorites')
                                 /\ favorites'[j] = favorites[i]
<1>1. FavIInv /\ [FavNext]_favorites => [Kept]_favorites
  <2> SUFFICES ASSUME FavIInv, FavNext PROVE Kept
    OBVIOUS
  <2> USE ThresholdAssumption
  <2>1. Len(favorites) \in Nat /\ Len(Trimmed) \in Nat
    BY TrimmedProperties, LenProperties DEF FavIInv
  <2>2. /\ Len(favorites) >= Threshold => Len(Trimmed) >= Threshold
        /\ \A i \in 1..(Len(favorites) - 1) :
             i \in 1..Len(Trimmed) /\ Trimmed[i] = favorites[i]
    BY <2>1, TrimmedProperties DEF FavIInv
  <2>3. CASE saveCutShort
    BY <2>1, <2>2, <2>3 DEF saveCutShort
  <2>4. ASSUME NEW place \in Places, saveFavoritePlace(place)
        PROVE  Kept
    <3>1. PICK newer \in 0..Len(Trimmed) : favorites' = Inserted(Trimmed, place, newer)
      BY <2>4 DEF saveFavoritePlace
    <3>2. Trimmed \in Seq(Places)
      BY TrimmedProperties DEF FavIInv
    <3>3. /\ Len(favorites') = Len(Trimmed) + 1
          /\ \A i \in 1..Len(Trimmed) :
               \E j \in {i, i + 1} : /\ j \in 1..(Len(Trimmed) + 1)
                                     /\ favorites'[j] = Trimmed[i]
      <4> DEFINE table == Trimmed
      <4>1. table \in Seq(Places) /\ newer \in 0..Len(table)
        BY <3>2
      <4> HIDE DEF table
      <4>2. /\ Len(Inserted(table, place, newer)) = Len(table) + 1
            /\ \A i \in 1..Len(table) :
                 \E j \in {i, i + 1} : /\ j \in 1..(Len(table) + 1)
                                       /\ Inserted(table, place, newer)[j] = table[i]
        BY <4>1, InsertedProperties
      <4>3. QED
        BY <3>1, <4>2 DEF table
    <3>4. QED
      BY <2>1, <2>2, <3>3
  <2>5. QED
    BY <2>3, <2>4 DEF FavNext
<1>2. QED
  BY FavInvariance, <1>1, PTL DEF FavSpec, OnlyOldestGoes

-----------------------------------------------------------------------------
(* The search *)

(* The rows in view are those the data source they were drawn from still    *)
(* gives: nothing changes a source without redrawing or hiding the table.   *)
Fresh ==
    Running /\ ~hidden =>
      /\ drawnFrom = "favorites" => drawn = favorites
      /\ drawnFrom = "results" => drawn = IF results = None THEN <<>> ELSE results

(* The inductive invariant.                                                 *)
IInv ==
    /\ text \in Texts \union {None}
    /\ results = None \/ results \in Seq(Places)
    /\ queries \subseteq [id : Calls, text : Texts \union {None}]
    /\ drawnFrom \in {"favorites", "results"}
    /\ Fresh
    /\ RowMeansWhatItShows
    /\ TrapNeedsStaleRows

(* The invariant holds on a fresh screen.                                   *)
LEMMA InitIInv == Init => IInv
BY DEF Init, IInv, Fresh, RowMeansWhatItShows, TrapNeedsStaleRows, NoChoice

(* Every event keeps it.                                                    *)
LEMMA Step == IInv /\ [Next]_vars => IInv'
<1> SUFFICES ASSUME IInv, [Next]_vars PROVE IInv'
  OBVIOUS
<1> USE NoneAssumption, PredictionsAssumption
    DEF IInv, Fresh, RowMeansWhatItShows, TrapNeedsStaleRows, Running, Source, Rows
<1>1. CASE searchBarTextDidBeginEditing
  BY <1>1 DEF searchBarTextDidBeginEditing, reloadData
<1>2. ASSUME NEW typed \in Texts \union {None}, textDidChange(typed)
      PROVE  IInv'
  BY <1>2 DEF textDidChange
<1>3. ASSUME NEW q \in queries, QueryAnswered(q) PROVE IInv'
  <2>1. results' \in Seq(Places)
    BY <1>3, EmptySeq DEF QueryAnswered
  <2>2. QED
    BY <1>3, <2>1 DEF QueryAnswered, reloadData
<1>4. ASSUME NEW q \in queries, QueryFailed(q) PROVE IInv'
  BY <1>4 DEF QueryFailed
<1>5. ASSUME NEW row \in DOMAIN drawn, TapFavorite(row) PROVE IInv'
  BY <1>5 DEF TapFavorite, Tap, Choose, NoChoice
<1>6. ASSUME NEW row \in DOMAIN drawn, TapPrediction(row) PROVE IInv'
  BY <1>6 DEF TapPrediction, Tap, Choose, NoChoice
<1>7. ASSUME NEW row \in DOMAIN drawn, TapTraps(row) PROVE IInv'
  BY <1>7 DEF TapTraps, Tap, Die
<1>8. ASSUME NEW row \in DOMAIN drawn, TapPredictionDies(row) PROVE IInv'
  BY <1>8 DEF TapPredictionDies, Tap, Die
<1>9. CASE Reopen
  BY <1>9 DEF Reopen, NoChoice
<1>10. CASE UNCHANGED vars
  BY <1>10 DEF vars
<1>11. QED
  BY <1>1, <1>2, <1>3, <1>4, <1>5, <1>6, <1>7, <1>8, <1>9, <1>10 DEF Next

(* Every reachable state satisfies it.                                      *)
LEMMA Invariance == Spec => []IInv
BY InitIInv, Step, PTL DEF Spec

(* A tap means the row it was made on, unless the bar went from empty to    *)
(* not empty, or back, after the rows were drawn.                           *)
THEOREM TapMeansItsRow == Spec => []RowMeansWhatItShows
<1>1. IInv => RowMeansWhatItShows
  BY DEF IInv
<1>2. QED
  BY Invariance, <1>1, PTL

(* Only in that window can a tap end the process.                           *)
THEOREM TrapsNeedStaleRows == Spec => []TrapNeedsStaleRows
<1>1. IInv => TrapNeedsStaleRows
  BY DEF IInv
<1>2. QED
  BY Invariance, <1>1, PTL

(* The search is a client of the table: what holds of every FavSpec holds   *)
(* of the favorite places here.                                             *)
LEMMA SearchSavesFavorites == Spec => FavSpec
<1>1. Init => FavInit
  BY DEF Init
<1>2. IInv /\ [Next]_vars => [FavNext]_favorites
  <2> SUFFICES ASSUME IInv, [Next]_vars PROVE [FavNext]_favorites
    OBVIOUS
  <2>1. ASSUME NEW row \in DOMAIN drawn, TapPrediction(row) PROVE FavNext
    <3>1. results[row] \in Places
      BY <2>1, ElementOfSeq, LenProperties DEF TapPrediction, IInv
    <3>2. QED
      BY <2>1, <3>1 DEF TapPrediction, FavNext
  <2>2. ASSUME NEW row \in DOMAIN drawn, TapPredictionDies(row) PROVE FavNext
    BY <2>2 DEF TapPredictionDies, FavNext
  <2>3. \/ UNCHANGED favorites
        \/ \E row \in DOMAIN drawn : TapPrediction(row) \/ TapPredictionDies(row)
    BY DEF Next, vars, searchBarTextDidBeginEditing, textDidChange, QueryAnswered,
           QueryFailed, TapFavorite, TapTraps, Reopen
  <2>4. QED
    BY <2>1, <2>2, <2>3
<1>3. QED
  BY Invariance, <1>1, <1>2, PTL DEF Spec, FavSpec

(* The bound on the favorite places carries over to the search.             *)
THEOREM SearchKeepsBound == Spec => []HistoryBounded
BY SearchSavesFavorites, FavoritesAreBounded

-----------------------------------------------------------------------------
(* The types *)

(* Every event keeps the types, given those of the table of favorites.      *)
LEMMA TypeStep ==
    TypeOK /\ IInv /\ FavIInv' /\ [Next]_vars => TypeOK'
<1> SUFFICES ASSUME TypeOK, IInv, FavIInv', [Next]_vars PROVE TypeOK'
  OBVIOUS
<1>0. favorites' \in Seq(Places)
  BY DEF FavIInv
<1> USE <1>0, EmptySeq, NoneAssumption, PredictionsAssumption DEF TypeOK
<1>1. CASE searchBarTextDidBeginEditing
  BY <1>1 DEF searchBarTextDidBeginEditing, reloadData, Rows, Source
<1>2. ASSUME NEW typed \in Texts \union {None}, textDidChange(typed)
      PROVE  TypeOK'
  BY <1>2 DEF textDidChange
<1>3. ASSUME NEW q \in queries, QueryAnswered(q) PROVE TypeOK'
  <2>1. results' \in Seq(Places)
    BY <1>3 DEF QueryAnswered
  <2>2. drawn' \in Seq(Places) /\ drawnFrom' \in {"favorites", "results"}
    BY <1>3, <2>1 DEF QueryAnswered, reloadData, Rows, Source
  <2>3. QED
    BY <1>3, <2>1, <2>2 DEF QueryAnswered
<1>4. ASSUME NEW q \in queries, QueryFailed(q) PROVE TypeOK'
  BY <1>4 DEF QueryFailed
<1>5. ASSUME NEW row \in DOMAIN drawn, NEW place \in Places, Choose(row, place),
             UNCHANGED <<results, trap>>
      PROVE  TypeOK'
  <2>1. drawn[row] \in Places
    BY ElementOfSeq, LenProperties
  <2>2. chosen' \in [shown : Places, meant : Places, stale : BOOLEAN]
    BY <1>5, <2>1 DEF Choose
  <2>3. QED
    BY <1>5, <2>2 DEF Choose
<1>6. ASSUME NEW row \in DOMAIN drawn, TapFavorite(row) PROVE TypeOK'
  <2>1. favorites[row] \in Places
    BY <1>6, ElementOfSeq, LenProperties DEF TapFavorite
  <2>2. QED
    BY <1>5, <1>6, <2>1 DEF TapFavorite, Choose
<1>7. ASSUME NEW row \in DOMAIN drawn, TapPrediction(row) PROVE TypeOK'
  <2>1. results[row] \in Places
    BY <1>7, ElementOfSeq, LenProperties DEF TapPrediction
  <2>2. QED
    BY <1>5, <1>7, <2>1 DEF TapPrediction, Choose
<1>8. ASSUME NEW row \in DOMAIN drawn, TapTraps(row) PROVE TypeOK'
  BY <1>8 DEF TapTraps, Die
<1>9. ASSUME NEW row \in DOMAIN drawn, TapPredictionDies(row) PROVE TypeOK'
  BY <1>9 DEF TapPredictionDies, Die
<1>10. CASE Reopen
  BY <1>10 DEF Reopen
<1>11. CASE UNCHANGED vars
  BY <1>11 DEF vars
<1>12. QED
  BY <1>1, <1>2, <1>3, <1>4, <1>6, <1>7, <1>8, <1>9, <1>10, <1>11 DEF Next

(* The variables of the search keep their types: rows and results are       *)
(* places, whichever handler drew them.                                     *)
THEOREM TypeCorrect == Spec => []TypeOK
<1>1. Init => TypeOK
  BY EmptySeq DEF Init, FavInit, TypeOK
<1>2. Spec => []FavIInv
  BY SearchSavesFavorites, FavInvariance
<1>3. QED
  BY <1>1, <1>2, TypeStep, Invariance, PTL DEF Spec

-----------------------------------------------------------------------------
(* The choice *)

(* A save holds the place it was made for.                                  *)
LEMMA SaveHoldsPlace ==
    ASSUME FavIInv, NEW place \in Places, saveFavoritePlace(place)
    PROVE  \E i \in DOMAIN favorites' : favorites'[i] = place
<1> DEFINE table == Trimmed
<1>1. table \in Seq(Places)
  BY TrimmedProperties DEF FavIInv
<1>2. PICK newer \in 0..Len(table) : favorites' = Inserted(table, place, newer)
  BY DEF saveFavoritePlace
<1> HIDE DEF table
<1>3. newer + 1 \in DOMAIN favorites' /\ favorites'[newer + 1] = place
  BY <1>1, <1>2, InsertedProperties
<1>4. QED
  BY <1>3

(* Every event keeps the last choice among the favorite places.             *)
LEMMA ChoiceStep ==
    TypeOK /\ FavIInv /\ ChoiceIsRemembered /\ [Next]_vars => ChoiceIsRemembered'
<1> SUFFICES ASSUME TypeOK, FavIInv, ChoiceIsRemembered, [Next]_vars
             PROVE  ChoiceIsRemembered'
  OBVIOUS
<1>1. ASSUME UNCHANGED <<favorites, chosen, trap>> PROVE ChoiceIsRemembered'
  BY <1>1 DEF ChoiceIsRemembered, Running, NoChoice
<1>2. ASSUME NEW row \in DOMAIN drawn, TapFavorite(row) PROVE ChoiceIsRemembered'
  <2>1. /\ row \in DOMAIN favorites' /\ favorites' = favorites
        /\ chosen'.meant = favorites[row]
    BY <1>2 DEF TapFavorite, Choose
  <2>2. QED
    BY <2>1 DEF ChoiceIsRemembered
<1>3. ASSUME NEW row \in DOMAIN drawn, TapPrediction(row) PROVE ChoiceIsRemembered'
  <2>1. results[row] \in Places
    BY <1>3, ElementOfSeq, LenProperties DEF TapPrediction, TypeOK
  <2>2. chosen'.meant = results[row] /\ saveFavoritePlace(results[row])
    BY <1>3 DEF TapPrediction, Choose
  <2>3. QED
    BY <2>1, <2>2, SaveHoldsPlace DEF ChoiceIsRemembered
<1>4. ASSUME NEW row \in DOMAIN drawn, TapTraps(row) \/ TapPredictionDies(row)
      PROVE  ChoiceIsRemembered'
  <2>1. trap' # "none"
    BY <1>4 DEF TapTraps, TapPredictionDies, Die
  <2>2. QED
    BY <2>1 DEF ChoiceIsRemembered, Running
<1>5. CASE Reopen
  BY <1>5 DEF Reopen, ChoiceIsRemembered, NoChoice
<1>6. CASE \/ searchBarTextDidBeginEditing
           \/ \E typed \in Texts \union {None} : textDidChange(typed)
           \/ \E q \in queries : QueryAnswered(q) \/ QueryFailed(q)
           \/ UNCHANGED vars
  BY <1>1, <1>6 DEF searchBarTextDidBeginEditing, textDidChange, QueryAnswered,
     QueryFailed, vars
<1>7. QED
  BY <1>2, <1>3, <1>4, <1>5, <1>6 DEF Next

(* A place just chosen is among the favorite places, whatever the clock and *)
(* the number of rows: saveFavoritePlace deletes before it adds.            *)
THEOREM ChoicesAreRemembered == Spec => []ChoiceIsRemembered
<1>1. Init => ChoiceIsRemembered
  BY DEF Init, ChoiceIsRemembered
<1>2. Spec => []FavIInv
  BY SearchSavesFavorites, FavInvariance
<1>3. QED
  BY <1>1, <1>2, ChoiceStep, TypeCorrect, PTL DEF Spec
=============================================================================
