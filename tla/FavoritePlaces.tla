--------------------------- MODULE FavoritePlaces ---------------------------
(***************************************************************************)
(* The places the rider chose before: RealmInteractor.saveFavoritePlace    *)
(* and fetchFavoritePlaces.  Only the order of the creation dates matters, *)
(* so the table is the sequence of its rows' places, newest first, as      *)
(* fetchFavoritePlaces returns it.  A save is two Realm transactions, and  *)
(* the process may die between them.  The wall clock may be set back, so a *)
(* new row need not be the newest.                                         *)
(***************************************************************************)
EXTENDS Naturals, Sequences

CONSTANTS
    Places,      \* Google places
    Threshold    \* rows above which a save deletes one; 5 in the code

ASSUME ThresholdAssumption == Threshold \in Nat \ {0}

VARIABLE favorites

(* The first transaction: above the threshold the oldest row goes.          *)
Trimmed == IF Len(favorites) > Threshold
             THEN [i \in 1..(Len(favorites) - 1) |-> favorites[i]]
             ELSE favorites

(* The table with a row for place that `newer` rows are newer than.         *)
Inserted(table, place, newer) ==
    [i \in 1..(Len(table) + 1) |->
       IF i <= newer THEN table[i] ELSE IF i = newer + 1 THEN place ELSE table[i - 1]]

UntrimmedSave(place) ==   \* mutant: nothing is ever deleted
    favorites' = Inserted(favorites, place, 0)

NewestDroppedSave(place) ==   \* mutant: sorted with ascending: false before the delete
    favorites' = IF Len(favorites) > Threshold
                   THEN Inserted(Tail(favorites), place, 0)
                   ELSE Inserted(favorites, place, 0)

TrimmedAfterSave(place) ==   \* mutant: inserted first, then the oldest goes
    \E newer \in 0..Len(favorites) :
      favorites' = IF Len(favorites) > Threshold
                     THEN [i \in 1..Len(favorites) |-> Inserted(favorites, place, newer)[i]]
                     ELSE Inserted(favorites, place, newer)

saveFavoritePlace(place) ==
    \E newer \in 0..Len(Trimmed) : favorites' = Inserted(Trimmed, place, newer)

(* The process dies after the first transaction.                            *)
saveCutShort == favorites' = Trimmed

FavInit == favorites = <<>>
FavNext == saveCutShort \/ \E place \in Places : saveFavoritePlace(place)
FavSpec == FavInit /\ [][FavNext]_favorites

-----------------------------------------------------------------------------
(* The table never holds more than six places: one more than the threshold, *)
(* because the count is taken before the new row is added.                  *)
HistoryBounded == Len(favorites) <= Threshold + 1

(* A save never loses more than the oldest row, even when the process dies  *)
(* in the middle of it: every other row is still there, in the same order,  *)
(* and at least Threshold rows remain of a table that had them.             *)
OnlyOldestGoes ==
    [][/\ Len(favorites) >= Threshold => Len(favorites') >= Threshold
       /\ \A i \in 1..(Len(favorites) - 1) :
            \E j \in {i, i + 1} : /\ j \in 1..Len(favorites')
                                  /\ favorites'[j] = favorites[i]]_favorites
=============================================================================
