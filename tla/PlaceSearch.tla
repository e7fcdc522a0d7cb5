----------------------------- MODULE PlaceSearch -----------------------------
(***************************************************************************)
(* The search bar of AddTripWithMapVC and the table under it.  While the   *)
(* bar is empty the table's data source answers with the favorite places,  *)
(* otherwise with the predictions last received; UIKit asks it at          *)
(* reloadData and keeps what it drew until the next one, whereas a tap is  *)
(* interpreted with the text and the predictions of that moment.           *)
(***************************************************************************)
EXTENDS FavoritePlaces

CONSTANTS
    Texts,          \* what the rider may type, the empty text excluded
    Predictions,    \* the predictions of GooglePlaces for each text
    Calls,          \* identities of the queries in flight: their bound
    None            \* nil, and the empty text

ASSUME PredictionsAssumption == Predictions \in [Texts -> Seq(Places)]
ASSUME NoneAssumption == None \notin Texts

VARIABLES
    text,       \* searchBar.text, None when it is ""
    hidden,     \* tableView.isHidden
    results,    \* the predictions last received, or None
    drawn,      \* the rows the table shows, as of its last reloadData
    drawnFrom,  \* the data source used then: "favorites" or "results"
    queries,    \* outstanding autocompleteQuery calls
    chosen,     \* history: what the last tapped row showed and what it meant
    trap        \* the unwrap or index that ended the process

vars == <<favorites, text, hidden, results, drawn, drawnFrom, queries, chosen, trap>>

Running == trap = "none"
NoChoice == [shown |-> None]

TypeOK ==
    /\ favorites \in Seq(Places)
    /\ text \in Texts \union {None}
    /\ hidden \in BOOLEAN
    /\ results = None \/ results \in Seq(Places)
    /\ drawn \in Seq(Places)
    /\ drawnFrom \in {"favorites", "results"}
    /\ queries \subseteq [id : Calls, text : Texts \union {None}]
    /\ chosen = NoChoice \/ chosen \in [shown : Places, meant : Places, stale : BOOLEAN]
    /\ trap \in {"none", "nilPrediction", "badRow", "killed"}

(* numberOfRows and cellForRow.                                             *)
Source(txt) == IF txt = None THEN "favorites" ELSE "results"
Rows(txt, table, predictions) ==
    IF txt = None THEN table ELSE IF predictions = None THEN <<>> ELSE predictions

reloadData ==
    /\ drawn' = Rows(text', favorites', results')
    /\ drawnFrom' = Source(text')

Init ==
    /\ FavInit
    /\ text = None
    /\ hidden = TRUE
    /\ results = None
    /\ drawn = <<>>
    /\ drawnFrom = "favorites"
    /\ queries = {}
    /\ chosen = NoChoice
    /\ trap = "none"

-----------------------------------------------------------------------------
BeginEditingKeepsRows ==   \* mutant: no reloadData
    /\ Running
    /\ hidden' = FALSE
    /\ UNCHANGED <<favorites, text, results, drawn, drawnFrom, queries, chosen, trap>>

searchBarTextDidBeginEditing ==
    /\ Running
    /\ hidden' = FALSE
    /\ UNCHANGED <<favorites, text, results, queries, chosen, trap>>
    /\ reloadData

(* The table is not reloaded here, only when the answer comes.              *)
textDidChange(typed) ==
    /\ Running
    /\ ~hidden
    /\ typed # text
    /\ text' = typed
    /\ \E id \in Calls \ {q.id : q \in queries} :
         queries' = queries \union {[id |-> id, text |-> typed]}
    /\ UNCHANGED <<favorites, hidden, results, drawn, drawnFrom, chosen, trap>>

(* The answer to a query, whatever the bar holds by now.  Of an empty text  *)
(* nothing is predicted.                                                    *)
QueryAnsweredKeepsRows(q) ==   \* mutant: no reloadData
    /\ Running
    /\ queries' = queries \ {q}
    /\ results' = IF q.text = None THEN <<>> ELSE Predictions[q.text]
    /\ UNCHANGED <<favorites, text, hidden, drawn, drawnFrom, chosen, trap>>

QueryAnswered(q) ==
    /\ Running
    /\ queries' = queries \ {q}
    /\ results' = IF q.text = None THEN <<>> ELSE Predictions[q.text]
    /\ UNCHANGED <<favorites, text, hidden, chosen, trap>>
    /\ reloadData

QueryFailed(q) ==
    /\ Running
    /\ queries' = queries \ {q}
    /\ UNCHANGED <<favorites, text, hidden, results, drawn, drawnFrom, chosen, trap>>

-----------------------------------------------------------------------------
(* didSelectRowAt *)

Tap(row) ==
    /\ Running
    /\ ~hidden
    /\ row \in DOMAIN drawn

ChooseKeepsText(row, place) ==   \* mutant: the bar shows the place chosen
    /\ chosen' = [shown |-> drawn[row], meant |-> place,
                  stale |-> drawnFrom # Source(text)]
    /\ hidden' = TRUE
    /\ text' = place
    /\ UNCHANGED <<results, drawn, drawnFrom, queries, trap>>

(* The place is looked up (RoutePlanning's Select), table and text cleared. *)
Choose(row, place) ==
    /\ chosen' = [shown |-> drawn[row], meant |-> place,
                  stale |-> drawnFrom # Source(text)]
    /\ hidden' = TRUE
    /\ text' = None
    /\ UNCHANGED <<results, drawn, drawnFrom, queries, trap>>

(* The bar is empty: the row is one of the favorite places.                 *)
TapFavorite(row) ==
    /\ Tap(row)
    /\ text = None
    /\ row \in DOMAIN favorites
    /\ Choose(row, favorites[row])
    /\ UNCHANGED favorites

(* The row is one of the predictions, and is saved before it is looked up.  *)
TapPrediction(row) ==
    /\ Tap(row)
    /\ text # None
    /\ results # None
    /\ row \in DOMAIN results
    /\ Choose(row, results[row])
    /\ saveFavoritePlace(results[row])

Die(why) ==
    /\ trap' = why
    /\ UNCHANGED <<text, hidden, results, drawn, drawnFrom, queries, chosen>>

(* results is nil: destination! traps; or the row is beyond the rows the    *)
(* data source has by now.                                                  *)
TapTraps(row) ==
    /\ Tap(row)
    /\ row \notin DOMAIN Rows(text, favorites, results)
    /\ Die(IF text # None /\ results = None THEN "nilPrediction" ELSE "badRow")
    /\ UNCHANGED favorites

(* The process dies between the two transactions of the save.               *)
TapPredictionDies(row) ==
    /\ Tap(row)
    /\ text # None
    /\ row \in DOMAIN Rows(text, favorites, results)
    /\ Die("killed")
    /\ saveCutShort

(* A new screen, in this process or after a launch: only Realm survives.    *)
Reopen ==
    /\ text' = None
    /\ hidden' = TRUE
    /\ results' = None
    /\ drawn' = <<>>
    /\ drawnFrom' = "favorites"
    /\ queries' = {}
    /\ chosen' = NoChoice
    /\ trap' = "none"
    /\ UNCHANGED favorites

-----------------------------------------------------------------------------
Next ==
    \/ searchBarTextDidBeginEditing
    \/ \E typed \in Texts \union {None} : textDidChange(typed)
    \/ \E q \in queries : QueryAnswered(q) \/ QueryFailed(q)
    \/ \E row \in DOMAIN drawn :
         \/ TapFavorite(row) \/ TapPrediction(row)
         \/ TapTraps(row) \/ TapPredictionDies(row)
    \/ Reopen

Spec == Init /\ [][Next]_vars

-----------------------------------------------------------------------------
(* Properties *)

(* A tap means the row it was made on, as long as the bar has not changed   *)
(* between empty and not empty since the rows were drawn: favorites are     *)
(* saved, predictions received and the table drawn by different handlers.   *)
RowMeansWhatItShows ==
    chosen # NoChoice /\ ~chosen.stale => chosen.shown = chosen.meant

(* A tap can only trap in that same window.                                 *)
TrapNeedsStaleRows ==
    trap \in {"nilPrediction", "badRow"} => drawnFrom # Source(text)

(* The place just chosen is offered again when the bar is empty: it is not  *)
(* the row that its own save deletes, even with the table full and a clock  *)
(* set back that makes the new row the oldest.                              *)
ChoiceIsRemembered ==
    Running /\ chosen # NoChoice =>
        \E i \in DOMAIN favorites : favorites[i] = chosen.meant

(* destination! at AddTripWithMapVC.swift:129 asserts that a row tapped     *)
(* while the bar holds a text is a prediction.                              *)
PredictionUnwrapHolds == trap # "nilPrediction"
=============================================================================
