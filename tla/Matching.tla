------------------------------- MODULE Matching -------------------------------
(***************************************************************************)
(* Finding and requesting a ride: ResultsMapVC asks the cloud for trips    *)
(* that fit the rider's (LambdaInteractor.callCloudFunction) when it opens *)
(* and at every refresh, shows the answer that came last, and hands the    *)
(* row selected to AcceptMatchVC, whose button asks the cloud to make a    *)
(* match (callMatchFuction) every time it is pressed.                      *)
(*                                                                         *)
(* Answers are decoded on an SDK thread and handed to the main queue, in   *)
(* any order; errors are printed and nobody is told.  The cloud is         *)
(* external: it answers a find with what is offered at that moment, and    *)
(* may serve a match request although its answer is lost.                  *)
(***************************************************************************)
EXTENDS Naturals, FiniteSets

CONSTANTS
    Mine,        \* the rider's own trips
    Offers,      \* trips of others that may be offered
    Calls,       \* identities of the finds in flight: the bound on them
    MaxPresses,  \* bound: presses of the request button
    None         \* nil

ASSUME NoneAssumption == None \notin Mine \union Offers
ASSUME OffersAssumption == IsFiniteSet(Offers)
ASSUME MaxPressesAssumption == MaxPresses \in Nat

VARIABLES
    screen,         \* the view controller in view
    selectedTrip,   \* the rider's trip both screens are about
    potentialTrips, \* the results last received, or None
    drawn,          \* the rows the table shows, as of its last reloadData
    row,            \* indexPathForSelectedRow, 0 when none is selected
    seen,           \* history: the offer shown by the row last tapped
    matchedTrip,    \* the offer AcceptMatchVC asks for
    finds,          \* finds in flight; shown: their ResultsMapVC is not popped
    puts,           \* match requests in flight, by trip and offer
    offered,        \* cloud: the offers, in the order of its answer
    matches,        \* cloud: the matches made, by trip and offer
    presses,        \* presses of the request button
    asked,          \* history: those made with that trip and that offer seen
    trap            \* the unwrap or index that ended the process

uiVars == <<screen, selectedTrip, potentialTrips, drawn, row, seen, matchedTrip>>
cloudVars == <<offered, matches>>
userVars == <<presses, asked>>
vars == <<uiVars, finds, puts, cloudVars, userVars, trap>>

(* Answers: some of the offers, each at most once, in any order.            *)
Answers == UNION {{f \in [1..n -> Offers] : \A i, j \in 1..n : f[i] = f[j] => i = j}
                  : n \in 0..Cardinality(Offers)}
Pair == [mine : Mine, other : Offers]

TypeOK ==
    /\ screen \in {"list", "results", "accept"}
    /\ selectedTrip \in Mine \union {None}
    /\ potentialTrips \in Answers \union {None}
    /\ drawn \in Answers
    /\ row \in 0..Cardinality(Offers)
    /\ seen \in Offers \union {None}
    /\ matchedTrip \in Offers \union {None}
    /\ finds \subseteq [id : Calls, answer : Answers \union {None}, shown : BOOLEAN]
    /\ puts \in [Pair -> Nat]
    /\ offered \in Answers
    /\ matches \in [Pair -> Nat]
    /\ presses \in 0..MaxPresses
    /\ asked \in [Pair -> Nat]
    /\ trap \in {"none", "nilRow", "badRow", "nilMatch", "noItems"}

Running == trap = "none"

Init ==
    /\ screen = "list"
    /\ selectedTrip = None
    /\ potentialTrips = None
    /\ drawn = <<>>
    /\ row = 0
    /\ seen = None
    /\ matchedTrip = None
    /\ finds = {}
    /\ puts = [p \in Pair |-> 0]
    /\ offered \in Answers
    /\ matches = [p \in Pair |-> 0]
    /\ presses = 0
    /\ asked = [p \in Pair |-> 0]
    /\ trap = "none"

Trap(why) ==
    /\ trap' = why
    /\ UNCHANGED <<uiVars, finds, puts, cloudVars, userVars>>

-----------------------------------------------------------------------------
(* ResultsMapVC *)

callCloudFunction ==
    \E id \in Calls \ {f.id : f \in finds} :
      finds' = finds \union {[id |-> id, answer |-> None, shown |-> TRUE]}

(* findMatchesSegue and viewDidLoad: a fresh table, and a find.             *)
Open(mine) ==
    /\ Running
    /\ screen = "list"
    /\ screen' = "results"
    /\ selectedTrip' = mine
    /\ potentialTrips' = None
    /\ drawn' = <<>>
    /\ row' = 0
    /\ seen' = None
    /\ callCloudFunction
    /\ UNCHANGED <<matchedTrip, puts, cloudVars, userVars, trap>>

refresh ==
    /\ Running
    /\ screen = "results"
    /\ callCloudFunction
    /\ UNCHANGED <<uiVars, puts, cloudVars, userVars, trap>>

(* The main queue runs the completion.  reloadData redraws the rows and     *)
(* drops the selection, also under AcceptMatchVC.                           *)
ResultsKeepSelection(f) ==   \* mutant: the selection survives the reload
    /\ Running
    /\ f.answer # None /\ f.shown
    /\ finds' = finds \ {f}
    /\ potentialTrips' = f.answer
    /\ drawn' = f.answer
    /\ UNCHANGED <<screen, selectedTrip, row, seen, matchedTrip, puts, cloudVars,
                   userVars, trap>>

Results(f) ==
    /\ Running
    /\ f.answer # None /\ f.shown
    /\ finds' = finds \ {f}
    /\ potentialTrips' = f.answer
    /\ drawn' = f.answer
    /\ row' = 0
    /\ UNCHANGED <<screen, selectedTrip, seen, matchedTrip, puts, cloudVars, userVars,
                   trap>>

(* An error or an exception is printed; the completion of a popped screen   *)
(* writes to an object nobody sees.                                         *)
FindUnseen(f) ==
    /\ Running
    /\ finds' = finds \ {f}
    /\ UNCHANGED <<uiVars, puts, cloudVars, userVars, trap>>

(* A body without "Items", such as an error message of the gateway.         *)
FindTraps(f) ==
    /\ Running
    /\ f.answer = None
    /\ Trap("noItems")

SelectRow(i) ==
    /\ Running
    /\ screen = "results"
    /\ i \in DOMAIN drawn
    /\ row' = i
    /\ seen' = drawn[i]
    /\ UNCHANGED <<screen, selectedTrip, potentialTrips, drawn, matchedTrip, finds,
                   puts, cloudVars, userVars, trap>>

(* A row is selected, and the results have such a row.                      *)
SelectionExists ==
    row # 0 /\ potentialTrips # None /\ row \in DOMAIN potentialTrips

(* prepare(for:) of selectTripSegue, behind the "Next" bar button, which is *)
(* enabled whatever the table holds.  Before the first answer the optional  *)
(* chain ends at potentialTrips, and the segue goes on with no match.       *)
prepare ==
    /\ Running
    /\ screen = "results"
    /\ potentialTrips = None \/ SelectionExists
    /\ matchedTrip' = IF potentialTrips = None THEN None ELSE potentialTrips[row]
    /\ screen' = "accept"
    /\ UNCHANGED <<selectedTrip, potentialTrips, drawn, row, seen, finds, puts,
                   cloudVars, userVars, trap>>

(* With results, (indexPath?.row)! is evaluated, and then indexes them.     *)
prepareTraps ==
    /\ Running
    /\ screen = "results"
    /\ potentialTrips # None /\ ~SelectionExists
    /\ Trap(IF row = 0 THEN "nilRow" ELSE "badRow")

-----------------------------------------------------------------------------
(* AcceptMatchVC *)

RequestSentTwice ==   \* mutant: a press sends its request twice
    /\ Running
    /\ screen = "accept" /\ presses < MaxPresses
    /\ matchedTrip # None
    /\ presses' = presses + 1
    /\ puts' = [puts EXCEPT ![[mine |-> selectedTrip, other |-> matchedTrip]] = @ + 2]
    /\ asked' = [asked EXCEPT ![[mine |-> selectedTrip, other |-> seen]] = @ + 1]
    /\ UNCHANGED <<uiVars, finds, cloudVars, trap>>

(* One match request per press; the screen stays as it is.                  *)
requestButtonPressed ==
    /\ Running
    /\ screen = "accept" /\ presses < MaxPresses
    /\ matchedTrip # None
    /\ presses' = presses + 1
    /\ puts' = [puts EXCEPT ![[mine |-> selectedTrip, other |-> matchedTrip]] = @ + 1]
    /\ asked' = [asked EXCEPT ![[mine |-> selectedTrip, other |-> seen]] = @ + 1]
    /\ UNCHANGED <<uiVars, finds, cloudVars, trap>>

(* matchedTrip! is nil when "Next" was pressed before the first answer.     *)
requestButtonTraps ==
    /\ Running
    /\ screen = "accept"
    /\ matchedTrip = None
    /\ Trap("nilMatch")

(* Back pops one screen; the finds of a popped ResultsMapVC go on.          *)
Back ==
    /\ Running
    /\ \/ screen = "accept" /\ screen' = "results" /\ UNCHANGED finds
       \/ /\ screen = "results" /\ screen' = "list"
          /\ finds' = {[f EXCEPT !.shown = FALSE] : f \in finds}
    /\ matchedTrip' = None
    /\ UNCHANGED <<selectedTrip, potentialTrips, drawn, row, seen, puts, cloudVars,
                   userVars, trap>>

(* The process starts again; the cloud and what travels to it stay.         *)
Relaunch ==
    /\ ~Running
    /\ screen' = "list"
    /\ selectedTrip' = None
    /\ potentialTrips' = None
    /\ drawn' = <<>>
    /\ row' = 0
    /\ seen' = None
    /\ matchedTrip' = None
    /\ finds' = {}
    /\ trap' = "none"
    /\ UNCHANGED <<puts, cloudVars, userVars>>

-----------------------------------------------------------------------------
(* The cloud (external) *)

OffersChange ==
    /\ offered' \in Answers
    /\ offered' # offered
    /\ UNCHANGED <<uiVars, finds, puts, matches, userVars, trap>>

CloudAnswers(f) ==
    /\ f.answer = None
    /\ finds' = (finds \ {f}) \union {[f EXCEPT !.answer = offered]}
    /\ UNCHANGED <<uiVars, puts, cloudVars, userVars, trap>>

CloudMatches(p) ==
    /\ puts[p] > 0
    /\ puts' = [puts EXCEPT ![p] = @ - 1]
    /\ matches' = [matches EXCEPT ![p] = @ + 1]
    /\ UNCHANGED <<uiVars, finds, offered, userVars, trap>>

PutLostAgain(p) ==   \* mutant: a request ends twice
    /\ puts' = [puts EXCEPT ![p] = @ - 1]
    /\ UNCHANGED <<uiVars, finds, cloudVars, userVars, trap>>

(* The request never arrives; its handler prints the error and returns.     *)
PutLost(p) ==
    /\ puts[p] > 0
    /\ puts' = [puts EXCEPT ![p] = @ - 1]
    /\ UNCHANGED <<uiVars, finds, cloudVars, userVars, trap>>

Next ==
    \/ \E mine \in Mine : Open(mine)
    \/ refresh \/ prepare \/ prepareTraps \/ Back
    \/ requestButtonPressed \/ requestButtonTraps
    \/ \E i \in 1..Cardinality(Offers) : SelectRow(i)
    \/ \E f \in finds :
         Results(f) \/ FindUnseen(f) \/ FindTraps(f) \/ CloudAnswers(f)
    \/ \E p \in Pair : CloudMatches(p) \/ PutLost(p)
    \/ OffersChange \/ Relaunch

Spec == Init /\ [][Next]_vars

-----------------------------------------------------------------------------
(* Properties *)

(* The offer the second screen asks for is the one its row showed when the  *)
(* user tapped it, although a refresh may replace the results between the   *)
(* tap and the segue, and afterwards; it is nil only if no row was tapped.  *)
MatchIsRowSeen == screen = "accept" => matchedTrip = seen

(* A selected row always has a result behind it: results and rows change    *)
(* together and the selection is dropped with them.                         *)
SelectionInRange == trap # "badRow" /\ (row # 0 => SelectionExists)

(* Every match of the cloud and every request on its way is due to a press  *)
(* of its own, made while the rider's trip and the offer of the row tapped  *)
(* were the two of the pair: however often the button is pressed, whatever  *)
(* is refreshed meanwhile and however late a request arrives, the rider     *)
(* gets no match not asked for, and none more often than asked for.         *)
MatchesWereAsked == \A p \in Pair : matches[p] + puts[p] <= asked[p]

(* (indexPath?.row)! at ResultsMapVC.swift:129 asserts that a row is        *)
(* selected when "Next" is pressed.                                         *)
RowUnwrapHolds == trap # "nilRow"
=============================================================================
