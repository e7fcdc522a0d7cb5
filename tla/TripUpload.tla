----------------------------- MODULE TripUpload -----------------------------
(***************************************************************************)
(* From a configured trip to a row of the list of trips: ConfigureTripVC   *)
(* fills in the times and asks DynamoDBInteractor to save the trip; the    *)
(* SDK calls back on a thread of its own, long after the screen is gone,   *)
(* and only a success is copied into Realm; TripsViewController shows the  *)
(* snapshot it last fetched.                                               *)
(*                                                                         *)
(* The network may lose or delay a request or its answer, the SDK retries  *)
(* and gives up, and the process may die at any moment.  DynamoDB and the  *)
(* Realm file survive; DynamoDB replaces the item that has the same key,   *)
(* the pair of a four letter geohash and a random trip ID.                 *)
(***************************************************************************)
EXTENDS Naturals, Sequences

CONSTANTS
    Trips,        \* the Trips objects this user makes
    Keys,         \* (geohash, tripID) pairs
    KeyOf,        \* the key each trip is saved under
    MaxRetries,   \* bound on what the SDK sends again for one save
    None          \* nil

ASSUME KeyOfAssumption == KeyOf \in [Trips -> Keys]
ASSUME MaxRetriesAssumption == MaxRetries \in Nat
ASSUME NoneAssumption == None \notin Trips

VARIABLES
    process,      \* "running", or how it died
    configuring,  \* the trip of the ConfigureTripVC in view, or None
    focus,        \* the text field that is first responder
    filled,       \* the text fields that are not empty
    call,         \* the phone's end of each trip's save
    wire,         \* trips of which a save request is travelling
    answer,       \* trips of which a success answer is travelling
    retries,      \* requests sent again, per trip
    cloud,        \* the DynamoDB table: an item per key
    stored,       \* history: trips DynamoDB has stored at some time
    realm,        \* the RealmTrip rows, oldest first
    data,         \* TripsViewController.data
    forgotten     \* history: trips whose handler got an error, or died

formVars == <<configuring, focus, filled>>
netVars == <<wire, answer, retries, cloud, stored>>
vars == <<process, formVars, call, netVars, realm, data, forgotten>>

Fields == {"departure", "arrival"}

TypeOK ==
    /\ process \in {"running", "killed", "trapped"}
    /\ configuring \in Trips \union {None}
    /\ focus \in Fields \union {None}
    /\ filled \subseteq Fields
    /\ call \in [Trips -> {"idle", "waiting", "ended"}]
    /\ wire \subseteq Trips
    /\ answer \subseteq Trips
    /\ retries \in [Trips -> 0..MaxRetries]
    /\ cloud \in [Keys -> Trips \union {None}]
    /\ stored \subseteq Trips
    /\ realm \in Seq(Trips)
    /\ data \in Seq(Trips)
    /\ forgotten \subseteq Trips

Rows(table) == {table[i] : i \in DOMAIN table}
Running == process = "running"

Init ==
    /\ process = "running"
    /\ configuring = None
    /\ focus = None
    /\ filled = {}
    /\ call = [t \in Trips |-> "idle"]
    /\ wire = {}
    /\ answer = {}
    /\ retries = [t \in Trips |-> 0]
    /\ cloud = [k \in Keys |-> None]
    /\ stored = {}
    /\ realm = <<>>
    /\ data = <<>>
    /\ forgotten = {}

-----------------------------------------------------------------------------
(* ConfigureTripVC *)

(* The screen appears with the trip that prepare(for:) has built.           *)
Configure(t) ==
    /\ Running
    /\ configuring = None
    /\ call[t] = "idle"
    /\ configuring' = t
    /\ focus' = None
    /\ filled' = {}
    /\ UNCHANGED <<process, call, netVars, realm, data, forgotten>>

(* Back to the map: the trip is dropped, Next will build another.           *)
Abandon ==
    /\ Running
    /\ configuring # None
    /\ configuring' = None
    /\ UNCHANGED <<process, focus, filled, call, netVars, realm, data, forgotten>>

TapField(f) ==
    /\ Running
    /\ configuring # None
    /\ focus' = f
    /\ UNCHANGED <<process, configuring, filled, call, netVars, realm, data,
                   forgotten>>

(* The one date picker of both fields writes into the first responder.      *)
updateTextField ==
    /\ Running
    /\ configuring # None
    /\ focus # None
    /\ filled' = filled \union {focus}
    /\ UNCHANGED <<process, configuring, focus, call, netVars, realm, data,
                   forgotten>>

doneButtonPressed ==
    /\ Running
    /\ configuring # None
    /\ focus # None
    /\ filled' = filled \union {focus}
    /\ focus' = IF focus = "departure" THEN "arrival" ELSE None
    /\ UNCHANGED <<process, configuring, call, netVars, realm, data, forgotten>>

requestButtonSavesFirst ==   \* mutant: the row is written before the answer
    /\ Running
    /\ configuring # None
    /\ filled = Fields
    /\ call' = [call EXCEPT ![configuring] = "waiting"]
    /\ wire' = wire \union {configuring}
    /\ realm' = Append(realm, configuring)
    /\ configuring' = None
    /\ UNCHANGED <<process, focus, filled, answer, retries, cloud, stored, data,
                   forgotten>>

(* Both times parse: the save is sent and the screen popped to the list,    *)
(* without waiting.                                                         *)
requestButtonPressed ==
    /\ Running
    /\ configuring # None
    /\ filled = Fields
    /\ call' = [call EXCEPT ![configuring] = "waiting"]
    /\ wire' = wire \union {configuring}
    /\ configuring' = None
    /\ UNCHANGED <<process, focus, filled, answer, retries, cloud, stored, realm,
                   data, forgotten>>

(* Every save the process was waiting for is forgotten with it.             *)
Die(how) ==
    /\ process' = how
    /\ configuring' = None
    /\ call' = [t \in Trips |-> IF call[t] = "waiting" THEN "ended" ELSE call[t]]
    /\ forgotten' = forgotten \union {t \in Trips : call[t] = "waiting"}
    /\ UNCHANGED <<focus, filled, netVars, realm, data>>

(* An empty field: date(from: "") is nil and is unwrapped.                  *)
requestButtonTraps ==
    /\ Running
    /\ configuring # None
    /\ filled # Fields
    /\ Die("trapped")

-----------------------------------------------------------------------------
(* DynamoDB, the network and the SDK *)

CloudStores(t) ==
    /\ t \in wire
    /\ wire' = wire \ {t}
    /\ cloud' = [cloud EXCEPT ![KeyOf[t]] = t]
    /\ stored' = stored \union {t}
    /\ answer' = answer \union {t}
    /\ UNCHANGED <<process, formVars, call, retries, realm, data, forgotten>>

RequestLost(t) ==
    /\ t \in wire
    /\ wire' = wire \ {t}
    /\ UNCHANGED <<process, formVars, call, answer, retries, cloud, stored,
                   realm, data, forgotten>>

AnswerLost(t) ==
    /\ t \in answer
    /\ answer' = answer \ {t}
    /\ UNCHANGED <<process, formVars, call, wire, retries, cloud, stored,
                   realm, data, forgotten>>

Resend(t) ==
    /\ call[t] = "waiting"
    /\ retries[t] < MaxRetries
    /\ retries' = [retries EXCEPT ![t] = @ + 1]
    /\ wire' = wire \union {t}
    /\ UNCHANGED <<process, formVars, call, answer, cloud, stored, realm, data,
                   forgotten>>

-----------------------------------------------------------------------------
(* DynamoDBInteractor.uploadTrip's handler, RealmInteractor.saveAWSTrip *)

Saves(t, table) ==   \* what a handler that hears of a success leaves behind
    /\ call[t] = "waiting"
    /\ t \in answer
    /\ answer' = answer \ {t}
    /\ call' = [call EXCEPT ![t] = "ended"]
    /\ realm' = table
    /\ UNCHANGED <<process, formVars, wire, retries, cloud, stored, data, forgotten>>

SaveOfFormTrip(t) == Saves(t, Append(realm, configuring))  \* mutant: not the captured trip
SaveAtFront(t) == Saves(t, <<t>> \o realm)                 \* mutant: the newest row first
SaveNothing(t) == Saves(t, realm)                          \* mutant: no Realm write

(* The answer reaches the handler: the trip becomes a row.                  *)
SaveSucceeded(t) == Saves(t, Append(realm, t))

SaveFailedGoesOn(t) ==   \* mutant: no return after the error is printed
    /\ call[t] = "waiting"
    /\ call' = [call EXCEPT ![t] = "ended"]
    /\ realm' = Append(realm, t)
    /\ forgotten' = forgotten \union {t}
    /\ UNCHANGED <<process, formVars, netVars, data>>

(* The SDK gives up, whatever the network still carries: print and return.  *)
SaveFailed(t) ==
    /\ call[t] = "waiting"
    /\ call' = [call EXCEPT ![t] = "ended"]
    /\ forgotten' = forgotten \union {t}
    /\ UNCHANGED <<process, formVars, netVars, realm, data>>

-----------------------------------------------------------------------------
(* TripsViewController *)

(* fetchTrips reads the main thread's Realm, which may not have followed    *)
(* the rows that handlers wrote on their own threads (RealmStore), but      *)
(* never goes back behind what the list was read from.                      *)
reload ==
    /\ Running
    /\ \E n \in Len(data)..Len(realm) : data' = SubSeq(realm, 1, n)
    /\ UNCHANGED <<process, formVars, call, netVars, realm, forgotten>>

Kill ==
    /\ Running
    /\ Die("killed")

(* viewDidLoad reloads the list from the file.                              *)
Launch ==
    /\ ~Running
    /\ process' = "running"
    /\ data' = realm
    /\ UNCHANGED <<formVars, call, netVars, realm, forgotten>>

-----------------------------------------------------------------------------
Form ==
    \/ \E t \in Trips : Configure(t)
    \/ \E f \in Fields : TapField(f)
    \/ Abandon \/ updateTextField \/ doneButtonPressed
    \/ requestButtonPressed \/ requestButtonTraps

Network(t) == CloudStores(t) \/ RequestLost(t) \/ AnswerLost(t) \/ Resend(t)

Handler(t) == SaveSucceeded(t) \/ SaveFailed(t)

Next ==
    \/ Form
    \/ \E t \in Trips : Network(t) \/ Handler(t)
    \/ reload \/ Kill \/ Launch

(* The SDK calls the handler of every save in the end.                      *)
Fairness == \A t \in Trips : WF_vars(Handler(t))

Spec == Init /\ [][Next]_vars /\ Fairness

-----------------------------------------------------------------------------
(* Properties *)

(* The phone only lists trips the cloud has taken, each once and in the     *)
(* order they were recorded, through retries, lost answers and restarts.    *)
Ledger == INSTANCE TripLedger WITH accepted <- stored, recorded <- realm
ImplementsLedger == Ledger!Init /\ [][Ledger!Next]_Ledger!vars

(* A save that has ended left the trip in Realm or is known to be           *)
(* forgotten, never both and never neither.                                 *)
OneFate ==
    /\ Rows(realm) \intersect forgotten = {}
    /\ Rows(realm) \union forgotten = {t \in Trips : call[t] = "ended"}

(* The item behind a listed trip is never missing from the cloud, and it is *)
(* the trip itself unless another trip was saved under the same key.        *)
ListedIsInCloud ==
    \A t \in Rows(realm) :
      \E u \in stored : cloud[KeyOf[t]] = u /\ KeyOf[u] = KeyOf[t]

(* The list on screen is an older state of the Realm rows: a row selected   *)
(* in it is the trip that row still denotes.                                *)
ListIsOlderRealm ==
    /\ Len(data) <= Len(realm)
    /\ \A i \in 1..Len(data) : data[i] = realm[i]

(* A request the user made ends as a row or as a forgotten trip.            *)
RequestSettles ==
    \A t \in Trips :
      call[t] = "waiting" ~> (t \in Rows(realm) \/ t \in forgotten)

(* The unwraps of ConfigureTripVC.swift:59-60 assert that the button is     *)
(* only pressed with both times filled in.                                  *)
TimesUnwrapHolds == process # "trapped"
=============================================================================
