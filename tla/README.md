# RideHitch in TLA+

RideHitch is an iPhone app (Swift 3) with which a rider plans a trip, puts it
into the cloud, looks for trips that fit it and asks for a match. This
directory holds TLA+ models of the app's own logic, TLC configurations that
check them on small instances, and TLAPS proofs of their main properties for
every instance. File names below are relative to `src/RideHitch/`.

    tlc -workers 2 -config RoutePlanning.cfg MCRoutePlanning     # a run
    tlapm RoutePlanning_proofs.tla                               # the proofs

## The system

The app has no threads of its own. Gestures, timers and most completion
handlers run one after the other on the main thread's run loop, and the
completion handlers of DynamoDB, Lambda and Cognito on threads of their SDKs,
which write Realm rows behind the main thread's back.
So an *action* of a model is one gesture or one handler, whole, and what
interleaves is gestures with handlers, and handlers with each other. A failing
force unwrap (`!`), a failing `as!` or an index out of range ends the process;
the models call this a *trap* and keep going from a new launch.

| Component | State it keeps | Operations | Talks to |
|---|---|---|---|
| Route planning: `AddTripWithMapVC`, `RouteCalculator` (a singleton), `GooglePlaceFetcher` | `currentLocation`, `currentResult`, the Next button, the route control; the singleton's `routes` and polygon | open, leave, return, choose a place, location fix, lookup and directions handlers, change route, segue | Google Places, MapKit, the "RouteCalculated" notification |
| Place search: the search bar and table of `AddTripWithMapVC`, favourites in `RealmInteractor` | text, predictions, rows drawn; `FavoritePlace` rows | begin editing, type, answers, tap, save | Google Places, Realm |
| Trip configuration and upload: `ConfigureTripVC`, `DynamoDBInteractor`, `RealmInteractor` | the form; the save in flight; `RealmTrip` rows | fill in, request, save handler | DynamoDB, Realm |
| Trips list: `TripsViewController` | `data`, a snapshot of the rows | `reload`, segues | Realm |
| Matching: `ResultsMapVC`, `AcceptMatchVC`, `LambdaInteractor` | results, selection, the two trips | find, refresh, select, request | API Gateway `/items`, `/matches` |
| Login: `LoginViewController` | the Realm `User`, the password completion source | Facebook login, graph request, sign up, log in | Facebook, Cognito |
| Location permission: `Proposer` | two globals (manager, delegate) | propose, authorization change | CoreLocation |
| App boot: `AppDelegate`, `AWSMobileClient`, the API client | `isInitialized`, the registry of clients | launch, open URL | AWS SDK |
| Geohash | none | `encode`, `decode` | upload, route polygon |
| Local store: Realm's ObjectStore, under `Pods/Realm` | the file, its write lock, a Realm per thread with its snapshot, the named pipe, the run loop sources | open, read, write, commit, announce, wake up, close | every other part that keeps rows |

What is hard here, component by component (each item is a hazard of
`PROJECT.json`, at its line):

- *Route planning.* Three asynchronous sources (position, place, route) fill
  two objects, one shared by every screen, and the segue reads both. The
  notification carries no screen, so the answer to a screen that is gone reaches
  the one in view, and a covered screen misses its own. Correct: no trap; the
  uploaded polygon belongs to the uploaded destination, at least for a rider who
  waits; only the visible map changes; a route is offered in the end.
- *Upload.* The screen is popped before the save is answered; the network and
  the SDK lose and repeat; the process may die. Correct: the list holds only
  trips that the cloud took, once each; every request ends as a row or as a
  forgotten trip.
- *Place search.* Rows are drawn from one source and interpreted later from
  another; answers come out of order; a save is two transactions. Correct: a tap
  means the row it was made on; the table of favourites is bounded, loses
  only its oldest row and has the place just chosen.
- *Matching.* A refresh replaces the results between the tap and the segue, and
  requests go on after the rider did. Correct: a match is for the offer whose
  row was tapped, and there are no more of them than presses.
- *Login and boot.* `login()` runs from two places, the graph and the user pool
  answer late, fail or not at all, and one completion source serves every login.
  The trips can be opened without any login, by the Continue button. Correct:
  the device acts as one user; a login is only of a user that the pool knows; a
  login that nothing disturbs completes.
- *Permission and geohash.* One pair of globals holds the manager and the
  delegate of whichever screen proposed last, and is cleared by a block that
  was queued earlier. Correct: no screen loses them to another's answer, and a
  decision is answered. The key of a trip must name the cell of its origin also
  on the cells' edges.
- *Local store.* Commits of threads without a run loop have to reach the main
  thread's Realm through a pipe that may be full, a listener that may not have
  started and sources that coalesce. Correct: no commit is made on an old
  snapshot; no wake-up is lost; every thread sees prefixes of one history.

## The modules

| Module | Lines of the code | Run |
|---|---|---|
| `RoutePlanning` | `AddTripWithMapVC` (map half), `RouteCalculator` | `RoutePlanning.cfg`, `RouteLocationUnwrap.cfg`, `RouteDestinationUnwrap.cfg` |
| `TripUpload`, which implements `TripLedger` | `ConfigureTripVC`, `DynamoDBInteractor.uploadTrip`, `RealmInteractor.saveAWSTrip`, `TripsViewController` | `TripUpload.cfg`, `TripTimesUnwrap.cfg` |
| `FavoritePlaces`, extended by `PlaceSearch` | `RealmInteractor.saveFavoritePlace`; `AddTripWithMapVC` (search half), `GooglePlaceFetcher` | `PlaceSearch.cfg`, `PredictionUnwrap.cfg` |
| `Matching` | `ResultsMapVC`, `AcceptMatchVC`, `LambdaInteractor` | `Matching.cfg`, `RowUnwrap.cfg` |
| `Session`, which implements `DeviceOwner` | `LoginViewController`, `RealmInteractor` (users), `AmazonAws/AWSMobileClient`, `AppDelegate` | `Session.cfg` |
| `RealmStore`, which implements `SnapshotStore` | `shared_realm.cpp`, `realm_coordinator.cpp`, `external_commit_helper.cpp`, `weak_realm_notifier.cpp`, `group_shared.hpp`, `RLMRealm.mm` | `RealmStore.cfg` |
| `LocationPermission` and `Geohash`, composed by `TripOrigin` | `Proposer`, `AddTripWithMapVC` (location half), `Geohash`, `ConfigureTripVC` line 65 | `TripOrigin.cfg` |

`MC*` modules give the constants values; `*_proofs` modules hold the proofs. An
operator marked `\* mutant` in a model is a deliberately wrong variant of its
neighbour, used by nothing in the model: `PROJECT.json` says which property
catches it.

### RoutePlanning

A *screen* is one `AddTripWithMapVC` object; `status` says whether it is in
view, covered by the other tab or by `ConfigureTripVC`, popped ("gone", kept
alive by a lookup whose handler captures it) or free. `observers` is the
notification centre; `calc` is the singleton, whose polygon is always that of
the first of its routes, so a `Route` record (where from, where to, how many
alternatives) stands for both. `identified` is that the process has an identity,
which `Session` details: here it comes at any time after the launch, and
`prepare(for:)` forces it first of all (line 62). `routesReady` is the notification, delivered
synchronously inside `DirectionsFound`. `orderly` is a history variable: it is
true until a call fails or the user acts while a call is out, and
lets the properties speak about a user who waits.

- `SingletonUnwrapsHold`: the singleton's routes and polygon are never forced
  while nil (lines 76, 197, 202), for any user.
- `OrderlyUse`: for a waiting user the trip's polygon is of the route from the
  trip's origin to its destination, no trap occurs but the location's and,
  without an identity, the identity's, and the visible route control has one
  segment for each route. For others it says nothing.
- `OffscreenMapFrozen`: no step changes the drawn route or the Next button of a
  covered or popped screen.
- `RouteOffered`: a waiting user's lookup leads to Next.
- `LocationUnwrapHolds`, `DestinationUnwrapHolds`: what lines 179 and 69-71
  assert by their `!`; both are refuted, see Findings.

Without `orderly` the agreement of polygon and destination does not hold: a
second place chosen, then Next pressed between its lookup's answer and its
directions' answer, uploads the old polygon with the new destination. The
source makes no statement to the contrary, so this is documented here and not
claimed as a finding.

Assumed of the SDKs: each completion handler runs once; MapKit answers with an
error or at least one route (`calculatePolygonForRoute` indexes `routes?[0]`);
a dropped location manager reports nothing more. How a permission is obtained is
the subject of `LocationPermission`; here a fix may simply never come.

### TripLedger and TripUpload

`TripLedger` is the promise: the cloud accepts trips, and a trip is recorded
in the phone's list only after that and once. `TripUpload` has the form, the
save's request and answer on the wire, DynamoDB as a table by key, retries, and
the death of the process; `Ledger == INSTANCE TripLedger WITH accepted <-
stored, recorded <- realm` is the refinement and `ImplementsLedger` the claim.
`call` is the phone's end of a save ("waiting" until its handler has run or the
process has died), `wire` and `answer` what is travelling, `forgotten` the trips
whose handler got an error or died, whether or not the cloud has them.

- `OneFate`: an ended save is a row or forgotten, never both, never neither.
- `ListedIsInCloud`: behind every row is an item stored under its key, though
  maybe another trip's if the random IDs of line `AddTripWithMapVC.swift:72`
  collide.
A reload reads the main thread's snapshot, which may be behind the rows that
the handlers wrote on theirs (`RealmStore` says why): it takes any prefix of the
rows that is not shorter than the list on screen.

- `ListIsOlderRealm`: the snapshot on screen is a prefix of the rows, so a
  section number still denotes its trip.
- `RequestSettles`: a request ends as a row or as forgotten.
- `TimesUnwrapHolds`: lines 59-60; refuted.

### FavoritePlaces and PlaceSearch

`FavoritePlaces` is the table of favourites, newest first. A save deletes the
oldest row in a first transaction if there are more than `Threshold`, and adds
the new one in a second; the process may die in between (`saveCutShort`). The
wall clock may be set back, so the new row may land anywhere. `PlaceSearch`
extends it with the search bar and the table: `drawn` is what `reloadData` last
drew, `drawnFrom` the source it was drawn from. A table of at most six rows
fits the screen, so UIKit's asking for rows again on scrolling is left out.

- `RowMeansWhatItShows`, `TrapNeedsStaleRows`: a tap takes the place that is
  shown, and cannot trap, unless the bar went from empty to not empty, or back,
  after the rows were drawn.
- `HistoryBounded`: at most `Threshold + 1` rows. `OnlyOldestGoes`: a save,
  whole or cut short, loses at most the oldest row and keeps the others' order.
- `ChoiceIsRemembered`: the place just chosen is among the favourites. A clock
  that was set back makes the new row the oldest; the save deletes before it
  adds, so it never deletes that one.
- `PredictionUnwrapHolds`: line 129; refuted.

### Matching

Finds are in flight with or without the cloud's answer, `shown` while their
`ResultsMapVC` is not popped; match requests (`puts`) outlive the screens and
the process. `seen` and `asked` are history: the offer of the row last tapped,
and how often the request button was pressed for a pair. A repeated press is a
new request, so requests, matches and presses are counted by pair; what
the service does with a repetition is outside this repository.

The row that `prepare(for:)` forces is the subscript of an optional chain. With
results it traps when no row is selected (`prepareTraps`). While the results are
nil it is not evaluated: `AcceptMatchVC` opens with no match, and its request
button forces the match instead (`requestButtonTraps`), also when results have
come under it meanwhile.

- `MatchIsRowSeen`, `SelectionInRange`: results, rows and selection change
  together, so the segue hands over the offer tapped, or none if none was tapped,
  or traps for want of a row.
- `MatchesWereAsked`: of each pair there are never more matches made and requests
  under way than presses that showed this trip and this offer.
- `RowUnwrapHolds`: line 129; refuted.

### DeviceOwner and Session

`DeviceOwner` is the promise: the first account whose details are saved owns the
device for good, a process acts as nobody, a guest or the owner, and it changes
only by resuming the login that is kept or by logging in. `Device == INSTANCE
DeviceOwner WITH owner <- IF users = <<>> THEN None ELSE users[1], kept <-
cached` is the refinement.

`Session` is one device, from installation, through any number of launches. What outlives a
process is the Facebook token, the rows of `User`, what the pool knows and the
login that the SDK keeps; the rest starts again. `login()` is started by
`viewDidLoad` and by the Facebook button, so graph requests and sign-ups are
counted by account. A login of the identity manager is a *flow*: asked, given
the first row's details, answered, and open or failed; `stored` and `fresh` are
the one completion source that all of them share.

- `SessionIsFirstUser`: sign-ups, logins and sessions are those of the first row
  ever saved, whoever is logged in to Facebook by now.
- `OneUserWithoutOverlap`: a second row needs two graph requests in flight together.
- `LoginNeedsPoolUser`: whoever the app acts as, keeps or gives to the SDK is
  known to the user pool. The trips themselves need no login: the login screen
  has a Continue button with the same segue (`continueSegue`), and no way back.
- `TrapsNeedTheirCause`: a completion source is answered twice only by two
  logins; the identity is missing only while no login has opened.
- `ImplementsDevice`: the refinement. Unlike `SessionIsFirstUser` it speaks of
  steps: two graph answers that race may add a row but never change the first one,
  and an identity is replaced only by what is kept or by a completed login.
- `LoneLoginSettles`: a single login, asked for the details before it is told
  that the flow starts, is given its details and completes its step on the trips. In the SDK's other order the source
  is not there yet and the login stays unanswered; the model has both orders.

### SnapshotStore and RealmStore

`SnapshotStore` is the promise: one history of commits, a snapshot for each
thread that only moves forward, one writer at a time which starts from the whole
history. `RealmStore` is the ObjectStore as this app drives it: `file` lists the
authors of the commits, `version` is the snapshot of each thread's Realm, `call`
is where a thread stands inside `begin_transaction` or `commit_write`, and
`helper`, `bytes`, `event`, `signalled` are the listener thread, the pipe,
kqueue and the run loop sources. The process may crash at any point.

- `WriterIsCurrent`: a writer has the latest snapshot for as long as it writes.
- `WakeUpOnTheWay`: a run loop Realm that is behind is signalled, or an
  announcement is being made, is unread in the pipe or is in the listener's hands.
- `RunLoopsCatchUp`: the main thread comes to see every commit.
- `StoreIsSnapshots`: the refinement.

The app registers no notification blocks, so what they add is left out, and so
are schemas, migrations, encryption and the format of the file.

### LocationPermission, Geohash and TripOrigin

`LocationPermission` has the system's permission and alert as external actions,
the two globals as `delegate` (the screen that set them; `pending` is that the
system has something to tell it), the blocks on the main queue, and the closures
called by screen. `replaced` is history: the screens that lost the globals to a
later proposal. `Geohash` has `encode` and `decode`; each `reduce` of the code is
the recursive function of its accumulators (`halvings`, `joined`, `narrowings`),
so that its steps can be proved about. The reference `Strip` divides where they halve. `TripOrigin` composes them: the position a screen has when
Next is pressed is a trip's origin, and the request button gives it its key.

- `NoForeignRelease`: a block that clears the globals without looking finds its
  own or none. This rests on a permission that, once decided, is never
  undetermined again in the life of a process.
- `UnansweredHasReason`: a screen without an answer was replaced, or the user
  has not decided, or the permission is restricted (line 182: neither closure is
  called), or its answer is on the way.
- `AnswerComes`: a decision that is not a restriction is answered, unless
  another screen takes the globals.
- `KeyIsOriginsCell`: the key of a trip decodes to the strip of the longitude
  and of the latitude that hold its origin, computed by division instead of by
  halving; `SameKeySameCell`: two trips have one key exactly if they start in
  one cell.

## Bounds, fairness and what the runs show

| Run | Instance | Distinct states |
|---|---|---|
| `route_planning` | 2 screens, 2 places, 1 position, 2 calls in flight, up to 2 alternatives | 738,436 |
| `trip_upload` | 3 trips, two with one key, 1 retry for each | 243,921 |
| `place_search` | 2 texts (2 and 1 predictions), 2 places, 2 queries in flight, `Threshold` 2 | 34,077 |
| `matching` | 2 trips, 2 offers, 2 finds in flight, 2 presses of the request button, symmetric | 1,547,889 |
| `session` | 2 Facebook accounts, 2 runs of `login()` in a process | 140,044 |
| `realm_store` | the main thread and 2 SDK threads, 2 commits, a pipe of 1 byte | 79,060 |
| `trip_origin` | 2 screens, 5 positions, 3 blocks on the main queue, keys of 4 characters | 75,756 |

- Two screens are the one in view and one left behind; no handler relates three.
  Two calls give every order of a place lookup and a directions answer, of two
  directions answers and of two lookups. `Calls`, here and in the other modules,
  bounds what is in flight at a time, never how many calls are made. Match
  requests are counted, and `MaxPresses` bounds how often the button is pressed:
  2 gives a repetition, and two offers asked for one after the other.
  With one position two screens agree on the origin, which
  `OrderlyUse` compares; the proof covers any number of positions.
- Two trips with one key give the overwriting, a third gives an order of rows
  that differs from the order of requests. One retry is enough for a duplicate
  store; the proof is for any `MaxRetries`.
- `Threshold` is 5 in the code; 2 gives the same boundary (`>` against `>=`) with
  tables of 0 to 3 rows. The proof is for any positive value.
- Two runs of `login()` are what it takes to overlap; each launch may make them
  anew. Two accounts are the first user and another one.
- A pipe of one byte is full after one announcement, so making room, a second
  announcer meanwhile and a listener that starts late all happen; the proof is
  for any sizes and any number of commits.
- Two screens are the one that waits and the one that replaces it. Three blocks
  let the permission change twice before the first is run. Coordinates are
  integers between -1024 and 1024, for which the 10 halvings on each axis of a
  key of 4 characters are exact (`ExactAssumption` says so for any `Side` and
  `KeyLength`; the program's doubles halve 90.0 and 180.0 ten times without rounding); the positions are the mean of the first halving,
  its neighbours on one axis and on both, and the two extreme corners. The
  rounding of doubles beyond the code's precision is not modelled.
- In the matching run the sets are symmetric: no definition tells their elements apart.

TLC explores all of the states of every passing run, with deadlock checked:
these systems never stop, as the user can always do something or start again.

Fairness is assumed only where an SDK promises to call a handler in the end:
`WF_vars(Answer(id))` for each call of route planning and `WF_vars(Handler(t))`
for each save; the answers of the graph and of the user pool and the SDK's
callbacks for a login (`Session`); the listener thread, a thread inside an
announcement and the run loop's turns (`RealmStore`); the delivery of a
delegate's callbacks and of the main queue's blocks (`TripOrigin`). Nothing is assumed of the user, the location service, the network
or the cloud, so `RequestSettles` counts a handler that reports a failure, and
`RouteOffered` excuses a user who stops waiting and a call that fails. Matching
and place search promise nothing that must eventually happen: an error is
printed and nobody is told, so they have no liveness property and no fairness.

## Findings

Each of these is a force unwrap, the code's own assertion, that a run refutes.

- `AddTripWithMapVC.swift:179`: a place can be routed before the position is known.
- `AddTripWithMapVC.swift:69`: Next can be enabled while the screen has no place,
  after a failed second lookup, or on a new screen by a former one's late route.
- `ConfigureTripVC.swift:59`: the request button does not wait for the times.
- `AddTripWithMapVC.swift:129`: a favourite still on screen can be tapped after
  the first letter was typed and before the predictions came.
- `ResultsMapVC.swift:129`: once results have come, Next is enabled without a
  selection.

## Proofs

All proofs are for every value of the constants under the named assumptions of
the modules (finite `Offers`, positive `MaxAlts` and `Threshold`, a natural `MaxRetries` and `MaxPresses`, `KeyOf` a
function from trips to keys, `None` outside the sets it is added to).

- `RoutePlanning_proofs`. `IInv` is the type invariant with three parts.
  `Registered`: the observers are exactly the screens in view, and one screen at
  most is on the navigation stack; it is what `OffscreenMapFrozen` needs, since
  the notification reaches `observers` and not `status`. `RouteBehindNext`: an
  enabled Next or a visible control implies that the singleton holds a route;
  this holds across screens because `viewDidLoad` disables Next. `OrderlyAgrees`: for a
  waiting user there is one call at most, it was made for the screen in view,
  and with none in flight an enabled Next implies that the singleton's route is
  from this screen's location to this screen's place. The properties talk only
  of `trip` and `trap`, so none is inductive without these. Theorems
  `TypeCorrect`, `SingletonIsReady`, `OrderlyUseIsSafe`, `OffscreenIsFrozen`.
- `TripUpload_proofs`. `CloudKnows` (an answer travels only for a stored trip;
  the item under a stored trip's key is a stored trip with that key),
  `RowsAreStored` (rows are stored and distinct) and `FormIsNew` (the trip in the
  form was never requested) strengthen `OneFate` and `ListIsOlderRealm`. Theorems
  `TypeCorrect`, `SavesHaveOneFate`, `RowsAreInCloud`, `ListFollowsRealm`, and
  `Implements`: every step is `Accept`, `Record` or a stutter of the ledger.
- `PlaceSearch_proofs`. First the favourites: lemmas on what the two transactions
  do to a sequence, then `FavoritesAreBounded` and `SaveLosesOldest`. For the
  search, `Fresh`: while the table is visible its rows are what
  their source still gives, which needs that a save hides the table.
  `TapMeansItsRow`, `TrapsNeedStaleRows`. The lemma `SearchSavesFavorites`
  lends the search what holds of the table: `SearchKeepsBound`, and the invariant
  that `TypeCorrect` needs. `ChoicesAreRemembered` rests on where `Inserted` puts
  the new row (`InsertedProperties`), which is after the trimming.
- `Matching_proofs`. `TableAgrees` (rows are the results; a selected row is the
  row seen; without results none was; the offer handed over is the offer seen)
  and the counts by pair, which a step changes by one (`OneMore`).
  `MatchIsWhatWasSeen`, `SelectionIsInRange`, `MatchesAreAsked`; `TypeCorrect`,
  with the trip and the offer that the second screens are about as its
  strengthening, for a finite set of offers.
- `Session_proofs`. `IInv` joins the properties with what makes them inductive:
  `OneRequest` (without an overlap there is one graph request at most, and none
  once a row exists), `FlowsNeedPoolUser` and `AnsweredWithDetails`
  (a login is begun only for a user whom the pool knows, and goes on only with
  the first row's details), `Sources` (what the completion source belongs to) and
  `OpenHasIdentity`. `TypeCorrect`, `OneUserActs`, `SecondUserNeedsOverlap`,
  `LoginsAreEarned`, by `LoginStep` from `IInv`, `TrapsAreCaused`; `Implements`: every step gives the device
  its owner, restarts, resumes, logs in or is a stutter of `DeviceOwner`; and from
  it `OwnerIsForGood`: what `fetchUser` returns never changes once it is a user.
- `RealmStore_proofs`. `Instances` (no snapshot beyond the file), `LockIsQuiet`
  (the writer is in no call) and `Listener` (it is off exactly when no Realm
  lives, and signals live ones only) support `WriterIsCurrent` and
  `WakeUpOnTheWay`. `TypeCorrect`, `WritersAreCurrent`, `NoWakeUpIsLost`, and
  `Implements`: every step is one of the abstract store or a stutter; and from it
  `NoCommitIsDropped`: each step leaves the file or adds the writer's commit after
  all that were there, and a Realm never goes back to an older snapshot unless it
  has let go of its own. (A commit is modelled on the snapshot its Realm is bound to, so
  this is not so by construction.)
- `Geohash_proofs`. What the recursive functions compute, for any position, any
  grid and any length of code. The library's induction theorems take an operator,
  which the installed provers cannot instantiate; induction is had instead from a
  least counterexample (`LeastNat`, from the well-foundedness of `<` on the
  naturals), stated for sets (`UpTo`), and with it the existence and uniqueness of
  what a reduction computes (`Iterates`, `IteratesOneWay`), from which
  `HalvingsDef`, `JoinedDef`, `NarrowingsDef` and `Pow2Def` follow.
  `DecodeUndoesEncode`: decode's ranges are those with which encode's halvings of
  either axis ended. `CodeIsCell`: these are the strips that the division finds,
  by the invariant that the range after i halvings is a strip of the i-th level
  that holds the value (`HalvingsAreStrips`). `CellHasOneCode`: the converse, since
  equal ranges had equal halves on the way (`SameStripSameBits`).
  `CellHoldsPosition`: a position is in its cell, and on an upper edge only at the
  end of an axis. `ShorterCodeIsPrefix`: a trip's key of 4 characters and a
  polygon's code of 10 of one position agree as far as the key goes. The middle
  three assume that 2 * `Side` is divisible by the power of two of the
  halvings made; the first and the last assume nothing of the grid.
- `TripOrigin_proofs`. `DecidedForGood`: a queued answer implies that the user
  has decided, so no proposal can take the globals before it has run. The
  composition implements its permission part (`OriginImplementsPermission`), so
  `TypeCorrect`, `ReleaseIsOwn` and `SilenceIsExplained` are about the whole.
  `KeysAreOrigins` is the invariant of the trips: a trip has the key of its own
  origin or none yet. With the theorems on codes it gives `KeysAreCells`,
  `KeysMeetInCells`, and `OneKeyIsOnePlace`: the origins of all trips of one key lie
  in the cell which that key decodes to, so a query by key cannot return a trip
  that starts farther away than the cell is wide.

Only model-checked: the liveness properties `RouteOffered`, `RequestSettles`,
`LoneLoginSettles`, `RunLoopsCatchUp` and `AnswerComes` (liveness under fairness
and ENABLED are out of the prover's reach), and of course the refuted assertions.
Every invariant and every action property and refinement that a passing run checks
is a theorem.

## Not modelled

Cells, annotations, colours, the map's drawing and the records of stored
attributes have no behaviour of their own. The generated request and response
schemas are read by no code path of the app.
`RouteCalculator.calculateDirectionsForTrip`, `DynamoDBInteractor.query` and `AddTripWithMapVC.addCoordsToMap` have no caller.
Pods (but for the part of Realm above), `Sdk` and the frameworks are third-party;
they appear as the external actions of the models. Scrolling, text layout and animations are left out.

The modules are composed where state is shared: `TripOrigin` with its two parts,
`PlaceSearch` with `FavoritePlaces`. A product of login, planning and upload
along the storyboard's segues has no state of its own beside the trip handed
over, and too many states for TLC. The registry of API clients
(`AWSAPI_W7L04QUFUB_HitchAPIMobileHubClient`) is written once at the launch.
Proposals for photos, camera and microphone are never made. Of Realm only the
part that the threads of the app meet is modelled; the rest of `Pods`, which is
most of the lines in the repository, is a database engine, Swift bindings and
SDK headers that this project takes as given.
