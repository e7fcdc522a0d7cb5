------------------------- MODULE LocationPermission -------------------------
(***************************************************************************)
(* How a trip screen gets a position: proposeToAccess of Proposer.swift,   *)
(* with its two global variables for the one location manager and delegate *)
(* that wait for the user, the block by which the delegate answers on the  *)
(* main queue, and the location manager that the screen starts when the    *)
(* answer is yes.                                                          *)
(*                                                                         *)
(* The system is outside: it keeps the permission, shows an alert, tells   *)
(* the delegate of a manager when it is made and when the permission       *)
(* changes, and reports positions.  The app proposes whenInUse only, the   *)
(* only use its Info.plist declares, so "always" never is the permission.  *)
(***************************************************************************)
EXTENDS Sequences, Naturals

CONSTANTS
    Screens,        \* instances of AddTripWithMapVC
    Positions,
    None,
    MaxBlocks       \* bound: blocks on the main queue

ASSUME ScreensAssumption == None \notin Screens
ASSUME PositionsAssumption == None \notin Positions
ASSUME MaxBlocksAssumption == MaxBlocks \in Nat \ {0}

VARIABLES
    status,             \* CLLocationManager.authorizationStatus()
    alert,              \* the system's alert: none, requested or shown
    pending,            \* the system has something to tell the manager's delegate
    delegate,           \* the screen whose proposal the two globals hold
    blocks,             \* main queue: what the delegate was told, and whose it is
    proposed,           \* the screens that have proposed
    replaced,           \* history: those whose delegate another one replaced
    answers,            \* the closures called, by screen
    updating,           \* the screens with a location manager of their own
    currentLocation

vars == <<status, alert, pending, delegate, blocks, proposed, replaced, answers,
          updating, currentLocation>>
screens == <<proposed, replaced, answers, updating, currentLocation>>

Statuses == {"notDetermined", "whenInUse", "denied", "restricted"}
Block == [screen : Screens, status : Statuses]

\* The types; and the system has something to tell only while a delegate is there.
TypeOK ==
    /\ status \in Statuses
    /\ alert \in {"none", "requested", "shown"}
    /\ pending \in BOOLEAN
    /\ delegate \in Screens \union {None}
    /\ pending => delegate # None
    /\ blocks \in Seq(Block)
    /\ proposed \in SUBSET Screens
    /\ replaced \in SUBSET Screens
    /\ answers \in [Screens -> SUBSET {"agreed", "rejected"}]
    /\ updating \in SUBSET Screens
    /\ currentLocation \in [Screens -> Positions \union {None}]

Init ==
    /\ status \in Statuses
    /\ alert = "none" /\ pending = FALSE /\ delegate = None /\ blocks = <<>>
    /\ proposed = {} /\ replaced = {} /\ updating = {}
    /\ answers = [s \in Screens |-> {}]
    /\ currentLocation = [s \in Screens |-> None]

\* The closures of requestLocationData: yes makes the screen's own location
\* manager and starts it, no only prints.
Agree(s) ==
    /\ answers' = [answers EXCEPT ![s] = @ \union {"agreed"}]
    /\ updating' = updating \union {s}
Reject(s) ==
    /\ answers' = [answers EXCEPT ![s] = @ \union {"rejected"}]
    /\ UNCHANGED updating

Propose(s) == s \notin proposed /\ proposed' = proposed \union {s}

\* viewDidLoad proposes; a permission that is known is answered at once.
proposeDetermined(s) ==
    /\ Propose(s)
    /\ status # "notDetermined"
    /\ IF status = "whenInUse" THEN Agree(s) ELSE Reject(s)
    /\ UNCHANGED <<status, alert, pending, delegate, blocks, replaced, currentLocation>>

\* Location services are off for the whole device.
proposeDisabled(s) ==
    /\ Propose(s)
    /\ status = "notDetermined"
    /\ Reject(s)
    /\ UNCHANGED <<status, alert, pending, delegate, blocks, replaced, currentLocation>>

proposeOverAnyStatus(s) ==   \* mutant: the permission is not looked at first
    /\ Propose(s)
    /\ alert # "shown"
    /\ replaced' = IF delegate = None THEN replaced ELSE replaced \union {delegate}
    /\ delegate' = s
    /\ pending' = TRUE
    /\ alert' = "requested"
    /\ UNCHANGED <<status, blocks, answers, updating, currentLocation>>

\* A manager and a delegate take the place of any earlier ones in the globals,
\* and the permission is asked for.  The alert, once shown, covers the screens.
proposeUndetermined(s) ==
    /\ Propose(s)
    /\ status = "notDetermined" /\ alert # "shown"
    /\ replaced' = IF delegate = None THEN replaced ELSE replaced \union {delegate}
    /\ delegate' = s
    /\ pending' = TRUE
    /\ alert' = "requested"
    /\ UNCHANGED <<status, blocks, answers, updating, currentLocation>>

ShowAlert ==
    /\ alert = "requested" /\ status = "notDetermined"
    /\ alert' = "shown"
    /\ UNCHANGED <<status, pending, delegate, blocks, screens>>

\* The alert goes away unanswered, as when the device is locked.
DismissAlert ==
    /\ alert = "shown"
    /\ alert' = "none"
    /\ UNCHANGED <<status, pending, delegate, blocks, screens>>

\* The user answers the alert, or changes the permission in the settings; a
\* restriction may be imposed on the device.
ChangeStatus(to) ==
    /\ to \in Statuses \ {status, "notDetermined"}
    /\ status' = to
    /\ alert' = "none"
    /\ pending' = (delegate # None)
    /\ UNCHANGED <<delegate, blocks, screens>>

\* The delegate is told the permission, and puts a block on the main queue.
didChangeAuthorization ==
    /\ pending /\ delegate # None
    /\ Len(blocks) < MaxBlocks
    /\ pending' = FALSE
    /\ blocks' = Append(blocks, [screen |-> delegate, status |-> status])
    /\ UNCHANGED <<status, alert, delegate, screens>>

ClearDelegateOnly == delegate' = None /\ UNCHANGED pending   \* mutant: the manager stays

\* The globals are cleared, whosever they are by now.
Clear == delegate' = None /\ pending' = FALSE

answerSilently ==   \* mutant: a refusal only clears the globals
    /\ blocks # <<>>
    /\ blocks' = Tail(blocks)
    /\ LET s == Head(blocks).screen IN
         CASE Head(blocks).status = "whenInUse" -> Agree(s) /\ Clear
           [] Head(blocks).status = "denied" -> Clear /\ UNCHANGED <<answers, updating>>
           [] OTHER -> UNCHANGED <<answers, updating, delegate, pending>>
    /\ UNCHANGED <<status, alert, proposed, replaced, currentLocation>>

answerIgnoresDenial ==   \* mutant: a refusal is left to the default case
    /\ blocks # <<>>
    /\ blocks' = Tail(blocks)
    /\ LET s == Head(blocks).screen IN
         CASE Head(blocks).status = "whenInUse" -> Agree(s) /\ Clear
           [] OTHER -> UNCHANGED <<answers, updating, delegate, pending>>
    /\ UNCHANGED <<status, alert, proposed, replaced, currentLocation>>

\* The block runs: an answer and the end of the delegate, or neither.
answer ==
    /\ blocks # <<>>
    /\ blocks' = Tail(blocks)
    /\ LET s == Head(blocks).screen IN
         CASE Head(blocks).status = "whenInUse" -> Agree(s) /\ Clear
           [] Head(blocks).status = "denied" -> Reject(s) /\ Clear
           [] OTHER -> UNCHANGED <<answers, updating, delegate, pending>>
    /\ UNCHANGED <<status, alert, proposed, replaced, currentLocation>>

\* The first position ends the updates.
didUpdateLocations(s, p) ==
    /\ s \in updating /\ status = "whenInUse"
    /\ currentLocation' = [currentLocation EXCEPT ![s] = p]
    /\ updating' = updating \ {s}
    /\ UNCHANGED <<status, alert, pending, delegate, blocks, proposed, replaced, answers>>

\* The permission outlives the process; a reset of the device's privacy settings
\* ends the process as well.
Relaunch ==
    /\ status' \in {status, "notDetermined"}
    /\ alert' = "none" /\ pending' = FALSE /\ delegate' = None /\ blocks' = <<>>
    /\ proposed' = {} /\ replaced' = {} /\ updating' = {}
    /\ answers' = [s \in Screens |-> {}]
    /\ currentLocation' = [s \in Screens |-> None]

Next ==
    \/ \E s \in Screens :
         \/ proposeDetermined(s) \/ proposeDisabled(s) \/ proposeUndetermined(s)
         \/ \E p \in Positions : didUpdateLocations(s, p)
    \/ ShowAlert \/ DismissAlert
    \/ \E to \in Statuses : ChangeStatus(to)
    \/ didChangeAuthorization \/ answer
    \/ Relaunch

Spec == Init /\ [][Next]_vars
-----------------------------------------------------------------------------
Settled == {"whenInUse", "denied"}

BlockDue(s) == \E i \in DOMAIN blocks : blocks[i].screen = s /\ blocks[i].status \in Settled

\* A block clears the globals without looking whose they are, yet it never
\* clears those of another screen that still waits.
NoForeignRelease == \A s \in Screens : BlockDue(s) => delegate \in {s, None}

\* A screen is left without an answer only when a later one has replaced its
\* delegate, or while the permission is undetermined or restricted.
UnansweredHasReason ==
    \A s \in proposed :
        answers[s] = {} =>
            \/ s \in replaced
            \/ delegate = s /\ (status \in {"notDetermined", "restricted"} \/ pending)
            \/ BlockDue(s)

\* The screen that waits is answered once the user has decided, unless another
\* one takes the delegate or the permission becomes restricted.
AnswerComes ==
    \A s \in Screens :
        delegate = s /\ status \in Settled
            ~> answers[s] # {} \/ delegate # s \/ status = "restricted"
=============================================================================
