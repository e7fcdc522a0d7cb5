------------------------------ MODULE Session ------------------------------
(***************************************************************************)
(* Who the app acts as: the boot of AppDelegate and AWSMobileClient, and   *)
(* the login of LoginViewController, which goes from the Facebook token to *)
(* a row of the Realm table User, from the first row to a sign-up at the   *)
(* Cognito user pool, from its answer "User already exists" to a login     *)
(* through the identity manager, and from the completion of the login's    *)
(* step to the trips.  A Continue button leads to the trips as well, and   *)
(* asks for nothing of all this.                                           *)
(*                                                                         *)
(* Facebook's graph, the user pool and the SDK's login are outside: their  *)
(* answers come in any order, fail or are lost.                            *)
(***************************************************************************)
EXTENDS Sequences, Naturals

CONSTANTS
    Accounts,       \* Facebook accounts, each with its user name in the pool
    None,
    Guest,          \* the identity of a user who is not signed in
    MaxLogins       \* bound: runs of login() in one process

ASSUME IdentitiesAssumption == None \notin Accounts /\ Guest \notin Accounts
ASSUME MaxLoginsAssumption == MaxLogins \in Nat \ {0}

VARIABLES
    facebook,       \* the account of FBSDKAccessToken.current()
    users,          \* the rows of User in the Realm file
    pool,           \* the accounts the user pool knows
    cached,         \* the account whose login the SDK keeps
    ended,          \* why the process has ended, or "no"
    identity,       \* what identityId stands for
    screen,
    logins,         \* runs of login() in this process
    graph,          \* graph requests in flight, by account
    overlapped,     \* history: two of them were in flight together
    signUps,        \* sign-ups in flight, by account
    flow,           \* the logins begun by loginToAWS, in order
    as,             \* the account whose details each was given
    begun,          \* those of which handleUserPoolSignInFlowStart was called
    stored,         \* the login passwordAuthenticationCompletion belongs to
    fresh           \* that completion source has no result yet

disk == <<facebook, users, pool, cached>>
requests == <<graph, overlapped, signUps>>
flows == <<flow, as, begun, stored, fresh>>
app == <<identity, screen, logins>>
vars == <<disk, ended, app, requests, flows>>

Flows == 1..MaxLogins
FlowStates == {"none", "called", "asked", "answered", "stepped", "open", "failed"}
Causes == {"no", "killed", "noEmail", "noMessage", "noIdentity", "answeredTwice"}

TypeOK ==
    /\ facebook \in Accounts \union {None}
    /\ users \in Seq(Accounts)
    /\ pool \in SUBSET Accounts
    /\ cached \in Accounts \union {None}
    /\ ended \in Causes
    /\ identity \in Accounts \union {None, Guest}
    /\ screen \in {"launch", "login", "trips"}
    /\ logins \in 0..MaxLogins
    /\ graph \in [Accounts -> Nat]
    /\ overlapped \in BOOLEAN
    /\ signUps \in [Accounts -> Nat]
    /\ flow \in [Flows -> FlowStates]
    /\ as \in [Flows -> Accounts \union {None}]
    /\ begun \in SUBSET Flows
    /\ stored \in Flows \union {None}
    /\ fresh \in BOOLEAN

Alive == ended = "no"

NoRequests == [a \in Accounts |-> 0]
NoFlows ==
    /\ flow' = [f \in Flows |-> "none"] /\ as' = [f \in Flows |-> None]
    /\ begun' = {} /\ stored' = None /\ fresh' = FALSE

\* A device on which the app was never launched; the pool may know accounts.
Init ==
    /\ facebook = None /\ users = <<>> /\ pool \in SUBSET Accounts /\ cached = None
    /\ ended = "killed"
    /\ identity = None /\ screen = "launch" /\ logins = 0
    /\ graph = NoRequests /\ overlapped = FALSE /\ signUps = NoRequests
    /\ flow = [f \in Flows |-> "none"] /\ as = [f \in Flows |-> None]
    /\ begun = {} /\ stored = None /\ fresh = FALSE

\* A new process: the user pool is set up and the session is asked to resume.
didFinishLaunching ==
    /\ ~Alive
    /\ ended' = "no"
    /\ identity' = None /\ screen' = "launch" /\ logins' = 0
    /\ graph' = NoRequests /\ signUps' = NoRequests
    /\ NoFlows
    /\ UNCHANGED <<disk, overlapped>>

\* The SDK resumes the login it keeps or, when there is none, may get a guest's
\* identity.
resumeSession ==
    /\ Alive /\ identity = None
    /\ identity' = IF cached # None THEN cached ELSE Guest
    /\ UNCHANGED <<disk, ended, screen, logins, requests, flows>>

\* The process ends as it is; the next launch clears it.
EndBy(cause) == ended' = cause /\ UNCHANGED <<disk, app, requests, flows>>

Kill == Alive /\ EndBy("killed")

fetchUserLast == users[Len(users)]   \* mutant: the newest row

\* The first row of the table, whatever account the Facebook token is of.
fetchUser == users[1]

SignUp(a) == signUps' = [signUps EXCEPT ![a] = @ + 1]

fetchFacebookUserAgain(account) ==   \* mutant: the rows are not looked at
    /\ graph' = [graph EXCEPT ![account] = @ + 1]
    /\ overlapped' = (overlapped \/ graph # NoRequests)
    /\ UNCHANGED signUps

\* With a row in Realm, createAWSUser signs its user up; without one, the graph
\* is asked for the account of the token.
fetchFacebookUser(account) ==
    IF users # <<>>
      THEN SignUp(fetchUser) /\ UNCHANGED <<graph, overlapped>>
      ELSE /\ graph' = [graph EXCEPT ![account] = @ + 1]
           /\ overlapped' = (overlapped \/ graph # NoRequests)
           /\ UNCHANGED signUps

\* login() of the first screen, when a token is left from an earlier process.
viewDidLoad ==
    /\ Alive /\ screen = "launch"
    /\ screen' = "login"
    /\ IF facebook # None
         THEN logins' = logins + 1 /\ fetchFacebookUser(facebook)
         ELSE UNCHANGED <<logins, requests>>
    /\ UNCHANGED <<disk, ended, identity, flows>>

\* The button's login ends with a token, and its callback runs login().
didCompleteWith(account) ==
    /\ Alive /\ screen = "login"
    /\ facebook = None /\ logins < MaxLogins
    /\ facebook' = account
    /\ logins' = logins + 1
    /\ fetchFacebookUser(account)
    /\ UNCHANGED <<users, pool, cached, ended, identity, screen, flows>>

\* loginButtonDidLogOut does nothing: the rows and the session stay.
didLogOut ==
    /\ Alive /\ screen = "login"
    /\ facebook # None
    /\ facebook' = None
    /\ UNCHANGED <<users, pool, cached, ended, app, requests, flows>>

Asked(a) == Alive /\ graph[a] > 0

GraphAnsweredInFront(a) ==   \* mutant: the newest row is found first
    /\ Asked(a)
    /\ graph' = [graph EXCEPT ![a] = @ - 1]
    /\ users' = <<a>> \o users
    /\ SignUp(a)
    /\ UNCHANGED <<facebook, pool, cached, overlapped, ended, app, flows>>

\* The graph's result becomes a row, even when one exists by now, and
\* fetchFacebookUser runs again, which now finds the first row.
GraphAnswered(a) ==
    /\ Asked(a)
    /\ graph' = [graph EXCEPT ![a] = @ - 1]
    /\ users' = Append(users, a)
    /\ SignUp(Append(users, a)[1])
    /\ UNCHANGED <<facebook, pool, cached, overlapped, ended, app, flows>>

GraphFailed(a) ==
    /\ Asked(a)
    /\ graph' = [graph EXCEPT ![a] = @ - 1]
    /\ UNCHANGED <<disk, overlapped, signUps, ended, app, flows>>

\* An account without an e-mail address: resultsJSON["email"] is forced.
GraphAnswerTraps(a) == Asked(a) /\ EndBy("noEmail")

\* The pool takes the account; the answer comes later, or the SDK sends the
\* request again, or the process ends first.
PoolSignsUp(a) ==
    /\ signUps[a] > 0
    /\ pool' = pool \union {a}
    /\ UNCHANGED <<facebook, users, cached, ended, app, requests, flows>>

SignUpEndsAgain(a) ==   \* mutant: the continuation runs once more
    /\ Alive
    /\ signUps' = [signUps EXCEPT ![a] = @ - 1]
    /\ UNCHANGED <<disk, graph, overlapped, ended, app>>

SignUpEnds(a) ==
    /\ Alive /\ signUps[a] > 0
    /\ signUps' = [signUps EXCEPT ![a] = @ - 1]
    /\ UNCHANGED <<disk, graph, overlapped, ended, app>>

\* A new user: nothing more happens. An error with another message of the
\* server ends here too.
SignUpAnswered(a) == SignUpEnds(a) /\ UNCHANGED flows

loginAfterAnyError(a, f) ==   \* mutant: the message is not compared
    /\ SignUpEnds(a)
    /\ flow[f] = "none" /\ \A g \in 1..(f - 1) : flow[g] # "none"
    /\ flow' = [flow EXCEPT ![f] = "called"]
    /\ UNCHANGED <<as, begun, stored, fresh>>

\* "User already exists": loginToAWS calls loginWithSign.
loginToAWS(a, f) ==
    /\ SignUpEnds(a)
    /\ a \in pool
    /\ flow[f] = "none" /\ \A g \in 1..(f - 1) : flow[g] # "none"
    /\ flow' = [flow EXCEPT ![f] = "called"]
    /\ UNCHANGED <<as, begun, stored, fresh>>

\* Offline, the error has no message, and userInfo["message"] is forced.
SignUpAnswerTraps(a) == Alive /\ signUps[a] > 0 /\ EndBy("noMessage")

\* The SDK asks for the login's details and calls the start of the flow, in an
\* order its headers leave open. The screen keeps one completion source.
getDetails(f) ==
    /\ Alive /\ flow[f] = "called"
    /\ flow' = [flow EXCEPT ![f] = "asked"]
    /\ stored' = f /\ fresh' = TRUE
    /\ UNCHANGED <<as, begun, disk, ended, app, requests>>

StartOf(f) == Alive /\ flow[f] # "none" /\ f \notin begun

FlowStartForgets(f) ==   \* mutant: the source gets no result
    /\ StartOf(f)
    /\ begun' = begun \union {f}
    /\ UNCHANGED <<flow, as, fresh, stored, disk, ended, app, requests>>

handleUserPoolSignInFlowStart(f) ==
    /\ StartOf(f)
    /\ stored # None => fresh
    /\ begun' = begun \union {f}
    /\ IF stored # None
         THEN /\ flow' = [flow EXCEPT ![stored] = "answered"]
              /\ as' = [as EXCEPT ![stored] = fetchUser]
         ELSE UNCHANGED <<flow, as>>
    /\ fresh' = FALSE
    /\ UNCHANGED <<stored, disk, ended, app, requests>>

\* A completion source that already has its result raises an exception.
FlowStartTraps(f) ==
    /\ StartOf(f)
    /\ stored # None /\ ~fresh
    /\ EndBy("answeredTwice")

\* didCompleteStepWithError performs the segue, error or not.
didCompleteStep(f, next) ==
    /\ Alive /\ flow[f] = "answered"
    /\ flow' = [flow EXCEPT ![f] = next]
    /\ screen' = "trips"
    /\ UNCHANGED <<as, begun, stored, fresh, disk, ended, identity, logins, requests>>

StepSucceeds(f) == didCompleteStep(f, "stepped")

\* After an error the SDK gives up or asks for the details again.
StepFails(f) == didCompleteStep(f, "failed") \/ didCompleteStep(f, "called")

loginForNextLaunch(f) ==   \* mutant: the login is only kept for the next launch
    /\ Alive /\ flow[f] = "stepped"
    /\ flow' = [flow EXCEPT ![f] = "open"]
    /\ cached' = as[f]
    /\ UNCHANGED <<as, begun, stored, fresh, facebook, users, pool, ended, app, requests>>

\* The login is complete: the identity is the account's, and the SDK keeps it.
loginWithSign(f) ==
    /\ Alive /\ flow[f] = "stepped"
    /\ flow' = [flow EXCEPT ![f] = "open"]
    /\ identity' = as[f]
    /\ cached' = as[f]
    /\ UNCHANGED <<as, begun, stored, fresh, facebook, users, pool, ended, screen, logins, requests>>

\* The Continue button of the login screen has the same segue. The trips are
\* presented over the login screen, whose buttons are out of reach from then on.
continueSegue ==
    /\ Alive /\ screen = "login"
    /\ screen' = "trips"
    /\ UNCHANGED <<disk, ended, identity, logins, requests, flows>>

\* prepare(for:) of a new trip forces the identity.
prepareTraps ==
    /\ Alive /\ screen = "trips"
    /\ identity = None
    /\ EndBy("noIdentity")

Next ==
    \/ didFinishLaunching \/ resumeSession \/ viewDidLoad \/ didLogOut \/ Kill
    \/ continueSegue \/ prepareTraps
    \/ \E a \in Accounts :
         \/ didCompleteWith(a)
         \/ GraphAnswered(a) \/ GraphFailed(a) \/ GraphAnswerTraps(a)
         \/ PoolSignsUp(a) \/ SignUpAnswered(a) \/ SignUpAnswerTraps(a)
         \/ \E f \in Flows : loginToAWS(a, f)
    \/ \E f \in Flows :
         \/ getDetails(f) \/ handleUserPoolSignInFlowStart(f) \/ FlowStartTraps(f)
         \/ StepSucceeds(f) \/ StepFails(f) \/ loginWithSign(f)

Spec == Init /\ [][Next]_vars

\* The SDK and the network answer, one way or another, and the main queue runs.
\* Nothing is assumed of the user, who may never log in or kill the app.
Fairness ==
    /\ WF_vars(viewDidLoad)
    /\ \A a \in Accounts :
         /\ WF_vars(GraphAnswered(a) \/ GraphFailed(a))
         /\ WF_vars(SignUpAnswered(a) \/ \E f \in Flows : loginToAWS(a, f))
    /\ \A f \in Flows :
         /\ WF_vars(getDetails(f)) /\ WF_vars(handleUserPoolSignInFlowStart(f))
         /\ WF_vars(StepSucceeds(f) \/ StepFails(f)) /\ WF_vars(loginWithSign(f))

FairSpec == Spec /\ Fairness
-----------------------------------------------------------------------------
IsFirst(a) == users # <<>> /\ a = users[1]

\* Whoever logs in to Facebook on this device, in whatever order the answers
\* come: every sign-up, login and session is that of the first row ever saved.
SessionIsFirstUser ==
    /\ \A a \in {identity, cached} \intersect Accounts : IsFirst(a)
    /\ \A f \in Flows : as[f] # None => IsFirst(as[f])
    /\ \A a \in Accounts : signUps[a] > 0 => IsFirst(a)

\* The table gets a second user only when two graph requests, of two runs of
\* login(), were in flight together.
OneUserWithoutOverlap == ~overlapped => Len(users) <= 1

\* Nobody is logged in, and nobody's details are given to the SDK, whom the user
\* pool does not know: a login follows only from its answer that the user exists,
\* which a new user gets at the second sign-up, perhaps in a later process.
LoginNeedsPoolUser ==
    /\ \A a \in {identity, cached} \intersect Accounts : a \in pool
    /\ \A f \in Flows : as[f] # None => as[f] \in pool

\* A completion source can be answered twice only by the starts of two logins,
\* and the identity that prepare(for:) forces can be missing only while no login
\* of the process has opened.
TrapsNeedTheirCause ==
    /\ ended = "answeredTwice" =>
         \E f, g \in Flows : f # g /\ flow[f] # "none" /\ flow[g] # "none"
    /\ ended = "noIdentity" => \A f \in Flows : flow[f] # "open"

Lone == Alive /\ logins = 1

\* When login() runs once in the process and the SDK asks for the details before
\* it starts the flow, the login is given its details and its step completes on
\* the trips, unless the process ends; in the other order, or with two logins, a
\* completion source may stay unanswered.
LoneLoginSettles ==
    \A f \in Flows :
        Lone /\ flow[f] = "asked" /\ f \notin begun
            ~> \/ screen = "trips" /\ as[f] # None /\ flow[f] # "answered"
               \/ ~Lone

Device == INSTANCE DeviceOwner
    WITH owner <- IF users = <<>> THEN None ELSE users[1], kept <- cached

\* The first row owns the device for good, also while two requests race to save
\* one, and the identity turns only into a guest's or the owner's, by the
\* session that is resumed or by a login that completes.
ImplementsDevice == Device!Spec
=============================================================================
