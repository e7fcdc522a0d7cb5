--------------------------- MODULE Session_proofs ---------------------------
(***************************************************************************)
(* Proofs about Session for any accounts and any number of logins: the     *)
(* device acts as its first user only, and every login is of a user the    *)
(* user pool knows.                                                        *)
(***************************************************************************)
EXTENDS Session, TLAPS

-----------------------------------------------------------------------------
(* The inductive invariant *)

(* Until two graph requests overlap there is at most one, and none once a   *)
(* row exists.                                                              *)
OneRequest ==
    ~overlapped =>
        /\ \A a, b \in Accounts : graph[a] > 0 /\ graph[b] > 0 => a = b
        /\ \A a \in Accounts : graph[a] <= 1
        /\ users # <<>> => \A a \in Accounts : graph[a] = 0

(* A login has begun only for a first user whom the pool knows.             *)
FlowsNeedPoolUser ==
    \A f \in Flows : flow[f] # "none" => users # <<>> /\ users[1] \in pool

(* From its answer on, a login has the details of a user.                   *)
AnsweredWithDetails ==
    /\ \A f \in Flows :
         flow[f] \in {"answered", "stepped", "open", "failed"} => as[f] # None
    /\ \A f \in Flows : as[f] # None => flow[f] # "none"

(* A source without a result belongs to a login that was asked; one with a  *)
(* result got it from the start of some login's flow.                       *)
Sources ==
    /\ \A f \in begun : flow[f] # "none"
    /\ fresh => stored \in Flows /\ flow[stored] = "asked"
    /\ stored # None /\ ~fresh => begun # {}

(* A login that has opened gave the app an identity.                        *)
OpenHasIdentity ==
    /\ \A f \in Flows : flow[f] = "open" => identity # None
    /\ screen = "launch" => logins = 0

(* The inductive invariant.                                                 *)
IInv ==
    /\ TypeOK
    /\ SessionIsFirstUser
    /\ OneUserWithoutOverlap
    /\ OneRequest
    /\ FlowsNeedPoolUser
    /\ AnsweredWithDetails
    /\ Sources
    /\ OpenHasIdentity
    /\ TrapsNeedTheirCause

USE IdentitiesAssumption, MaxLoginsAssumption

-----------------------------------------------------------------------------
(* The rows *)

(* A new row leaves the first one where it is.                              *)
LEMMA FirstStays ==
    ASSUME NEW S, NEW s \in Seq(S), NEW a \in S
    PROVE  /\ Append(s, a) # <<>>
           /\ Append(s, a) \in Seq(S)
           /\ Append(s, a)[1] = IF s = <<>> THEN a ELSE s[1]
           /\ Append(s, a)[1] \in S
           /\ Len(Append(s, a)) = Len(s) + 1
<1>1. CASE s = <<>>
  BY <1>1
<1>2. CASE s # <<>>
  <2>1. Len(s) \in Nat \ {0}
    BY <1>2
  <2>2. s[1] \in S /\ 1 \in 1..Len(s)
    BY <2>1
  <2>3. Append(s, a)[1] = s[1]
    BY <2>2
  <2>4. Len(Append(s, a)) # 0
    BY <2>1
  <2>5. QED
    BY <1>2, <2>2, <2>3, <2>4
<1>3. QED
  BY <1>1, <1>2

(* fetchFacebookUser keeps what the invariant says of requests and          *)
(* sign-ups.                                                                *)
LEMMA FetchKeeps ==
    ASSUME TypeOK, SessionIsFirstUser, OneRequest, OneUserWithoutOverlap,
           NEW account \in Accounts, fetchFacebookUser(account), UNCHANGED users
    PROVE  /\ graph' \in [Accounts -> Nat]
           /\ signUps' \in [Accounts -> Nat]
           /\ overlapped' \in BOOLEAN
           /\ OneRequest'
           /\ OneUserWithoutOverlap'
           /\ \A a \in Accounts : signUps'[a] > 0 => users # <<>> /\ a = users[1]
<1>1. CASE users # <<>>
  <2>1. users[1] \in Accounts
    BY <1>1 DEF TypeOK
  <2>2. /\ signUps' = [signUps EXCEPT ![users[1]] = @ + 1]
        /\ UNCHANGED <<graph, overlapped>>
    BY <1>1 DEF fetchFacebookUser, SignUp, fetchUser
  <2>3. signUps' \in [Accounts -> Nat]
    BY <2>1, <2>2 DEF TypeOK
  <2>4. \A a \in Accounts : signUps'[a] > 0 => a = users[1]
    BY <1>1, <2>1, <2>2 DEF TypeOK, SessionIsFirstUser, IsFirst
  <2>5. QED
    BY <1>1, <2>2, <2>3, <2>4 DEF TypeOK, OneRequest, OneUserWithoutOverlap
<1>2. CASE users = <<>>
  <2>1. /\ graph' = [graph EXCEPT ![account] = @ + 1]
        /\ overlapped' = (overlapped \/ graph # NoRequests)
        /\ UNCHANGED signUps
    BY <1>2 DEF fetchFacebookUser
  <2>2. graph' \in [Accounts -> Nat] /\ overlapped' \in BOOLEAN
    BY <2>1 DEF TypeOK
  <2>3. ASSUME ~overlapped'
        PROVE  /\ \A a, b \in Accounts : graph'[a] > 0 /\ graph'[b] > 0 => a = b
               /\ \A a \in Accounts : graph'[a] <= 1
    <3>1. graph = [a \in Accounts |-> 0]
      BY <2>1, <2>3 DEF NoRequests
    <3>2. graph' = [a \in Accounts |-> IF a = account THEN 1 ELSE 0]
      BY <2>1, <3>1
    <3>3. QED
      BY <3>2
  <2>4. \A a \in Accounts : signUps'[a] > 0 => users # <<>> /\ a = users[1]
    BY <2>1 DEF SessionIsFirstUser, IsFirst
  <2>5. ~overlapped' => ~overlapped
    BY <2>1 DEF TypeOK
  <2>6. QED
    BY <1>2, <2>1, <2>2, <2>3, <2>4, <2>5 DEF TypeOK, OneRequest, OneUserWithoutOverlap
<1>3. QED
  BY <1>1, <1>2

-----------------------------------------------------------------------------
(* It holds at the start and every step keeps it *)

(* Before the first launch there is no row, no request and no login.        *)
LEMMA InitIInv == Init => IInv
<1> SUFFICES ASSUME Init PROVE IInv
  OBVIOUS
<1> USE DEF Init, NoRequests
<1>1. TypeOK
  <2>1. users \in Seq(Accounts) /\ 0 \in 0..MaxLogins
    OBVIOUS
  <2>2. flow \in [Flows -> FlowStates] /\ as \in [Flows -> Accounts \union {None}]
    BY DEF FlowStates
  <2>3. graph \in [Accounts -> Nat] /\ signUps \in [Accounts -> Nat]
    OBVIOUS
  <2>4. QED
    BY <2>1, <2>2, <2>3 DEF TypeOK, Causes
<1>2. SessionIsFirstUser
  BY DEF SessionIsFirstUser, IsFirst
<1>3. OneUserWithoutOverlap /\ OneRequest
  BY DEF OneUserWithoutOverlap, OneRequest
<1>4. QED
  BY <1>1, <1>2, <1>3 DEF IInv, FlowsNeedPoolUser, AnsweredWithDetails, Sources,
     OpenHasIdentity, TrapsNeedTheirCause

(* The end of a process changes nothing but why it ended.                   *)
LEMMA EndKeeps ==
    ASSUME IInv, NEW cause \in Causes, EndBy(cause),
           cause = "answeredTwice" =>
               \E f, g \in Flows : f # g /\ flow[f] # "none" /\ flow[g] # "none",
           cause = "noIdentity" => identity = None
    PROVE  IInv'
<1> USE DEF IInv, EndBy, disk, app, requests, flows
<1>1. TypeOK'
  BY DEF TypeOK
<1>2. SessionIsFirstUser' /\ OneUserWithoutOverlap' /\ OneRequest'
  BY DEF SessionIsFirstUser, IsFirst, OneUserWithoutOverlap, OneRequest
<1>3. FlowsNeedPoolUser' /\ AnsweredWithDetails' /\ Sources' /\ OpenHasIdentity'
  BY DEF FlowsNeedPoolUser, AnsweredWithDetails, Sources, OpenHasIdentity
<1>4. TrapsNeedTheirCause'
  BY DEF TrapsNeedTheirCause, OpenHasIdentity
<1>5. QED
  BY <1>1, <1>2, <1>3, <1>4

(* What a running process does about the causes of an end: nothing.         *)
LEMMA NoEndYet == Alive /\ UNCHANGED ended => TrapsNeedTheirCause'
BY DEF Alive, TrapsNeedTheirCause

(* The logins are left alone by an action that changes neither them nor the *)
(* rows, the pool, the identity or the screen.                              *)
LEMMA FlowsStay ==
    ASSUME IInv, UNCHANGED <<flows, screen, identity, logins>>,
           FlowsNeedPoolUser'
    PROVE  AnsweredWithDetails' /\ Sources' /\ OpenHasIdentity'
BY DEF IInv, flows, AnsweredWithDetails, Sources, OpenHasIdentity

(* The launch forgets what the former process held in memory.               *)
LEMMA LaunchKeeps == IInv /\ didFinishLaunching => IInv'
<1> SUFFICES ASSUME IInv, didFinishLaunching PROVE IInv'
  OBVIOUS
<1> USE DEF IInv, didFinishLaunching, disk, NoFlows, NoRequests
<1>1. TypeOK'
  <2>1. /\ flow' \in [Flows -> FlowStates]
        /\ as' \in [Flows -> Accounts \union {None}]
    BY DEF FlowStates
  <2>2. graph' \in [Accounts -> Nat] /\ signUps' \in [Accounts -> Nat]
    OBVIOUS
  <2>3. UNCHANGED <<facebook, users, pool, cached, overlapped>> /\ logins' \in 0..MaxLogins
    OBVIOUS
  <2>4. QED
    BY <2>1, <2>2, <2>3 DEF TypeOK, Causes
<1>2. SessionIsFirstUser' /\ OneUserWithoutOverlap' /\ OneRequest'
  BY DEF SessionIsFirstUser, IsFirst, OneUserWithoutOverlap, OneRequest
<1>3. FlowsNeedPoolUser' /\ AnsweredWithDetails' /\ Sources'
  BY DEF FlowsNeedPoolUser, AnsweredWithDetails, Sources
<1>4. OpenHasIdentity' /\ TrapsNeedTheirCause'
  BY DEF OpenHasIdentity, TrapsNeedTheirCause
<1>5. QED
  BY <1>1, <1>2, <1>3, <1>4

(* A run of login() adds one request or one sign-up of the first user.      *)
LEMMA LoginKeeps ==
    ASSUME IInv, NEW account \in Accounts,
           viewDidLoad \/ didCompleteWith(account)
    PROVE  IInv'
<1> USE DEF IInv
<1>1. CASE viewDidLoad /\ facebook = None
  <2> USE <1>1 DEF viewDidLoad, disk, flows, requests
  <2>1. TypeOK'
    BY DEF TypeOK
  <2>2. SessionIsFirstUser' /\ OneUserWithoutOverlap' /\ OneRequest'
    BY DEF SessionIsFirstUser, IsFirst, OneUserWithoutOverlap, OneRequest
  <2>3. FlowsNeedPoolUser' /\ AnsweredWithDetails' /\ Sources' /\ OpenHasIdentity'
    BY DEF FlowsNeedPoolUser, AnsweredWithDetails, Sources, OpenHasIdentity
  <2>4. TrapsNeedTheirCause'
    BY NoEndYet
  <2>5. QED
    BY <2>1, <2>2, <2>3, <2>4
<1>2. ASSUME NEW a \in Accounts, fetchFacebookUser(a), Alive,
             facebook' \in Accounts \union {None},
             logins' \in 0..MaxLogins, screen' = "login",
             UNCHANGED <<users, pool, cached, ended, identity, flows>>
      PROVE  IInv'
  <2> USE <1>2 DEF flows
  <2>1. /\ graph' \in [Accounts -> Nat] /\ signUps' \in [Accounts -> Nat]
        /\ overlapped' \in BOOLEAN
        /\ OneRequest' /\ OneUserWithoutOverlap'
        /\ \A b \in Accounts : signUps'[b] > 0 => users # <<>> /\ b = users[1]
    BY FetchKeeps
  <2>2. TypeOK'
    BY <2>1 DEF TypeOK
  <2>3. SessionIsFirstUser'
    BY <2>1 DEF SessionIsFirstUser, IsFirst
  <2>4. FlowsNeedPoolUser' /\ AnsweredWithDetails' /\ Sources' /\ OpenHasIdentity'
    BY DEF FlowsNeedPoolUser, AnsweredWithDetails, Sources, OpenHasIdentity
  <2>5. TrapsNeedTheirCause'
    BY NoEndYet
  <2>6. QED
    BY <2>1, <2>2, <2>3, <2>4, <2>5
<1>3. CASE viewDidLoad /\ facebook # None
  <2>1. facebook \in Accounts /\ logins + 1 \in 0..MaxLogins
    BY <1>3 DEF TypeOK, OpenHasIdentity, viewDidLoad
  <2>2. QED
    BY <1>2, <1>3, <2>1 DEF viewDidLoad, disk, TypeOK
<1>4. CASE didCompleteWith(account)
  <2>1. logins + 1 \in 0..MaxLogins
    BY <1>4 DEF TypeOK, didCompleteWith
  <2>2. QED
    BY <1>2, <1>4, <2>1 DEF didCompleteWith
<1>5. QED
  BY <1>1, <1>3, <1>4

(* An answer of the graph adds a row behind the first, and signs the first  *)
(* row's user up.                                                           *)
LEMMA AnswerKeeps ==
    ASSUME IInv, NEW a \in Accounts, GraphAnswered(a)
    PROVE  IInv'
<1> USE DEF IInv
<1> DEFINE first == Append(users, a)[1]
<1>1. /\ Append(users, a) # <<>> /\ Append(users, a) \in Seq(Accounts)
      /\ first = IF users = <<>> THEN a ELSE users[1]
      /\ first \in Accounts
      /\ Len(Append(users, a)) = Len(users) + 1
  BY FirstStays DEF TypeOK
<1>2. /\ graph' = [graph EXCEPT ![a] = @ - 1] /\ graph[a] > 0
      /\ users' = Append(users, a)
      /\ signUps' = [signUps EXCEPT ![first] = @ + 1]
      /\ Alive
      /\ UNCHANGED <<facebook, pool, cached, overlapped, ended, identity, screen, logins,
                     flow, as, begun, stored, fresh>>
  BY DEF GraphAnswered, Asked, SignUp, app, flows
<1>3. users # <<>> => users'[1] = users[1]
  BY <1>1, <1>2
<1> HIDE DEF first
<1>4. TypeOK'
  <2>1. graph' \in [Accounts -> Nat] /\ signUps' \in [Accounts -> Nat]
    BY <1>1, <1>2 DEF TypeOK
  <2>2. QED
    BY <1>1, <1>2, <2>1 DEF TypeOK
<1>5. SessionIsFirstUser'
  <2>1. \A b \in Accounts : signUps'[b] > 0 => b = first
    BY <1>1, <1>2 DEF TypeOK, SessionIsFirstUser, IsFirst
  <2>2. users' # <<>> /\ users'[1] = first
    BY <1>1, <1>2 DEF first
  <2>3. QED
    BY <1>1, <1>2, <1>3, <2>1, <2>2 DEF TypeOK, SessionIsFirstUser, IsFirst
<1>6. OneUserWithoutOverlap' /\ OneRequest'
  <2>1. SUFFICES ASSUME ~overlapped PROVE /\ Len(users') <= 1
                                          /\ \A b \in Accounts : graph'[b] = 0
    BY <1>2 DEF OneUserWithoutOverlap, OneRequest
  <2>2. users = <<>> /\ \A b \in Accounts : graph[b] = IF b = a THEN 1 ELSE 0
    BY <1>2, <2>1 DEF OneRequest, TypeOK
  <2>3. QED
    BY <1>1, <1>2, <2>2 DEF TypeOK
<1>7. FlowsNeedPoolUser'
  BY <1>1, <1>2, <1>3 DEF FlowsNeedPoolUser
<1>8. AnsweredWithDetails' /\ Sources' /\ OpenHasIdentity' /\ TrapsNeedTheirCause'
  BY <1>2, <1>7, FlowsStay, NoEndYet DEF flows
<1>9. QED
  BY <1>4, <1>5, <1>6, <1>7, <1>8

(* The other steps of the device, Facebook and the pool: a logout, the      *)
(* Continue button, a failed request, a resumed session, an account taken   *)
(* by the pool, a sign-up that leads to no login.                           *)
LEMMA QuietKeeps ==
    ASSUME IInv,
           \/ didLogOut \/ continueSegue \/ resumeSession
           \/ \E a \in Accounts : GraphFailed(a) \/ PoolSignsUp(a) \/ SignUpAnswered(a)
    PROVE  IInv'
<1> USE DEF IInv
<1>1. CASE didLogOut
  <2> USE <1>1 DEF didLogOut, app, requests, flows
  <2>1. TypeOK' /\ SessionIsFirstUser' /\ OneUserWithoutOverlap' /\ OneRequest'
    BY DEF TypeOK, SessionIsFirstUser, IsFirst, OneUserWithoutOverlap, OneRequest
  <2>2. FlowsNeedPoolUser'
    BY DEF FlowsNeedPoolUser
  <2>3. QED
    BY <2>1, <2>2, FlowsStay, NoEndYet
<1>2. CASE resumeSession
  <2> USE <1>2 DEF resumeSession, disk, requests, flows
  <2>1. TypeOK'
    BY DEF TypeOK
  <2>2. SessionIsFirstUser' /\ OneUserWithoutOverlap' /\ OneRequest'
    BY DEF TypeOK, SessionIsFirstUser, IsFirst, OneUserWithoutOverlap, OneRequest
  <2>3. FlowsNeedPoolUser' /\ AnsweredWithDetails' /\ Sources' /\ OpenHasIdentity'
    BY DEF FlowsNeedPoolUser, AnsweredWithDetails, Sources, OpenHasIdentity
  <2>4. QED
    BY <2>1, <2>2, <2>3, NoEndYet
<1>3. ASSUME NEW a \in Accounts, GraphFailed(a) PROVE IInv'
  <2> USE <1>3 DEF GraphFailed, Asked, disk, app, flows
  <2>0. graph' \in [Accounts -> Nat] /\ \A b \in Accounts : graph'[b] <= graph[b]
    BY DEF TypeOK
  <2>1. TypeOK'
    BY <2>0 DEF TypeOK
  <2>2. SessionIsFirstUser' /\ OneUserWithoutOverlap'
    BY DEF SessionIsFirstUser, IsFirst, OneUserWithoutOverlap
  <2>5. OneRequest'
    <3>1. \A b \in Accounts : graph[b] \in Nat /\ graph'[b] \in Nat
      BY <2>0 DEF TypeOK
    <3>2. QED
      BY <2>0, <3>1 DEF OneRequest
  <2>3. FlowsNeedPoolUser'
    BY DEF FlowsNeedPoolUser
  <2>4. QED
    BY <2>1, <2>2, <2>3, <2>5, FlowsStay, NoEndYet
<1>4. ASSUME NEW a \in Accounts, PoolSignsUp(a) PROVE IInv'
  <2> USE <1>4 DEF PoolSignsUp, app, requests, flows
  <2>1. TypeOK'
    BY DEF TypeOK
  <2>2. SessionIsFirstUser' /\ OneUserWithoutOverlap' /\ OneRequest'
    BY DEF SessionIsFirstUser, IsFirst, OneUserWithoutOverlap, OneRequest
  <2>3. FlowsNeedPoolUser'
    BY DEF FlowsNeedPoolUser
  <2>4. TrapsNeedTheirCause'
    BY DEF TrapsNeedTheirCause
  <2>5. QED
    BY <2>1, <2>2, <2>3, <2>4, FlowsStay
<1>5. ASSUME NEW a \in Accounts, SignUpAnswered(a) PROVE IInv'
  <2> USE <1>5 DEF SignUpAnswered, SignUpEnds, disk, app, flows
  <2>0. /\ signUps' \in [Accounts -> Nat]
        /\ \A b \in Accounts : signUps'[b] > 0 => signUps[b] > 0
    BY DEF TypeOK
  <2>1. TypeOK'
    BY <2>0 DEF TypeOK
  <2>2. SessionIsFirstUser' /\ OneUserWithoutOverlap' /\ OneRequest'
    BY <2>0 DEF SessionIsFirstUser, IsFirst, OneUserWithoutOverlap, OneRequest
  <2>3. FlowsNeedPoolUser'
    BY DEF FlowsNeedPoolUser
  <2>4. QED
    BY <2>1, <2>2, <2>3, FlowsStay, NoEndYet
<1>6. CASE continueSegue
  <2> USE <1>6 DEF continueSegue, disk, requests, flows
  <2>1. TypeOK' /\ SessionIsFirstUser' /\ OneUserWithoutOverlap' /\ OneRequest'
    BY DEF TypeOK, SessionIsFirstUser, IsFirst, OneUserWithoutOverlap, OneRequest
  <2>2. FlowsNeedPoolUser' /\ AnsweredWithDetails' /\ Sources' /\ OpenHasIdentity'
    BY DEF FlowsNeedPoolUser, AnsweredWithDetails, Sources, OpenHasIdentity
  <2>3. QED
    BY <2>1, <2>2, NoEndYet
<1>7. QED
  BY <1>1, <1>2, <1>3, <1>4, <1>5, <1>6

(* A login begins for an account the pool knows, which is the first user's. *)
LEMMA BeginKeeps ==
    ASSUME IInv, NEW a \in Accounts, NEW f \in Flows, loginToAWS(a, f)
    PROVE  IInv'
<1> USE DEF IInv
<1>1. /\ Alive /\ signUps[a] > 0 /\ a \in pool /\ flow[f] = "none"
      /\ signUps' = [signUps EXCEPT ![a] = @ - 1]
      /\ flow' = [flow EXCEPT ![f] = "called"]
      /\ UNCHANGED <<facebook, users, pool, cached, graph, overlapped, ended, identity,
                     screen, logins, as, begun, stored, fresh>>
  BY DEF loginToAWS, SignUpEnds, disk, app
<1>2. users # <<>> /\ users[1] \in pool
  BY <1>1 DEF SessionIsFirstUser, IsFirst
<1>3. /\ signUps' \in [Accounts -> Nat]
      /\ \A b \in Accounts : signUps'[b] > 0 => signUps[b] > 0
  <2>1. signUps \in [Accounts -> Nat]
    BY DEF TypeOK
  <2>2. QED
    BY <1>1, <2>1
<1>4. /\ flow' \in [Flows -> FlowStates]
      /\ \A g \in Flows : flow'[g] = IF g = f THEN "called" ELSE flow[g]
  <2>1. flow \in [Flows -> FlowStates] /\ "called" \in FlowStates
    BY DEF TypeOK, FlowStates
  <2>2. QED
    BY <1>1, <2>1
<1>5. TypeOK'
  BY <1>1, <1>3, <1>4 DEF TypeOK
<1>6. SessionIsFirstUser' /\ OneUserWithoutOverlap' /\ OneRequest'
  BY <1>1, <1>3 DEF SessionIsFirstUser, IsFirst, OneUserWithoutOverlap, OneRequest
<1>7. FlowsNeedPoolUser'
  BY <1>1, <1>2 DEF FlowsNeedPoolUser
<1>8. AnsweredWithDetails'
  BY <1>1, <1>4 DEF AnsweredWithDetails
<1>9. Sources'
  <2>1. begun \subseteq Flows
    BY DEF TypeOK
  <2>2. QED
    BY <1>1, <1>4, <2>1 DEF Sources
<1>10. OpenHasIdentity'
  BY <1>1, <1>4 DEF OpenHasIdentity
<1>11. QED
  BY <1>1, <1>5, <1>6, <1>7, <1>8, <1>9, <1>10, NoEndYet

(* What an action on the logins of a process must show, when it moves one   *)
(* login to another state and leaves requests and rows alone.               *)
LEMMA MoveKeeps ==
    ASSUME IInv, Alive, NEW f \in Flows, NEW next \in FlowStates,
           flow[f] # "none", next # "none",
           flow' = [flow EXCEPT ![f] = next],
           UNCHANGED <<facebook, users, pool, ended, logins, requests>>,
           cached' \in {cached, as[f]}, identity' \in {identity, as[f]},
           identity' # identity => as[f] # None,
           screen' = "trips" \/ UNCHANGED screen,
           as' \in [Flows -> Accounts \union {None}],
           \A g \in Flows : as'[g] # None => as[g] # None \/ (g = f /\ as'[g] = users[1]),
           \A g \in Flows : as[g] # None => as'[g] = as[g] \/ as'[g] = users[1],
           begun' \in SUBSET Flows, \A g \in begun' : flow[g] # "none",
           stored' \in Flows \union {None}, fresh' \in BOOLEAN,
           stored' # None /\ ~fresh' => begun' # {},
           fresh' => stored' \in Flows /\ flow'[stored'] = "asked",
           next \in {"answered", "stepped", "open", "failed"} => as'[f] # None,
           \A g \in Flows : flow[g] \in {"answered", "stepped", "open", "failed"} => as'[g] # None,
           next = "open" => identity' # None
    PROVE  IInv'
<1> USE DEF IInv
<1>1. users # <<>> /\ users[1] \in pool /\ users[1] \in Accounts
  <2>1. users # <<>> /\ users[1] \in pool
    BY DEF FlowsNeedPoolUser
  <2>2. QED
    BY <2>1 DEF TypeOK
<1>2. /\ flow' \in [Flows -> FlowStates]
      /\ \A g \in Flows : flow'[g] = IF g = f THEN next ELSE flow[g]
  BY DEF TypeOK
<1>3. TypeOK'
  <2>1. UNCHANGED <<graph, overlapped, signUps>>
    BY DEF requests
  <2>2. /\ identity' \in Accounts \union {None, Guest}
        /\ cached' \in Accounts \union {None}
        /\ screen' \in {"launch", "login", "trips"}
    BY DEF TypeOK
  <2>3. QED
    BY <1>2, <2>1, <2>2 DEF TypeOK
<1>4. SessionIsFirstUser'
  <2>1. \A g \in Flows : as'[g] # None => as'[g] = users[1]
    BY DEF SessionIsFirstUser, IsFirst
  <2>2. \A b \in {identity', cached'} \intersect Accounts : b = users[1]
    BY DEF SessionIsFirstUser, IsFirst
  <2>3. QED
    BY <1>1, <2>1, <2>2 DEF SessionIsFirstUser, IsFirst, requests
<1>5. OneUserWithoutOverlap' /\ OneRequest'
  BY DEF OneUserWithoutOverlap, OneRequest, requests
<1>6. FlowsNeedPoolUser'
  BY <1>1 DEF FlowsNeedPoolUser
<1>7. AnsweredWithDetails'
  BY <1>2 DEF AnsweredWithDetails
<1>8. Sources'
  BY <1>2 DEF Sources
<1>9. OpenHasIdentity'
  BY <1>2 DEF OpenHasIdentity, TypeOK
<1>10. QED
  BY <1>3, <1>4, <1>5, <1>6, <1>7, <1>8, <1>9, NoEndYet

(* The steps of the SDK's login.                                            *)
LEMMA FlowKeeps ==
    ASSUME IInv, NEW f \in Flows,
           \/ getDetails(f) \/ handleUserPoolSignInFlowStart(f)
           \/ StepSucceeds(f) \/ StepFails(f) \/ loginWithSign(f)
    PROVE  IInv'
<1> USE DEF IInv
<1>0. begun \subseteq Flows /\ flow[f] \in FlowStates /\ as \in [Flows -> Accounts \union {None}]
  BY DEF TypeOK
<1>1. CASE getDetails(f)
  <2> USE <1>1 DEF getDetails, disk, app
  <2>1. "asked" \in FlowStates
    BY DEF FlowStates
  <2>2. QED
    BY <1>0, <2>1, MoveKeeps DEF TypeOK, Sources, AnsweredWithDetails
<1>2. CASE handleUserPoolSignInFlowStart(f)
  <2> USE <1>2 DEF handleUserPoolSignInFlowStart, StartOf, disk, app
  <2>1. users # <<>> /\ users[1] \in pool
    BY DEF FlowsNeedPoolUser
  <2>2. users[1] \in Accounts
    BY <2>1 DEF TypeOK
  <2>3. CASE stored = None
    <3>1. QED
      <4>1. /\ TypeOK' /\ FlowsNeedPoolUser'
            /\ SessionIsFirstUser' /\ OneUserWithoutOverlap' /\ OneRequest'
        BY <2>3 DEF TypeOK, FlowsNeedPoolUser, SessionIsFirstUser, IsFirst,
           OneUserWithoutOverlap, OneRequest, requests
      <4>2. AnsweredWithDetails' /\ Sources' /\ OpenHasIdentity'
        BY <2>3 DEF AnsweredWithDetails, Sources, OpenHasIdentity
      <4>3. QED
        BY <4>1, <4>2, NoEndYet
  <2>4. CASE stored # None
    <3>1. stored \in Flows /\ fresh /\ flow[stored] = "asked"
      BY <2>4 DEF TypeOK, Sources
    <3>2. /\ flow' = [flow EXCEPT ![stored] = "answered"]
          /\ as' = [as EXCEPT ![stored] = users[1]]
      BY <2>4 DEF fetchUser
    <3>3. as' \in [Flows -> Accounts \union {None}] /\ users[1] # None
      BY <1>0, <2>2, <3>2
    <3>4. \A g \in Flows : as'[g] = IF g = stored THEN users[1] ELSE as[g]
      BY <1>0, <3>2
    <3>5. "answered" \in FlowStates
      BY DEF FlowStates
    <3>6. /\ begun' \in SUBSET Flows /\ begun' # {}
          /\ \A g \in begun' : flow[g] # "none"
      BY <1>0 DEF Sources
    <3>7. \A g \in Flows :
            flow[g] \in {"answered", "stepped", "open", "failed"} => as'[g] # None
      BY <3>3, <3>4 DEF AnsweredWithDetails
    <3>8. /\ Alive /\ fresh' = FALSE /\ stored' = stored
          /\ UNCHANGED <<facebook, users, pool, ended, logins, requests, cached,
                         identity, screen>>
      OBVIOUS
    <3>9. \A g \in Flows :
             /\ as'[g] # None => as[g] # None \/ (g = stored /\ as'[g] = users[1])
             /\ as[g] # None => as'[g] = as[g] \/ as'[g] = users[1]
      BY <3>4
    <3>10. as'[stored] # None
      BY <3>1, <3>3, <3>4
    <3> HIDE DEF handleUserPoolSignInFlowStart, IInv
    <3>11. QED
      BY <3>1, <3>2, <3>3, <3>5, <3>6, <3>7, <3>8, <3>9, <3>10, MoveKeeps
  <2>5. QED
    BY <2>3, <2>4
<1>3. ASSUME NEW next \in {"stepped", "failed", "called"}, didCompleteStep(f, next)
      PROVE  IInv'
  <2> USE <1>3 DEF didCompleteStep, disk
  <2>1. next \in FlowStates /\ next # "none" /\ next # "open"
    BY DEF FlowStates
  <2>2. as[f] # None
    BY DEF AnsweredWithDetails
  <2>3. QED
    BY <1>0, <2>1, <2>2, MoveKeeps DEF TypeOK, Sources, AnsweredWithDetails
<1>4. CASE loginWithSign(f)
  <2> USE <1>4 DEF loginWithSign
  <2>1. as[f] # None
    BY DEF AnsweredWithDetails
  <2>2. "open" \in FlowStates
    BY DEF FlowStates
  <2>3. QED
    BY <1>0, <2>1, <2>2, MoveKeeps DEF TypeOK, Sources, AnsweredWithDetails
<1>5. QED
  BY <1>1, <1>2, <1>3, <1>4 DEF StepSucceeds, StepFails

(* The ends: a kill and the four traps.                                     *)
LEMMA EndsKeep ==
    ASSUME IInv,
           \/ Kill \/ prepareTraps
           \/ \E a \in Accounts : GraphAnswerTraps(a) \/ SignUpAnswerTraps(a)
           \/ \E f \in Flows : FlowStartTraps(f)
    PROVE  IInv'
<1>1. CASE Kill \/ \E a \in Accounts : GraphAnswerTraps(a) \/ SignUpAnswerTraps(a)
  <2>1. PICK cause \in {"killed", "noEmail", "noMessage"} : EndBy(cause)
    BY <1>1 DEF Kill, GraphAnswerTraps, SignUpAnswerTraps
  <2>2. cause \in Causes /\ cause # "answeredTwice" /\ cause # "noIdentity"
    BY DEF Causes
  <2>3. QED
    BY <2>1, <2>2, EndKeeps
<1>2. CASE prepareTraps
  <2>1. EndBy("noIdentity") /\ identity = None /\ "noIdentity" \in Causes
    BY <1>2 DEF prepareTraps, Causes
  <2>2. QED
    BY <2>1, EndKeeps
<1>3. ASSUME NEW f \in Flows, FlowStartTraps(f) PROVE IInv'
  <2>1. EndBy("answeredTwice") /\ "answeredTwice" \in Causes
    BY <1>3 DEF FlowStartTraps, Causes
  <2>2. /\ flow[f] # "none" /\ f \notin begun /\ stored # None /\ ~fresh
        /\ begun \subseteq Flows
    BY <1>3 DEF FlowStartTraps, StartOf, IInv, TypeOK
  <2>3. PICK g \in begun : TRUE
    BY <2>2 DEF IInv, Sources
  <2>4. g \in Flows /\ g # f /\ flow[g] # "none"
    BY <2>2, <2>3 DEF IInv, Sources
  <2>5. \E h, i \in Flows : h # i /\ flow[h] # "none" /\ flow[i] # "none"
    BY <2>2, <2>4
  <2>6. QED
    BY <2>1, <2>5, EndKeeps
<1>4. QED
  BY <1>1, <1>2, <1>3

(* Every step of Session keeps the invariant.                               *)
LEMMA NextKeeps == IInv /\ [Next]_vars => IInv'
<1> SUFFICES ASSUME IInv, [Next]_vars PROVE IInv'
  OBVIOUS
<1>1. CASE UNCHANGED vars
  <2> USE <1>1 DEF vars, disk, app, requests, flows, IInv
  <2>1. TypeOK' /\ SessionIsFirstUser' /\ OneUserWithoutOverlap' /\ OneRequest'
    BY DEF TypeOK, SessionIsFirstUser, IsFirst, OneUserWithoutOverlap, OneRequest
  <2>2. FlowsNeedPoolUser' /\ AnsweredWithDetails' /\ Sources' /\ OpenHasIdentity'
    BY DEF FlowsNeedPoolUser, AnsweredWithDetails, Sources, OpenHasIdentity
  <2>3. TrapsNeedTheirCause'
    BY DEF TrapsNeedTheirCause
  <2>4. QED
    BY <2>1, <2>2, <2>3
<1>2. CASE didFinishLaunching
  BY <1>2, LaunchKeeps
<1>3. CASE viewDidLoad
  <2>1. CASE facebook = None
    <3>1. CASE Accounts = {}
      <4> USE <1>3, <2>1, <3>1 DEF viewDidLoad, disk, flows, requests, IInv
      <4>1. TypeOK' /\ FlowsNeedPoolUser'
        BY DEF TypeOK, FlowsNeedPoolUser
      <4>2. SessionIsFirstUser' /\ OneUserWithoutOverlap' /\ OneRequest'
        BY DEF SessionIsFirstUser, IsFirst, OneUserWithoutOverlap, OneRequest
      <4>3. AnsweredWithDetails' /\ Sources' /\ OpenHasIdentity'
        BY DEF AnsweredWithDetails, Sources, OpenHasIdentity
      <4>4. QED
        BY <4>1, <4>2, <4>3, NoEndYet
    <3>2. QED
      BY <1>3, <3>1, LoginKeeps
  <2>2. QED
    BY <1>3, <2>1, LoginKeeps DEF IInv, TypeOK
<1>4. ASSUME NEW a \in Accounts, didCompleteWith(a) PROVE IInv'
  BY <1>4, LoginKeeps
<1>5. ASSUME NEW a \in Accounts, GraphAnswered(a) PROVE IInv'
  BY <1>5, AnswerKeeps
<1>6. CASE \/ didLogOut \/ continueSegue \/ resumeSession
           \/ \E a \in Accounts : GraphFailed(a) \/ PoolSignsUp(a) \/ SignUpAnswered(a)
  BY <1>6, QuietKeeps
<1>7. ASSUME NEW a \in Accounts, NEW f \in Flows, loginToAWS(a, f) PROVE IInv'
  BY <1>7, BeginKeeps
<1>8. ASSUME NEW f \in Flows,
             \/ getDetails(f) \/ handleUserPoolSignInFlowStart(f)
             \/ StepSucceeds(f) \/ StepFails(f) \/ loginWithSign(f)
      PROVE  IInv'
  BY <1>8, FlowKeeps
<1>9. CASE \/ Kill \/ prepareTraps
           \/ \E a \in Accounts : GraphAnswerTraps(a) \/ SignUpAnswerTraps(a)
           \/ \E f \in Flows : FlowStartTraps(f)
  BY <1>9, EndsKeep
<1>10. QED
  BY <1>1, <1>2, <1>3, <1>4, <1>5, <1>6, <1>7, <1>8, <1>9 DEF Next

-----------------------------------------------------------------------------
(* The theorems *)

(* The inductive invariant holds in every reachable state.                  *)
LEMMA Invariant == Spec => []IInv
BY InitIInv, NextKeeps, PTL DEF Spec

(* The variables keep their types.                                          *)
THEOREM TypeCorrect == Spec => []TypeOK
<1>1. IInv => TypeOK
  BY DEF IInv
<1>2. QED
  BY Invariant, <1>1, PTL

(* All sign-ups, logins and sessions of a device are its first user's       *)
(* (LoginViewController.fetchFacebookUser, handleUserPoolSignInFlowStart).  *)
THEOREM OneUserActs == Spec => []SessionIsFirstUser
<1>1. IInv => SessionIsFirstUser
  BY DEF IInv
<1>2. QED
  BY Invariant, <1>1, PTL

(* A second row of User needs two overlapping graph requests.               *)
THEOREM SecondUserNeedsOverlap == Spec => []OneUserWithoutOverlap
<1>1. IInv => OneUserWithoutOverlap
  BY DEF IInv
<1>2. QED
  BY Invariant, <1>1, PTL

(* Every step keeps the users who act, and whose details were given, known  *)
(* to the pool.                                                             *)
LEMMA LoginStep == IInv /\ LoginNeedsPoolUser /\ [Next]_vars => LoginNeedsPoolUser'
<1> SUFFICES ASSUME IInv, LoginNeedsPoolUser, [Next]_vars PROVE LoginNeedsPoolUser'
  OBVIOUS
<1> USE DEF LoginNeedsPoolUser
<1>1. ASSUME UNCHANGED <<identity, cached, as, pool>> PROVE LoginNeedsPoolUser'
  BY <1>1
<1>2. CASE didFinishLaunching
  BY <1>2 DEF didFinishLaunching, NoFlows, disk
<1>3. CASE resumeSession
  BY <1>3 DEF resumeSession, disk, flows
<1>4. ASSUME NEW a \in Accounts, PoolSignsUp(a) PROVE LoginNeedsPoolUser'
  BY <1>4 DEF PoolSignsUp, app, flows
<1>5. ASSUME NEW f \in Flows, handleUserPoolSignInFlowStart(f) PROVE LoginNeedsPoolUser'
  <2>1. users[1] \in pool
    BY <1>5 DEF handleUserPoolSignInFlowStart, StartOf, IInv, FlowsNeedPoolUser
  <2>2. \A g \in Flows : as'[g] \in {as[g], users[1]}
    BY <1>5 DEF handleUserPoolSignInFlowStart, fetchUser, IInv, TypeOK
  <2>3. UNCHANGED <<identity, cached, pool>>
    BY <1>5 DEF handleUserPoolSignInFlowStart, disk, app
  <2>4. QED
    BY <2>1, <2>2, <2>3
<1>6. ASSUME NEW f \in Flows, loginWithSign(f) PROVE LoginNeedsPoolUser'
  <2>1. as[f] # None
    BY <1>6 DEF loginWithSign, IInv, AnsweredWithDetails
  <2>2. identity' = as[f] /\ cached' = as[f] /\ UNCHANGED <<as, pool>>
    BY <1>6 DEF loginWithSign
  <2>3. QED
    BY <2>1, <2>2
<1>7. CASE \/ viewDidLoad \/ didLogOut \/ continueSegue \/ Kill \/ prepareTraps
           \/ UNCHANGED vars
  BY <1>1, <1>7 DEF viewDidLoad, didLogOut, continueSegue, Kill, prepareTraps, EndBy,
     disk, app, flows, vars
<1>8. ASSUME NEW a \in Accounts,
             \/ didCompleteWith(a) \/ GraphAnswered(a) \/ GraphFailed(a)
             \/ GraphAnswerTraps(a) \/ SignUpAnswered(a) \/ SignUpAnswerTraps(a)
             \/ \E f \in Flows : loginToAWS(a, f)
      PROVE  LoginNeedsPoolUser'
  BY <1>1, <1>8 DEF didCompleteWith, GraphAnswered, GraphFailed, GraphAnswerTraps,
     SignUpAnswered, SignUpEnds, SignUpAnswerTraps, loginToAWS, EndBy, disk, app, flows
<1>9. ASSUME NEW f \in Flows,
             getDetails(f) \/ FlowStartTraps(f) \/ StepSucceeds(f) \/ StepFails(f)
      PROVE  LoginNeedsPoolUser'
  BY <1>1, <1>9 DEF getDetails, FlowStartTraps, StepSucceeds, StepFails,
     didCompleteStep, EndBy, disk, app, flows
<1>10. QED
  BY <1>2, <1>3, <1>4, <1>5, <1>6, <1>7, <1>8, <1>9 DEF Next

(* Every login, and every session that resumes one, is of a user the pool   *)
(* knows (LoginViewController.createAWSUser compares the pool's answer).    *)
THEOREM LoginsAreEarned == Spec => []LoginNeedsPoolUser
<1>1. Init => LoginNeedsPoolUser
  BY DEF Init, LoginNeedsPoolUser
<1>2. QED
  BY <1>1, Invariant, LoginStep, PTL DEF Spec

(* The two traps of the login that ordering decides have their causes.      *)
THEOREM TrapsAreCaused == Spec => []TrapsNeedTheirCause
<1>1. IInv => TrapsNeedTheirCause
  BY DEF IInv
<1>2. QED
  BY Invariant, <1>1, PTL

-----------------------------------------------------------------------------
(* The device has one owner *)

(* A device that was never used has no owner.                               *)
LEMMA InitRefines == Init => Device!Init
BY DEF Init, Device!Init

(* Every step of Session gives the device its owner, restarts, resumes or   *)
(* logs in, or leaves owner and identity alone.                             *)
LEMMA StepRefines == IInv /\ [Next]_vars => [Device!Next]_Device!vars
<1> SUFFICES ASSUME IInv, [Next]_vars PROVE [Device!Next]_Device!vars
  OBVIOUS
<1> USE DEF Device!vars
<1>1. ASSUME UNCHANGED <<users, identity, cached>> PROVE UNCHANGED Device!vars
  BY <1>1
<1>2. CASE didFinishLaunching
  BY <1>2 DEF didFinishLaunching, disk, Device!Next, Device!Restart
<1>3. CASE resumeSession
  BY <1>3 DEF resumeSession, disk, Device!Next, Device!Resume
<1>4. ASSUME NEW a \in Accounts, GraphAnswered(a) PROVE [Device!Next]_Device!vars
  <2>1. users' = Append(users, a) /\ UNCHANGED <<identity, cached>>
    BY <1>4 DEF GraphAnswered, app
  <2>2. /\ users' # <<>>
        /\ users'[1] = IF users = <<>> THEN a ELSE users[1]
    BY <2>1, FirstStays DEF IInv, TypeOK
  <2>3. CASE users = <<>>
    <3>1. Device!Own(a)
      BY <2>1, <2>2, <2>3 DEF Device!Own
    <3>2. QED
      BY <3>1 DEF Device!Next
  <2>4. CASE users # <<>>
    BY <2>1, <2>2, <2>4
  <2>5. QED
    BY <2>3, <2>4
<1>5. ASSUME NEW f \in Flows, loginWithSign(f) PROVE [Device!Next]_Device!vars
  <2>1. identity' = as[f] /\ cached' = as[f] /\ UNCHANGED users
    BY <1>5 DEF loginWithSign
  <2>2. as[f] # None
    BY <1>5 DEF loginWithSign, IInv, AnsweredWithDetails
  <2>3. users # <<>> /\ as[f] = users[1] /\ users[1] \in Accounts
    BY <2>2 DEF IInv, TypeOK, SessionIsFirstUser, IsFirst
  <2>4. Device!Login
    BY <2>1, <2>3 DEF Device!Login
  <2>5. QED
    BY <2>4 DEF Device!Next
<1>6. CASE \/ viewDidLoad \/ didLogOut \/ continueSegue \/ Kill \/ prepareTraps
           \/ UNCHANGED vars
  BY <1>1, <1>6 DEF viewDidLoad, didLogOut, continueSegue, Kill, prepareTraps, EndBy, disk, app, vars
<1>7. ASSUME NEW a \in Accounts,
             \/ didCompleteWith(a) \/ GraphFailed(a) \/ GraphAnswerTraps(a)
             \/ PoolSignsUp(a) \/ SignUpAnswered(a) \/ SignUpAnswerTraps(a)
             \/ \E f \in Flows : loginToAWS(a, f)
      PROVE  UNCHANGED Device!vars
  BY <1>1, <1>7 DEF didCompleteWith, GraphFailed, GraphAnswerTraps, PoolSignsUp,
     SignUpAnswered, SignUpEnds, SignUpAnswerTraps, loginToAWS, EndBy, disk, app
<1>8. ASSUME NEW f \in Flows,
             \/ getDetails(f) \/ handleUserPoolSignInFlowStart(f) \/ FlowStartTraps(f)
             \/ StepSucceeds(f) \/ StepFails(f)
      PROVE  UNCHANGED Device!vars
  BY <1>1, <1>8 DEF getDetails, handleUserPoolSignInFlowStart, FlowStartTraps,
     StepSucceeds, StepFails, didCompleteStep, EndBy, disk, app
<1>9. QED
  BY <1>2, <1>3, <1>4, <1>5, <1>6, <1>7, <1>8 DEF Next

(* Session implements DeviceOwner: the first row saved owns the device for  *)
(* good, and a process turns into its owner only by a resumed session or a  *)
(* login (RealmInteractor.fetchUser, handleLoginWithSignInProvider).        *)
THEOREM Implements == Spec => ImplementsDevice
BY Invariant, InitRefines, StepRefines, PTL DEF Spec, ImplementsDevice, Device!Spec

(* Once a row of User is saved, the first row is the same for good, so what *)
(* fetchUser returns never changes again, whoever logs in to Facebook.      *)
THEOREM OwnerIsForGood ==
    Spec => [][users # <<>> => users' # <<>> /\ users'[1] = users[1]]_users
<1>1. IInv /\ [Next]_vars =>
        [users # <<>> => users' # <<>> /\ users'[1] = users[1]]_users
  <2> SUFFICES ASSUME IInv, [Next]_vars, users # <<>>
               PROVE  users' # <<>> /\ users'[1] = users[1]
    OBVIOUS
  <2> DEFINE owner == IF users = <<>> THEN None ELSE users[1]
  <2>1. owner = users[1] /\ owner # None
    BY DEF IInv, TypeOK
  <2>2. [Device!Next]_Device!vars
    BY StepRefines
  <2>3. owner' = owner
    BY <2>1, <2>2 DEF Device!Next, Device!Own, Device!Restart, Device!Resume,
       Device!Login, Device!vars
  <2>4. QED
    BY <2>1, <2>3
<1>2. QED
  BY <1>1, Invariant, PTL DEF Spec
=============================================================================
