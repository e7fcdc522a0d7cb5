------------------------- MODULE TripOrigin_proofs -------------------------
(***************************************************************************)
(* Proofs about the permission for any screens and any permission: what    *)
(* a proposal that replaces another one, and the block that clears the     *)
(* globals, can and cannot do to a screen that waits; and about the keys   *)
(* of the trips for any positions, any grid and keys of any length.        *)
(***************************************************************************)
EXTENDS TripOrigin, Geohash_proofs

-----------------------------------------------------------------------------
(* The inductive invariant *)

(* An answer is on its way only once the user has decided, and a decision  *)
(* is not undone while the process lives: no proposal can then take the    *)
(* globals.                                                                 *)
DecidedForGood == \A s \in Screens : BlockDue(s) => status # "notDetermined"

(* The inductive invariant.                                                 *)
IInv ==
    /\ TypeOK
    /\ DecidedForGood
    /\ NoForeignRelease
    /\ UnansweredHasReason

-----------------------------------------------------------------------------
(* The queue of blocks *)

(* Running the head of the queue leaves the other blocks due.               *)
LEMMA RunsHead ==
    ASSUME TypeOK, blocks # <<>>, blocks' = Tail(blocks), NEW s \in Screens
    PROVE  /\ BlockDue(s)' => BlockDue(s)
           /\ BlockDue(s) => \/ BlockDue(s)'
                             \/ Head(blocks).screen = s /\ Head(blocks).status \in Settled
           /\ Head(blocks) \in Block
           /\ Head(blocks).status \in Settled => BlockDue(Head(blocks).screen)
<1>1. blocks \in Seq(Block) /\ Len(blocks) \in Nat /\ Len(blocks) > 0
  BY DEF TypeOK
<1>2. Head(blocks) = blocks[1] /\ 1 \in DOMAIN blocks /\ Head(blocks) \in Block
  BY <1>1
<1>3. ASSUME NEW i \in DOMAIN blocks'
      PROVE  i + 1 \in DOMAIN blocks /\ blocks'[i] = blocks[i + 1]
  BY <1>1
<1>4. ASSUME NEW i \in DOMAIN blocks, i # 1
      PROVE  i - 1 \in DOMAIN blocks' /\ blocks'[i - 1] = blocks[i]
  <2>1. i \in 1..Len(blocks)
    BY <1>1
  <2>2. Len(blocks') = Len(blocks) - 1 /\ blocks' \in Seq(Block)
    BY <1>1
  <2>3. i - 1 \in 1..Len(blocks')
    BY <1>1, <1>4, <2>1, <2>2
  <2>4. blocks'[i - 1] = blocks[i]
    BY <1>1, <2>1, <2>2, <2>3
  <2>5. QED
    BY <2>2, <2>3, <2>4
<1>5. BlockDue(s)' => BlockDue(s)
  BY <1>3 DEF BlockDue, Settled
<1>6. BlockDue(s) => BlockDue(s)' \/ (Head(blocks).screen = s /\ Head(blocks).status \in Settled)
  <2> SUFFICES ASSUME NEW i \in DOMAIN blocks, blocks[i].screen = s, blocks[i].status \in Settled
               PROVE  BlockDue(s)' \/ (Head(blocks).screen = s /\ Head(blocks).status \in Settled)
    BY DEF BlockDue
  <2>1. CASE i = 1
    BY <2>1, <1>2
  <2>2. CASE i # 1
    BY <2>2, <1>4 DEF BlockDue, Settled
  <2>3. QED
    BY <2>1, <2>2
<1>7. Head(blocks).status \in Settled => BlockDue(Head(blocks).screen)
  BY <1>2 DEF BlockDue
<1>8. QED
  BY <1>2, <1>5, <1>6, <1>7

(* A block put on the queue is due for the delegate it tells, if the user   *)
(* has decided, and changes nothing for the others.                         *)
LEMMA QueuesLast ==
    ASSUME TypeOK, delegate \in Screens, NEW s \in Screens,
           blocks' = Append(blocks, [screen |-> delegate, status |-> status])
    PROVE  /\ blocks' \in Seq(Block)
           /\ BlockDue(s)' <=> BlockDue(s) \/ (s = delegate /\ status \in Settled)
<1> DEFINE b == [screen |-> delegate, status |-> status]
<1>1. blocks \in Seq(Block) /\ b \in Block
  BY DEF TypeOK, Block
<1>2. /\ blocks' \in Seq(Block)
      /\ Len(blocks') = Len(blocks) + 1 /\ Len(blocks) \in Nat
      /\ blocks'[Len(blocks) + 1] = b
      /\ \A i \in 1..Len(blocks) : blocks'[i] = blocks[i]
  BY <1>1
<1>3. /\ DOMAIN blocks = 1..Len(blocks)
      /\ DOMAIN blocks' = 1..(Len(blocks) + 1)
  BY <1>1, <1>2
<1>4. b.screen = delegate /\ b.status = status
  OBVIOUS
<1> HIDE DEF b
<1>5. BlockDue(s)' => BlockDue(s) \/ (s = delegate /\ status \in Settled)
  BY <1>2, <1>3, <1>4 DEF BlockDue, Settled
<1>6. BlockDue(s) => BlockDue(s)'
  BY <1>2, <1>3 DEF BlockDue, Settled
<1>7. s = delegate /\ status \in Settled => BlockDue(s)'
  <2>1. Len(blocks) + 1 \in DOMAIN blocks'
    BY <1>2, <1>3
  <2>2. QED
    BY <2>1, <1>2, <1>4 DEF BlockDue, Settled
<1>8. QED
  BY <1>2, <1>5, <1>6, <1>7

(* What leaves the globals, the permission and the answers alone and drops  *)
(* no block that is due explains every silence as before.                   *)
LEMMA SilenceKept ==
    ASSUME TypeOK, UnansweredHasReason,
           UNCHANGED <<status, pending, delegate, proposed, replaced, answers>>,
           \A u \in Screens : BlockDue(u) => BlockDue(u)'
    PROVE  UnansweredHasReason'
<1> SUFFICES ASSUME NEW u \in proposed', answers'[u] = {}
             PROVE  \/ u \in replaced'
                    \/ delegate' = u /\ (status' \in {"notDetermined", "restricted"} \/ pending')
                    \/ BlockDue(u)'
  BY DEF UnansweredHasReason
<1>1. u \in proposed /\ u \in Screens /\ answers[u] = {}
  BY DEF TypeOK
<1>2. \/ u \in replaced
      \/ delegate = u /\ (status \in {"notDetermined", "restricted"} \/ pending)
      \/ BlockDue(u)
  BY <1>1 DEF UnansweredHasReason
<1>3. QED
  BY <1>1, <1>2

-----------------------------------------------------------------------------
(* It holds at the start and every step keeps it *)

(* Nobody has proposed when the app starts.                                 *)
LEMMA InitIInv == Init => IInv
<1> SUFFICES ASSUME Init
             PROVE  IInv
  OBVIOUS
<1>1. TypeOK
  <2>1. blocks \in Seq(Block)
    BY EmptySeq DEF Init
  <2>2. QED
    BY <2>1 DEF Init, TypeOK
<1>2. \A s \in Screens : ~ BlockDue(s)
  <2>1. DOMAIN blocks = {}
    BY DEF Init
  <2>2. QED
    BY <2>1 DEF BlockDue
<1>3. DecidedForGood /\ NoForeignRelease
  BY <1>2 DEF DecidedForGood, NoForeignRelease
<1>4. UnansweredHasReason
  BY DEF Init, UnansweredHasReason
<1>5. QED
  BY <1>1, <1>3, <1>4 DEF IInv

(* A proposal that is answered at once leaves the globals alone.            *)
LEMMA ProposeKeeps ==
    ASSUME IInv, NEW s \in Screens, proposeDetermined(s) \/ proposeDisabled(s)
    PROVE  IInv'
<1> USE DEF IInv
<1>1. /\ UNCHANGED <<status, alert, pending, delegate, blocks, replaced, currentLocation>>
      /\ proposed' = proposed \union {s}
      /\ Agree(s) \/ Reject(s)
  BY DEF proposeDetermined, proposeDisabled, Propose
<1>2. TypeOK'
  BY <1>1 DEF TypeOK, Agree, Reject
<1>3. \A u \in Screens : BlockDue(u)' <=> BlockDue(u)
  BY <1>1 DEF BlockDue, Settled
<1>4. DecidedForGood' /\ NoForeignRelease'
  BY <1>1, <1>3 DEF DecidedForGood, NoForeignRelease
<1>5. answers'[s] # {} /\ \A u \in Screens \ {s} : answers'[u] = answers[u]
  BY <1>1 DEF TypeOK, Agree, Reject
<1>6. UnansweredHasReason'
  BY <1>1, <1>3, <1>5 DEF UnansweredHasReason, TypeOK
<1>7. QED
  BY <1>2, <1>4, <1>6

(* A proposal that waits takes the globals from a screen that has no answer *)
(* on its way, and counts it as replaced.                                   *)
LEMMA ProposeUndeterminedKeeps ==
    ASSUME IInv, NEW s \in Screens, proposeUndetermined(s)
    PROVE  IInv'
<1> USE DEF IInv
<1>1. /\ status = "notDetermined" /\ status' = status
      /\ proposed' = proposed \union {s}
      /\ replaced' = IF delegate = None THEN replaced ELSE replaced \union {delegate}
      /\ delegate' = s /\ pending' = TRUE /\ alert' = "requested"
      /\ UNCHANGED <<blocks, answers, updating, currentLocation>>
  BY DEF proposeUndetermined, Propose
<1>2. TypeOK'
  BY <1>1, ScreensAssumption DEF TypeOK
<1>3. \A u \in Screens : ~ BlockDue(u)' /\ ~ BlockDue(u)
  BY <1>1 DEF BlockDue, Settled, DecidedForGood
<1>4. DecidedForGood' /\ NoForeignRelease'
  BY <1>3 DEF DecidedForGood, NoForeignRelease
<1>5. UnansweredHasReason'
  <2> SUFFICES ASSUME NEW u \in proposed', answers'[u] = {}
               PROVE  \/ u \in replaced'
                      \/ delegate' = u /\ status' \in {"notDetermined", "restricted"}
    BY DEF UnansweredHasReason
  <2>1. CASE u = s
    BY <1>1, <2>1
  <2>2. CASE u # s
    <3>1. u \in proposed /\ u \in Screens /\ answers[u] = {}
      BY <1>1, <2>2 DEF TypeOK
    <3>2. u \in replaced \/ delegate = u
      BY <1>3, <3>1 DEF UnansweredHasReason
    <3>3. QED
      BY <1>1, <3>1, <3>2, ScreensAssumption
  <2>3. QED
    BY <2>1, <2>2
<1>6. QED
  BY <1>2, <1>4, <1>5

(* A new permission is told to whoever waits.                               *)
LEMMA ChangeKeeps ==
    ASSUME IInv, NEW to \in Statuses, ChangeStatus(to)
    PROVE  IInv'
<1> USE DEF IInv
<1>1. /\ status' = to /\ to # "notDetermined" /\ alert' = "none"
      /\ pending' = (delegate # None)
      /\ UNCHANGED <<delegate, blocks, proposed, replaced, answers, updating, currentLocation>>
  BY DEF ChangeStatus, screens
<1>2. TypeOK'
  BY <1>1 DEF TypeOK
<1>3. \A u \in Screens : BlockDue(u)' <=> BlockDue(u)
  BY <1>1 DEF BlockDue, Settled
<1>4. DecidedForGood' /\ NoForeignRelease'
  BY <1>1, <1>3 DEF DecidedForGood, NoForeignRelease
<1>5. UnansweredHasReason'
  <2> SUFFICES ASSUME NEW u \in proposed', answers'[u] = {}
               PROVE  u \in replaced' \/ (delegate' = u /\ pending') \/ BlockDue(u)'
    BY DEF UnansweredHasReason
  <2>1. u \in proposed /\ u \in Screens /\ answers[u] = {}
    BY <1>1 DEF TypeOK
  <2>2. u \in replaced \/ delegate = u \/ BlockDue(u)
    BY <2>1 DEF UnansweredHasReason
  <2>3. delegate = u => pending'
    BY <1>1, <2>1, ScreensAssumption
  <2>4. QED
    BY <1>1, <1>3, <2>1, <2>2, <2>3
<1>6. QED
  BY <1>2, <1>4, <1>5

(* The delegate's block is of the screen that holds the globals.            *)
LEMMA DidChangeKeeps ==
    ASSUME IInv, didChangeAuthorization
    PROVE  IInv'
<1> USE DEF IInv
<1>1. /\ pending /\ pending' = FALSE /\ delegate \in Screens
      /\ blocks' = Append(blocks, [screen |-> delegate, status |-> status])
      /\ UNCHANGED <<status, alert, delegate, proposed, replaced, answers, updating, currentLocation>>
  BY DEF didChangeAuthorization, screens, TypeOK
<1>2. ASSUME NEW u \in Screens
      PROVE  BlockDue(u)' <=> BlockDue(u) \/ (u = delegate /\ status \in Settled)
  BY <1>1, QueuesLast
<1>3. blocks' \in Seq(Block)
  BY <1>1, QueuesLast
<1>4. TypeOK'
  BY <1>1, <1>3 DEF TypeOK
<1>5. DecidedForGood' /\ NoForeignRelease'
  BY <1>1, <1>2 DEF DecidedForGood, NoForeignRelease, Settled
<1>6. UnansweredHasReason'
  BY <1>1, <1>2 DEF UnansweredHasReason, Settled, TypeOK, Statuses
<1>7. QED
  BY <1>4, <1>5, <1>6

(* A block that clears the globals clears its own, or finds them clear.     *)
LEMMA AnswerKeeps ==
    ASSUME IInv, answer
    PROVE  IInv'
<1> USE DEF IInv
<1> DEFINE s == Head(blocks).screen
<1> DEFINE told == Head(blocks).status
<1>1. /\ blocks # <<>> /\ blocks' = Tail(blocks)
      /\ UNCHANGED <<status, alert, proposed, replaced, currentLocation>>
  BY DEF answer
<1>2. s \in Screens /\ told \in Statuses
  <2>1. Head(blocks) \in Block
    BY <1>1 DEF TypeOK
  <2>2. QED
    BY <2>1 DEF Block
<1>3. ASSUME NEW u \in Screens
      PROVE  /\ BlockDue(u)' => BlockDue(u)
             /\ BlockDue(u) => BlockDue(u)' \/ (s = u /\ told \in Settled)
  BY <1>1, RunsHead
<1>4. told \in Settled => BlockDue(s)
  BY <1>1, <1>2, RunsHead
<1>5. blocks' \in Seq(Block)
  BY <1>1 DEF TypeOK
<1>6. CASE told \in Settled
  <2>1. (Agree(s) \/ Reject(s)) /\ delegate' = None /\ pending' = FALSE
    BY <1>6 DEF answer, Settled, Clear
  <2>2. delegate \in {s, None}
    BY <1>2, <1>4, <1>6 DEF NoForeignRelease
  <2>3. answers'[s] # {} /\ \A u \in Screens \ {s} : answers'[u] = answers[u]
    BY <1>2, <2>1 DEF TypeOK, Agree, Reject
  <2>4. TypeOK'
    <3>1. /\ answers' \in [Screens -> SUBSET {"agreed", "rejected"}]
          /\ updating' \in SUBSET Screens
      <4> HIDE DEF s, told
      <4>1. QED
        BY <1>2, <2>1 DEF TypeOK, Agree, Reject
    <3>2. QED
      BY <1>1, <1>5, <2>1, <3>1 DEF TypeOK
  <2> HIDE DEF s, told
  <2>5. DecidedForGood' /\ NoForeignRelease'
    BY <1>1, <1>3, <2>1 DEF DecidedForGood, NoForeignRelease
  <2>6. UnansweredHasReason'
    <3> SUFFICES ASSUME NEW u \in proposed', answers'[u] = {}
                 PROVE  u \in replaced' \/ BlockDue(u)'
      BY DEF UnansweredHasReason
    <3>1. u \in proposed /\ u \in Screens /\ u # s /\ answers[u] = {}
      BY <1>1, <2>3 DEF TypeOK
    <3>2. u \in replaced \/ delegate = u \/ BlockDue(u)
      BY <3>1 DEF UnansweredHasReason
    <3>3. delegate # u
      BY <2>2, <3>1, ScreensAssumption
    <3>4. QED
      BY <1>1, <1>3, <3>1, <3>2, <3>3
  <2>7. QED
    BY <2>4, <2>5, <2>6
<1>7. CASE told \notin Settled
  <2>1. UNCHANGED <<answers, updating, delegate, pending>>
    BY <1>7 DEF answer, Settled
  <2>2. TypeOK'
    BY <1>1, <1>5, <2>1 DEF TypeOK
  <2> HIDE DEF s, told
  <2>3. DecidedForGood' /\ NoForeignRelease'
    BY <1>1, <1>3, <2>1 DEF DecidedForGood, NoForeignRelease
  <2>4. UnansweredHasReason'
    <3>1. ASSUME NEW u \in Screens
          PROVE  BlockDue(u) => BlockDue(u)'
      BY <1>3, <1>7
    <3>2. QED
      BY <1>1, <2>1, <3>1, SilenceKept
  <2>5. QED
    BY <2>2, <2>3, <2>4
<1>8. QED
  BY <1>6, <1>7

(* The alert and the positions change nothing that an answer depends on.    *)
LEMMA OutsideKeeps ==
    ASSUME IInv,
           \/ ShowAlert \/ DismissAlert
           \/ \E s \in Screens, p \in Positions : didUpdateLocations(s, p)
    PROVE  IInv'
<1> USE DEF IInv
<1>1. UNCHANGED <<status, pending, delegate, blocks, proposed, replaced, answers>>
  BY DEF ShowAlert, DismissAlert, didUpdateLocations, screens
<1>2. TypeOK'
  BY DEF ShowAlert, DismissAlert, didUpdateLocations, screens, TypeOK
<1>3. \A u \in Screens : BlockDue(u)' <=> BlockDue(u)
  BY <1>1 DEF BlockDue, Settled
<1>4. DecidedForGood' /\ NoForeignRelease'
  BY <1>1, <1>3 DEF DecidedForGood, NoForeignRelease
<1>5. UnansweredHasReason'
  BY <1>1, <1>3, SilenceKept
<1>6. QED
  BY <1>2, <1>4, <1>5

(* A new process has no proposals and no blocks.                            *)
LEMMA RelaunchKeeps ==
    ASSUME IInv, Relaunch
    PROVE  IInv'
<1> USE DEF IInv
<1>1. TypeOK'
  <2>1. blocks' \in Seq(Block)
    BY EmptySeq DEF Relaunch
  <2>2. status' \in Statuses
    BY DEF Relaunch, TypeOK, Statuses
  <2>3. QED
    BY <2>1, <2>2 DEF Relaunch, TypeOK
<1>2. \A u \in Screens : ~ BlockDue(u)'
  <2>1. DOMAIN blocks' = {}
    BY DEF Relaunch
  <2>2. QED
    BY <2>1 DEF BlockDue
<1>3. DecidedForGood' /\ NoForeignRelease'
  BY <1>2 DEF DecidedForGood, NoForeignRelease
<1>4. UnansweredHasReason'
  BY DEF Relaunch, UnansweredHasReason
<1>5. QED
  BY <1>1, <1>3, <1>4

(* Every step keeps the invariant.                                          *)
LEMMA NextIInv == IInv /\ [Next]_vars => IInv'
<1> SUFFICES ASSUME IInv, [Next]_vars
             PROVE  IInv'
  OBVIOUS
<1>1. ASSUME NEW s \in Screens, proposeDetermined(s) \/ proposeDisabled(s)
      PROVE  IInv'
  BY <1>1, ProposeKeeps
<1>2. ASSUME NEW s \in Screens, proposeUndetermined(s)
      PROVE  IInv'
  BY <1>2, ProposeUndeterminedKeeps
<1>3. CASE \/ ShowAlert \/ DismissAlert
           \/ \E s \in Screens, p \in Positions : didUpdateLocations(s, p)
  BY <1>3, OutsideKeeps
<1>4. ASSUME NEW to \in Statuses, ChangeStatus(to)
      PROVE  IInv'
  BY <1>4, ChangeKeeps
<1>5. CASE didChangeAuthorization
  BY <1>5, DidChangeKeeps
<1>6. CASE answer
  BY <1>6, AnswerKeeps
<1>7. CASE Relaunch
  BY <1>7, RelaunchKeeps
<1>8. CASE UNCHANGED vars
  BY <1>8 DEF vars, IInv, TypeOK, DecidedForGood, NoForeignRelease,
              UnansweredHasReason, BlockDue
<1>9. QED
  BY <1>1, <1>2, <1>3, <1>4, <1>5, <1>6, <1>7, <1>8 DEF Next

(* The invariant of the permission.                                         *)
LEMMA Invariant == Spec => []IInv
<1>1. QED
  BY InitIInv, NextIInv, PTL DEF Spec

-----------------------------------------------------------------------------
(* The composition *)

(* Trips only read what the permission does: the whole is an instance of    *)
(* the part.                                                                *)
LEMMA OriginImplementsPermission == OriginSpec => Spec
<1>1. OriginInit => Init
  BY DEF OriginInit
<1>2. [OriginNext]_allVars => [Next]_vars
  <2> SUFFICES ASSUME [OriginNext]_allVars
               PROVE  [Next]_vars
    OBVIOUS
  <2>1. ASSUME NEW s \in Screens, prepare(s) \/ requestButtonPressed(s)
        PROVE  UNCHANGED vars
    BY <2>1 DEF prepare, requestButtonPressed
  <2>2. CASE UNCHANGED allVars
    BY <2>2 DEF allVars
  <2>3. QED
    BY <2>1, <2>2 DEF OriginNext, Located, Next
<1>3. QED
  BY <1>1, <1>2, PTL DEF OriginSpec, Spec

(* The variables of proposeToAccess and its callers keep their types for    *)
(* any screens, and nothing is pending without a delegate.                  *)
THEOREM TypeCorrect == OriginSpec => []TypeOK
<1>1. IInv => TypeOK
  BY DEF IInv
<1>2. QED
  BY <1>1, Invariant, OriginImplementsPermission, PTL

(* A block that sets the globals to nil, whosever they are, never takes the *)
(* manager and the delegate of another screen that waits.                   *)
THEOREM ReleaseIsOwn == OriginSpec => []NoForeignRelease
<1>1. IInv => NoForeignRelease
  BY DEF IInv
<1>2. QED
  BY <1>1, Invariant, OriginImplementsPermission, PTL

(* A screen whose closures were not called was replaced, or the user has    *)
(* not decided, or its answer is on the way.                                *)
THEOREM SilenceIsExplained == OriginSpec => []UnansweredHasReason
<1>1. IInv => UnansweredHasReason
  BY DEF IInv
<1>2. QED
  BY <1>1, Invariant, OriginImplementsPermission, PTL

-----------------------------------------------------------------------------
(* Trips and keys *)

(* A trip from p, without its key or with the one of p.                     *)
Trip(p) == {[origin |-> p, geohash |-> <<>>],
            [origin |-> p, geohash |-> encode(p.lat, p.lon, KeyLength)]}

(* The inductive invariant: a trip keeps the position it was made at and    *)
(* the key, once it has one, is that position's.                            *)
KeysAreOrigins ==
    /\ DOMAIN trip = Screens
    /\ \A s \in Screens : trip[s] = None \/ \E p \in Positions : trip[s] \in Trip(p)

(* It holds as long as the locations are of the type that the permission    *)
(* keeps them to.                                                           *)
LEMMA TripsKeepKeys == OriginSpec => []KeysAreOrigins
<1>1. OriginInit => KeysAreOrigins
  BY DEF OriginInit, KeysAreOrigins
<1>2. TypeOK /\ KeysAreOrigins /\ [OriginNext]_allVars => KeysAreOrigins'
  <2> SUFFICES ASSUME TypeOK, KeysAreOrigins, [OriginNext]_allVars
               PROVE  KeysAreOrigins'
    OBVIOUS
  <2>1. ASSUME NEW s \in Screens, prepare(s)
        PROVE  KeysAreOrigins'
    <3>1. currentLocation[s] \in Positions
      BY <2>1 DEF prepare, TypeOK
    <3>2. trip' = [trip EXCEPT ![s] = [origin |-> currentLocation[s], geohash |-> <<>>]]
      BY <2>1 DEF prepare
    <3>3. \A t \in Screens : trip'[t] = IF t = s THEN [origin |-> currentLocation[s], geohash |-> <<>>]
                                                 ELSE trip[t]
      BY <3>2 DEF KeysAreOrigins
    <3>4. QED
      BY <3>1, <3>2, <3>3 DEF KeysAreOrigins, Trip
  <2>2. ASSUME NEW s \in Screens, requestButtonPressed(s)
        PROVE  KeysAreOrigins'
    <3>1. PICK p \in Positions : trip[s] \in Trip(p)
      BY <2>2 DEF requestButtonPressed, KeysAreOrigins
    <3>2. trip[s].origin = p
      BY <3>1 DEF Trip
    <3> DEFINE key == encode(p.lat, p.lon, KeyLength)
    <3>3. trip' = [trip EXCEPT ![s].geohash = key]
      BY <2>2, <3>2 DEF requestButtonPressed
    <3> HIDE DEF key
    <3>4. [trip[s] EXCEPT !.geohash = key] = [origin |-> p, geohash |-> key]
      BY <3>1 DEF Trip
    <3>5. \A t \in Screens : trip'[t] = IF t = s THEN [origin |-> p, geohash |-> key] ELSE trip[t]
      BY <3>3, <3>4 DEF KeysAreOrigins
    <3>6. [origin |-> p, geohash |-> key] \in Trip(p)
      BY DEF Trip, key
    <3>7. QED
      BY <3>3, <3>5, <3>6 DEF KeysAreOrigins
  <2>3. CASE Relaunch /\ trip' = [s \in Screens |-> None]
    BY <2>3 DEF KeysAreOrigins
  <2>4. CASE UNCHANGED trip
    BY <2>4 DEF KeysAreOrigins
  <2>5. QED
    BY <2>1, <2>2, <2>3, <2>4 DEF OriginNext, Located, allVars
<1>3. OriginSpec => []TypeOK
  BY TypeCorrect
<1>4. QED
  BY <1>1, <1>2, <1>3, PTL DEF OriginSpec

(* The key of an origin decodes to the cell of the origin.                  *)
LEMMA KeyDecodesToCell ==
    ASSUME NEW p \in Positions
    PROVE  decode(encode(p.lat, p.lon, KeyLength), None) = Cell(p)
<1>1. p.lat \in (-Side)..Side /\ p.lon \in (-Side)..Side /\ KeyLength \in Nat
  BY GridAssumption, KeyLengthAssumption
<1>2. decode(encode(p.lat, p.lon, KeyLength), None) =
        [longitude |-> Strip(p.lon, (5 * KeyLength + 1) \div 2),
         latitude  |-> Strip(p.lat, (5 * KeyLength) \div 2)]
  BY <1>1, ExactAssumption, CodeIsCell
<1>3. QED
  BY <1>2 DEF Cell

(* Origins of one cell have one key.                                        *)
LEMMA OneCellOneKey ==
    ASSUME NEW p \in Positions, NEW q \in Positions, Cell(p) = Cell(q)
    PROVE  encode(p.lat, p.lon, KeyLength) = encode(q.lat, q.lon, KeyLength)
<1>1. /\ p.lat \in (-Side)..Side /\ p.lon \in (-Side)..Side
      /\ q.lat \in (-Side)..Side /\ q.lon \in (-Side)..Side
      /\ KeyLength \in Nat
  BY GridAssumption, KeyLengthAssumption
<1>2. /\ Strip(p.lon, (5 * KeyLength + 1) \div 2) = Strip(q.lon, (5 * KeyLength + 1) \div 2)
      /\ Strip(p.lat, (5 * KeyLength) \div 2) = Strip(q.lat, (5 * KeyLength) \div 2)
  <2>1. /\ Cell(p).longitude = Strip(p.lon, (5 * KeyLength + 1) \div 2)
        /\ Cell(q).longitude = Strip(q.lon, (5 * KeyLength + 1) \div 2)
        /\ Cell(p).latitude = Strip(p.lat, (5 * KeyLength) \div 2)
        /\ Cell(q).latitude = Strip(q.lat, (5 * KeyLength) \div 2)
    BY DEF Cell
  <2>2. QED
    BY <2>1
<1>3. QED
  BY <1>1, <1>2, ExactAssumption, CellHasOneCode

(* What is uploaded has a position of the grid and the key of it.           *)
LEMMA UploadedHasKey ==
    ASSUME KeysAreOrigins, NEW s \in Screens, Uploaded(s)
    PROVE  /\ trip[s].origin \in Positions
           /\ trip[s].geohash = encode(trip[s].origin.lat, trip[s].origin.lon, KeyLength)
<1>1. PICK p \in Positions : trip[s] \in Trip(p)
  BY DEF Uploaded, KeysAreOrigins
<1>2. trip[s].origin = p /\ trip[s].geohash \in {<<>>, encode(p.lat, p.lon, KeyLength)}
  BY <1>1 DEF Trip
<1>3. QED
  BY <1>2 DEF Uploaded

(* A trip's key decodes to the cell that holds the trip's origin, in every  *)
(* reachable state, for every length of key the grid is exact for.          *)
THEOREM KeysAreCells == OriginSpec => []KeyIsOriginsCell
<1>1. KeysAreOrigins => KeyIsOriginsCell
  <2> SUFFICES ASSUME KeysAreOrigins, NEW s \in Screens, Uploaded(s)
               PROVE  decode(trip[s].geohash, None) = Cell(trip[s].origin)
    BY DEF KeyIsOriginsCell
  <2> DEFINE p == trip[s].origin
  <2>1. p \in Positions /\ trip[s].geohash = encode(p.lat, p.lon, KeyLength)
    BY UploadedHasKey
  <2> HIDE DEF p
  <2>2. decode(trip[s].geohash, None) = Cell(p)
    BY <2>1, KeyDecodesToCell
  <2>3. QED
    BY <2>2 DEF p
<1>2. QED
  BY <1>1, TripsKeepKeys, PTL

(* Two trips have one key exactly if their origins share a cell.            *)
THEOREM KeysMeetInCells == OriginSpec => []SameKeySameCell
<1>1. KeysAreOrigins => SameKeySameCell
  <2> SUFFICES ASSUME KeysAreOrigins, NEW s \in Screens, NEW t \in Screens,
                      Uploaded(s), Uploaded(t)
               PROVE  trip[s].geohash = trip[t].geohash
                        <=> Cell(trip[s].origin) = Cell(trip[t].origin)
    BY DEF SameKeySameCell
  <2> DEFINE p == trip[s].origin
             q == trip[t].origin
  <2>1. p \in Positions /\ trip[s].geohash = encode(p.lat, p.lon, KeyLength)
    BY UploadedHasKey
  <2>2. q \in Positions /\ trip[t].geohash = encode(q.lat, q.lon, KeyLength)
    BY UploadedHasKey
  <2> HIDE DEF p, q
  <2>3. ASSUME trip[s].geohash = trip[t].geohash PROVE Cell(p) = Cell(q)
    <3>1. decode(trip[s].geohash, None) = Cell(p)
      BY <2>1, KeyDecodesToCell
    <3>2. decode(trip[t].geohash, None) = Cell(q)
      BY <2>2, KeyDecodesToCell
    <3>3. QED
      BY <2>3, <3>1, <3>2
  <2>4. ASSUME Cell(p) = Cell(q) PROVE trip[s].geohash = trip[t].geohash
    BY <2>1, <2>2, <2>4, OneCellOneKey
  <2>5. QED
    BY <2>3, <2>4 DEF p, q
<1>2. QED
  BY <1>1, TripsKeepKeys, PTL

(* Trips of one key start in the cell the key decodes to: what a query by   *)
(* key brings together is no farther apart than the cell's edges.           *)
KeyHoldsOrigins ==
    \A s, t \in Screens :
        Uploaded(s) /\ Uploaded(t) /\ trip[s].geohash = trip[t].geohash =>
            LET cell == decode(trip[s].geohash, None)
            IN  /\ Holds(cell.longitude, trip[t].origin.lon)
                /\ Holds(cell.latitude, trip[t].origin.lat)

(* It holds in every reachable state (ConfigureTripVC.requestButtonPressed, *)
(* Geohash.decode).                                                         *)
THEOREM OneKeyIsOnePlace == OriginSpec => []KeyHoldsOrigins
<1>1. KeysAreOrigins => KeyHoldsOrigins
  <2> SUFFICES ASSUME KeysAreOrigins, NEW s \in Screens, NEW t \in Screens,
                      Uploaded(s), Uploaded(t), trip[s].geohash = trip[t].geohash
               PROVE  LET cell == decode(trip[s].geohash, None)
                      IN  /\ Holds(cell.longitude, trip[t].origin.lon)
                          /\ Holds(cell.latitude, trip[t].origin.lat)
    BY DEF KeyHoldsOrigins
  <2> DEFINE p == trip[t].origin
             key == encode(p.lat, p.lon, KeyLength)
             cell == decode(key, None)
  <2>1. p \in Positions /\ trip[t].geohash = key
    BY UploadedHasKey
  <2>2. p.lat \in (-Side)..Side /\ p.lon \in (-Side)..Side /\ KeyLength \in Nat
    BY <2>1, GridAssumption, KeyLengthAssumption
  <2>3. Holds(cell.longitude, p.lon) /\ Holds(cell.latitude, p.lat)
    <3> HIDE DEF p
    <3>1. QED
      BY <2>2, ExactAssumption, CellHoldsPosition
  <2> HIDE DEF key
  <2>4. trip[s].geohash = key
    BY <2>1
  <2>5. QED
    BY <2>3, <2>4
<1>2. QED
  BY <1>1, TripsKeepKeys, PTL
=============================================================================
