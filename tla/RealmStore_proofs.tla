-------------------------- MODULE RealmStore_proofs --------------------------
(***************************************************************************)
(* Proofs about RealmStore for any threads and any bounds: no commit is    *)
(* made on an old snapshot, no commit's wake-up is lost, and the store     *)
(* implements SnapshotStore.                                               *)
(***************************************************************************)
EXTENDS RealmStore, SequenceTheorems, TLAPS

-----------------------------------------------------------------------------
(* The inductive invariant *)

(* A thread without a live Realm is in no transaction and no call, and no   *)
(* Realm is bound to a snapshot the file does not have.                     *)
Instances ==
    /\ Latest >= 1
    /\ \A t \in Threads : version[t] <= Latest
    /\ \A t \in Threads \ open : version[t] = 0 /\ call[t] = "idle"

(* The holder of the write lock is not inside a call that wants it or that  *)
(* announces a commit.                                                      *)
LockIsQuiet == \A t \in Threads : lock = t => call[t] = "idle"

(* The listener is off exactly when no Realm lives; only a registered one   *)
(* has an event, and only live Realms are signalled.                        *)
Listener ==
    /\ helper = "off" <=> open = {}
    /\ event => Registered
    /\ signalled \subseteq open

(* The inductive invariant.                                                 *)
IInv ==
    /\ TypeOK
    /\ Instances
    /\ LockIsQuiet
    /\ Listener
    /\ WriterIsCurrent
    /\ WakeUpOnTheWay

-----------------------------------------------------------------------------
(* The history *)

(* A commit made on the whole history adds its author at the end.           *)
LEMMA CommitAppends ==
    ASSUME TypeOK, WriterIsCurrent, NEW t \in Threads, commit_write(t)
    PROVE  /\ file' = Append(file, t)
           /\ Latest' = Latest + 1
           /\ version[t] = Latest
           /\ Latest' \in Nat
<1> DEFINE S == Threads \union {NoThread}
<1>1. version[t] = Len(file)
  BY DEF WriterIsCurrent, commit_write, is_in_transaction, Latest
<1>2. file \in Seq(S)
  BY DEF TypeOK
<1>3. SubSeq(file, 1, Len(file)) = file
  BY <1>2, SubSeqFull
<1>4. file' = Append(file, t)
  BY <1>1, <1>3 DEF commit_write
<1>5. Len(Append(file, t)) = Len(file) + 1 /\ Len(file) \in Nat
  BY <1>2
<1>6. QED
  BY <1>1, <1>4, <1>5 DEF Latest

(* The length of the file is a number.                                      *)
LEMMA LatestIsNat == TypeOK => Latest \in Nat
BY DEF TypeOK, Latest

-----------------------------------------------------------------------------
(* It holds at the start and every step keeps it *)

(* No Realm is open when the app starts.                                    *)
LEMMA InitIInv == Init => IInv
<1> SUFFICES ASSUME Init PROVE IInv
  OBVIOUS
<1>1. Latest = 1
  BY DEF Init, Latest
<1>2. TypeOK
  <2>1. <<NoThread>> \in Seq(Threads \union {NoThread})
    OBVIOUS
  <2>2. 0 \in 0..PipeSize
    BY BoundsAssumption DEF BoundsAssumption
  <2>3. QED
    BY <2>1, <2>2 DEF Init, TypeOK
<1>3. Instances /\ LockIsQuiet /\ Listener
  BY <1>1 DEF Init, Instances, LockIsQuiet, Listener, Registered
<1>4. WriterIsCurrent
  BY ThreadsAssumption DEF ThreadsAssumption, Init, WriterIsCurrent, is_in_transaction
<1>5. WakeUpOnTheWay
  BY DEF Init, WakeUpOnTheWay, Behind
<1>6. QED
  BY <1>2, <1>3, <1>4, <1>5 DEF IInv

(* Every step keeps the types.                                              *)
LEMMA StepTypeOK == IInv /\ [Next]_vars => TypeOK'
<1> SUFFICES ASSUME IInv, [Next]_vars PROVE TypeOK'
  OBVIOUS
<1> USE DEF TypeOK, BindTo, pipe
<1>0. TypeOK /\ WriterIsCurrent /\ Latest \in Nat
  BY LatestIsNat DEF IInv
<1>1. 0 \in 0..PipeSize
  BY BoundsAssumption DEF BoundsAssumption
<1>2. ASSUME NEW t \in Threads,
             get_realm(t) \/ read_group(t) \/ refresh(t) \/ begin_transaction(t)
             \/ promote_to_write(t) \/ cancel_transaction(t)
      PROVE  TypeOK'
  BY <1>0, <1>2 DEF get_realm, read_group, refresh, begin_transaction, promote_to_write,
                    cancel_transaction, Idle
<1>3. ASSUME NEW t \in Threads, commit_write(t) PROVE TypeOK'
  <2>1. file' \in Seq(Threads \union {NoThread})
    BY <1>0, <1>3, CommitAppends
  <2>2. QED
    BY <1>0, <1>3, <2>1 DEF commit_write, Idle
<1>4. ASSUME NEW t \in Threads, invalidate(t) PROVE TypeOK'
  BY <1>0, <1>4 DEF invalidate, Released, Idle
<1>5. ASSUME NEW t \in Threads, close(t) PROVE TypeOK'
  <2>1. /\ file' \in Seq(Threads \union {NoThread})
        /\ lock' \in Threads \union {NoThread}
        /\ version' \in [Threads -> Nat]
        /\ open' \in SUBSET Threads /\ signalled' \in SUBSET Threads
        /\ call' \in [Threads -> {"idle", "lock", "announce", "drain"}]
    BY <1>0, <1>5 DEF close, Released
  <2>2. helper' \in {"off", "starting", "waiting", "woken"}
    BY <1>0, <1>5 DEF close
  <2>3. bytes' \in 0..PipeSize
    BY <1>0, <1>5, <1>1 DEF close
  <2>4. event' \in BOOLEAN
    <3>1. CASE open = {t}
      BY <1>5, <3>1 DEF close
    <3>2. CASE open # {t}
      BY <1>0, <1>5, <3>2 DEF close
    <3>3. QED
      BY <3>1, <3>2
  <2>5. QED
    BY <2>1, <2>2, <2>3, <2>4
<1>6. ASSUME NEW t \in Threads, notify_others(t) PROVE TypeOK'
  <2>1. call' \in [Threads -> {"idle", "lock", "announce", "drain"}]
    BY <1>0, <1>6 DEF notify_others
  <2>2. bytes' \in 0..PipeSize
    BY <1>0, <1>6, BoundsAssumption DEF BoundsAssumption, notify_others
  <2>3. event' \in BOOLEAN
    <3>1. CASE bytes < PipeSize
      BY <1>6, <3>1 DEF notify_others
    <3>2. CASE ~(bytes < PipeSize)
      BY <1>0, <1>6, <3>2 DEF notify_others
    <3>3. QED
      BY <3>1, <3>2
  <2>4. QED
    BY <1>0, <1>6, <2>1, <2>2, <2>3 DEF notify_others
<1>7. ASSUME NEW t \in Threads, drain(t) PROVE TypeOK'
  <2>1. Drained \in 0..PipeSize
    BY <1>0, BoundsAssumption DEF BoundsAssumption, Drained
  <2>2. QED
    BY <1>0, <1>7, <2>1 DEF drain, EventAfterDrain
<1>8. ASSUME NEW t \in Threads, notify(t) PROVE TypeOK'
  BY <1>0, <1>8 DEF notify
<1>9. ASSUME listen \/ kevent \/ on_change \/ Crash PROVE TypeOK'
  <2>1. CASE listen
    BY <1>0, <2>1 DEF listen
  <2>2. CASE kevent
    BY <1>0, <2>2 DEF kevent
  <2>3. CASE on_change
    BY <1>0, <2>3 DEF on_change
  <2>4. CASE Crash
    BY <1>0, <1>1, <2>4 DEF Crash
  <2>5. QED
    BY <1>9, <2>1, <2>2, <2>3, <2>4
<1>10. CASE UNCHANGED vars
  BY <1>0, <1>10 DEF vars
<1>11. QED
  BY <1>2, <1>3, <1>4, <1>5, <1>8, <1>9, <1>10, <1>6, <1>7 DEF Next

(* Every step keeps the relations between the Realms, the lock and the      *)
(* listener.                                                                *)
LEMMA StepRelations ==
    IInv /\ [Next]_vars => (Instances /\ LockIsQuiet /\ Listener /\ WriterIsCurrent)'
<1> SUFFICES ASSUME IInv, [Next]_vars
             PROVE  (Instances /\ LockIsQuiet /\ Listener /\ WriterIsCurrent)'
  OBVIOUS
<1> DEFINE Goal == Instances /\ LockIsQuiet /\ Listener /\ WriterIsCurrent
<1> USE DEF TypeOK, Instances, LockIsQuiet, Listener, WriterIsCurrent, Registered, BindTo,
            pipe, Idle, is_in_transaction
<1>0. TypeOK /\ Goal /\ Latest \in Nat
  BY LatestIsNat DEF IInv
<1>1. ASSUME file' = file PROVE Latest' = Latest
  BY <1>1 DEF Latest
<1>2. ASSUME NEW t \in Threads, get_realm(t) PROVE Goal'
  BY <1>0, <1>1, <1>2 DEF get_realm
<1>3. ASSUME NEW t \in Threads, read_group(t) \/ refresh(t) PROVE Goal'
  BY <1>0, <1>1, <1>3 DEF read_group, refresh
<1>4. ASSUME NEW t \in Threads, begin_transaction(t) PROVE Goal'
  BY <1>0, <1>1, <1>4 DEF begin_transaction
<1>5. ASSUME NEW t \in Threads, promote_to_write(t) PROVE Goal'
  BY <1>0, <1>1, <1>5 DEF promote_to_write
<1>6. ASSUME NEW t \in Threads, commit_write(t) PROVE Goal'
  <2>1. Latest' = Latest + 1 /\ version[t] = Latest /\ Latest' \in Nat
    BY <1>0, <1>6, CommitAppends
  <2>2. \A u \in Threads : lock' # u
    BY <1>6, ThreadsAssumption DEF ThreadsAssumption, commit_write
  <2>3. Instances'
    BY <1>0, <1>6, <2>1 DEF commit_write
  <2>4. Listener'
    BY <1>0, <1>6 DEF commit_write
  <2>5. QED
    BY <2>2, <2>3, <2>4
<1>7. ASSUME NEW t \in Threads, cancel_transaction(t) PROVE Goal'
  BY <1>0, <1>1, <1>7, ThreadsAssumption DEF ThreadsAssumption, cancel_transaction
<1>8. ASSUME NEW t \in Threads, invalidate(t) PROVE Goal'
  BY <1>0, <1>1, <1>8, ThreadsAssumption DEF ThreadsAssumption, invalidate, Released
<1>9. ASSUME NEW t \in Threads, close(t) PROVE Goal'
  BY <1>0, <1>1, <1>9, ThreadsAssumption DEF ThreadsAssumption, close, Released
<1>10. ASSUME NEW t \in Threads, notify_others(t) \/ drain(t) PROVE Goal'
  BY <1>0, <1>1, <1>10 DEF notify_others, drain, EventAfterDrain
<1>11. ASSUME NEW t \in Threads, notify(t) PROVE Goal'
  BY <1>0, <1>1, <1>11 DEF notify
<1>12. ASSUME listen \/ kevent \/ on_change PROVE Goal'
  BY <1>0, <1>1, <1>12 DEF listen, kevent, on_change
<1>13. ASSUME Crash PROVE Goal'
  BY <1>0, <1>1, <1>13, ThreadsAssumption DEF ThreadsAssumption, Crash
<1>14. CASE UNCHANGED vars
  BY <1>0, <1>1, <1>14 DEF vars
<1>15. QED
  BY <1>2, <1>3, <1>4, <1>5, <1>6, <1>7, <1>8, <1>9, <1>10, <1>11, <1>12, <1>13, <1>14
     DEF Next

(* Every step keeps a wake-up on the way to a Realm that is behind.         *)
LEMMA StepWakeUp == IInv /\ [Next]_vars => WakeUpOnTheWay'
<1> SUFFICES ASSUME IInv, [Next]_vars PROVE WakeUpOnTheWay'
  OBVIOUS
<1> USE DEF TypeOK, WakeUpOnTheWay, Behind, Announced, BindTo, pipe, Idle
<1>0. /\ TypeOK /\ Instances /\ Listener /\ WakeUpOnTheWay
      /\ WriterIsCurrent /\ Latest \in Nat
  BY LatestIsNat DEF IInv
<1>1. ASSUME file' = file PROVE Latest' = Latest
  BY <1>1 DEF Latest
<1>2. ASSUME NEW t \in Threads, get_realm(t) PROVE WakeUpOnTheWay'
  BY <1>0, <1>1, <1>2 DEF get_realm, Instances, Listener, Registered
<1>3. ASSUME NEW t \in Threads,
             read_group(t) \/ refresh(t) \/ begin_transaction(t) \/ promote_to_write(t)
             \/ cancel_transaction(t) \/ invalidate(t)
      PROVE  WakeUpOnTheWay'
  BY <1>0, <1>1, <1>3 DEF read_group, refresh, begin_transaction, promote_to_write,
                          cancel_transaction, invalidate
<1>4. ASSUME NEW t \in Threads, commit_write(t) PROVE WakeUpOnTheWay'
  <2>1. call'[t] = "announce"
    BY <1>0, <1>4 DEF commit_write
  <2>2. QED
    BY <2>1
<1>5. ASSUME NEW t \in Threads, close(t) PROVE WakeUpOnTheWay'
  BY <1>0, <1>1, <1>5 DEF close
<1>6. ASSUME NEW t \in Threads, notify_others(t) PROVE WakeUpOnTheWay'
  <2>1. t \in open /\ helper # "off"
    BY <1>0, <1>6 DEF notify_others, Instances, Listener
  <2>2. CASE bytes < PipeSize
    <3>1. helper = "starting" \/ Registered
      BY <1>0, <2>1 DEF Registered
    <3>2. CASE helper = "starting"
      <4>1. helper' = "starting" /\ bytes' > 0
        BY <1>0, <1>6, <2>2, <3>2 DEF notify_others
      <4>2. QED
        BY <4>1
    <3>3. CASE Registered
      <4>1. event'
        BY <1>6, <2>2, <3>3 DEF notify_others
      <4>2. QED
        BY <4>1
    <3>4. QED
      BY <3>1, <3>2, <3>3
  <2>3. CASE ~(bytes < PipeSize)
    <3>1. call'[t] = "drain"
      BY <1>0, <1>6, <2>3 DEF notify_others
    <3>2. QED
      BY <3>1
  <2>4. QED
    BY <2>2, <2>3
<1>7. ASSUME NEW t \in Threads, drain(t) PROVE WakeUpOnTheWay'
  <2>1. call'[t] = "announce"
    BY <1>0, <1>7 DEF drain
  <2>2. QED
    BY <2>1
<1>8. ASSUME NEW t \in Threads, notify(t) PROVE WakeUpOnTheWay'
  BY <1>0, <1>1, <1>8 DEF notify, is_in_transaction, WriterIsCurrent
<1>9. ASSUME listen PROVE WakeUpOnTheWay'
  BY <1>0, <1>1, <1>9 DEF listen, Listener, Registered
<1>10. ASSUME kevent PROVE WakeUpOnTheWay'
  BY <1>0, <1>1, <1>10 DEF kevent
<1>11. ASSUME on_change PROVE WakeUpOnTheWay'
  BY <1>0, <1>1, <1>11 DEF on_change
<1>12. ASSUME Crash PROVE WakeUpOnTheWay'
  BY <1>12 DEF Crash
<1>13. CASE UNCHANGED vars
  BY <1>0, <1>1, <1>13 DEF vars
<1>14. QED
  BY <1>2, <1>3, <1>4, <1>5, <1>6, <1>7, <1>8, <1>9, <1>10, <1>11, <1>12, <1>13 DEF Next

-----------------------------------------------------------------------------
(* The theorems *)

(* The inductive invariant holds in every state.                            *)
THEOREM Invariant == Spec => []IInv
<1>1. IInv /\ [Next]_vars => IInv'
  BY StepTypeOK, StepRelations, StepWakeUp DEF IInv
<1>2. QED
  BY InitIInv, <1>1, PTL DEF Spec

(* Every variable keeps its type.                                           *)
THEOREM TypeCorrect == Spec => []TypeOK
<1>1. IInv => TypeOK
  BY DEF IInv
<1>2. QED
  BY Invariant, <1>1, PTL

(* A write transaction works on the latest snapshot until it ends, so the   *)
(* commit of promote_to_write and commit_write drops nobody's rows.         *)
THEOREM WritersAreCurrent == Spec => []WriterIsCurrent
<1>1. IInv => WriterIsCurrent
  BY DEF IInv
<1>2. QED
  BY Invariant, <1>1, PTL

(* A Realm that follows the file and is behind is signalled, or its wake-up *)
(* is on the way through the pipe and the listener.                         *)
THEOREM NoWakeUpIsLost == Spec => []WakeUpOnTheWay
<1>1. IInv => WakeUpOnTheWay
  BY DEF IInv
<1>2. QED
  BY Invariant, <1>1, PTL

(* The first state of the store is one of the abstract store's.             *)
LEMMA InitRefines == Init => Store!Init
BY DEF Init, Store!Init

(* Every step of the store is one of the abstract store's, or changes       *)
(* nothing the abstract store sees.                                         *)
LEMMA StepRefines == IInv /\ [Next]_vars => [Store!Next]_(Store!vars)
<1> SUFFICES ASSUME IInv, [Next]_vars PROVE [Store!Next]_(Store!vars)
  OBVIOUS
<1> USE DEF TypeOK, BindTo, pipe, Idle, Latest, Store!vars, is_in_transaction
<1>0. TypeOK /\ Instances /\ Listener /\ WriterIsCurrent /\ Len(file) \in Nat
  BY LatestIsNat DEF IInv
<1>1. \A t \in Threads : version[t] <= Len(file) /\ Len(file) \in 1..Len(file)
  BY <1>0 DEF Instances
<1>2. ASSUME NEW t \in Threads, lock # t, UNCHANGED <<file, lock>>,
             BindTo(t, Len(file))
      PROVE  Store!Next
  <2>1. Store!Look(t)
    BY <1>0, <1>1, <1>2 DEF Store!Look
  <2>2. QED
    BY <2>1 DEF Store!Next
<1>3. ASSUME NEW t \in Threads, read_group(t) PROVE [Store!Next]_(Store!vars)
  <2>1. lock # t
    BY <1>0, <1>3 DEF read_group, WriterIsCurrent, Instances
  <2>2. QED
    BY <1>2, <1>3, <2>1 DEF read_group
<1>4. ASSUME NEW t \in Threads, refresh(t) PROVE [Store!Next]_(Store!vars)
  BY <1>2, <1>4 DEF refresh
<1>5. ASSUME NEW t \in Threads, begin_transaction(t) PROVE [Store!Next]_(Store!vars)
  <2>1. CASE version[t] = 0
    BY <1>2, <1>5, <2>1 DEF begin_transaction
  <2>2. CASE version[t] # 0
    <3>1. version' = version
      BY <1>0, <1>5, <2>2 DEF begin_transaction
    <3>2. QED
      BY <1>5, <3>1 DEF begin_transaction
  <2>3. QED
    BY <2>1, <2>2
<1>6. ASSUME NEW t \in Threads, promote_to_write(t) PROVE [Store!Next]_(Store!vars)
  <2>1. Store!BeginWrite(t)
    BY <1>6 DEF promote_to_write, Store!BeginWrite
  <2>2. QED
    BY <2>1 DEF Store!Next
<1>7. ASSUME NEW t \in Threads, commit_write(t) PROVE [Store!Next]_(Store!vars)
  <2>1. file' = Append(file, t) /\ version[t] = Len(file)
    BY <1>0, <1>7, CommitAppends
  <2>2. Store!Commit(t)
    BY <1>7, <2>1 DEF commit_write, Store!Commit
  <2>3. QED
    BY <2>2 DEF Store!Next
<1>8. ASSUME NEW t \in Threads, cancel_transaction(t) PROVE [Store!Next]_(Store!vars)
  <2>1. Store!Cancel(t)
    BY <1>8 DEF cancel_transaction, Store!Cancel
  <2>2. QED
    BY <2>1 DEF Store!Next
<1>9. ASSUME NEW t \in Threads, invalidate(t) \/ close(t) PROVE [Store!Next]_(Store!vars)
  <2>1. Store!Leave(t)
    BY <1>9 DEF invalidate, close, Released, Store!Leave
  <2>2. QED
    BY <2>1 DEF Store!Next
<1>10. ASSUME NEW t \in Threads, notify(t) PROVE [Store!Next]_(Store!vars)
  <2>1. CASE lock # t /\ version[t] > 0 /\ t \in AutoRefresh
    BY <1>2, <1>10, <2>1 DEF notify
  <2>2. CASE ~(lock # t /\ version[t] > 0 /\ t \in AutoRefresh)
    BY <1>10, <2>2 DEF notify
  <2>3. QED
    BY <2>1, <2>2
<1>11. ASSUME NEW t \in Threads, get_realm(t) \/ notify_others(t) \/ drain(t)
       PROVE  [Store!Next]_(Store!vars)
  BY <1>11 DEF get_realm, notify_others, drain
<1>12. ASSUME listen \/ kevent \/ on_change PROVE [Store!Next]_(Store!vars)
  BY <1>12 DEF listen, kevent, on_change
<1>13. ASSUME Crash PROVE [Store!Next]_(Store!vars)
  <2>1. Store!Crash
    BY <1>13 DEF Crash, Store!Crash
  <2>2. QED
    BY <2>1 DEF Store!Next
<1>14. CASE UNCHANGED vars
  BY <1>14 DEF vars
<1>15. QED
  BY <1>3, <1>4, <1>5, <1>6, <1>7, <1>8, <1>9, <1>10, <1>11, <1>12, <1>13, <1>14 DEF Next

(* The threads of the app share one growing history through snapshots that  *)
(* only move forward, with one writer at its end: the ObjectStore           *)
(* implements SnapshotStore.                                                *)
THEOREM Implements == Spec => StoreIsSnapshots
<1>1. QED
  BY Invariant, InitRefines, StepRefines, PTL DEF Spec, StoreIsSnapshots, Store!Spec

-----------------------------------------------------------------------------
(* What follows for the threads *)

(* The file is left alone, or the writer adds its commit after every commit *)
(* that was there; a thread's snapshot stays, is let go or moves forward.   *)
HistoryGrows ==
    /\ \/ UNCHANGED file
       \/ \E t \in Threads : is_in_transaction(t) /\ file' = Append(file, t)
    /\ \A t \in Threads : version'[t] = 0 \/ version'[t] >= version[t]

(* Although commit_write builds on the snapshot its Realm is bound to, and  *)
(* others commit while it waits for the lock, no commit is ever dropped     *)
(* from the file, and no Realm goes back to an older snapshot without       *)
(* letting go of its own (RealmCoordinator::commit_write,                   *)
(* SharedGroup::do_advance_read).                                           *)
THEOREM NoCommitIsDropped == Spec => [][HistoryGrows]_vars
<1>1. IInv /\ [Next]_vars => [HistoryGrows]_vars
  <2> SUFFICES ASSUME IInv, [Next]_vars PROVE HistoryGrows \/ UNCHANGED vars
    OBVIOUS
  <2>0. /\ Latest \in Nat /\ version \in [Threads -> Nat]
        /\ \A t \in Threads : version[t] <= Len(file)
    BY LatestIsNat DEF IInv, TypeOK, Instances, Latest
  <2>1. Len(file) \in Nat
    BY <2>0 DEF Latest
  <2>2. [Store!Next]_(Store!vars)
    BY StepRefines
  <2>3. CASE UNCHANGED Store!vars
    BY <2>0, <2>3 DEF Store!vars, HistoryGrows
  <2>4. ASSUME NEW t \in Threads, Store!Look(t) PROVE HistoryGrows
    BY <2>0, <2>1, <2>4 DEF Store!Look, HistoryGrows
  <2>5. ASSUME NEW t \in Threads, Store!BeginWrite(t) PROVE HistoryGrows
    BY <2>0, <2>1, <2>5 DEF Store!BeginWrite, HistoryGrows
  <2>6. ASSUME NEW t \in Threads, Store!Commit(t) PROVE HistoryGrows
    <3>1. is_in_transaction(t)
      BY <2>6 DEF Store!Commit, is_in_transaction
    <3>2. file' = Append(file, t) /\ version' = [version EXCEPT ![t] = Len(file) + 1]
      BY <2>6 DEF Store!Commit
    <3>3. \A s \in Threads : version'[s] >= version[s]
      BY <2>0, <2>1, <3>2
    <3>4. QED
      BY <3>1, <3>2, <3>3 DEF HistoryGrows
  <2>7. ASSUME NEW t \in Threads, Store!Cancel(t) \/ Store!Leave(t) PROVE HistoryGrows
    BY <2>0, <2>7 DEF Store!Cancel, Store!Leave, HistoryGrows
  <2>8. CASE Store!Crash
    BY <2>8 DEF Store!Crash, HistoryGrows
  <2>9. QED
    BY <2>2, <2>3, <2>4, <2>5, <2>6, <2>7, <2>8 DEF Store!Next
<1>2. QED
  BY <1>1, Invariant, PTL DEF Spec
=============================================================================
