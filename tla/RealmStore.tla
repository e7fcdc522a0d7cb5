----------------------------- MODULE RealmStore -----------------------------
(***************************************************************************)
(* The Realm file of the app as its threads share it: Realm's ObjectStore, *)
(* with a Realm instance per thread, the coordinator that owns them, the   *)
(* named pipe through which a commit is announced, the listener thread     *)
(* that waits on the pipe, and the run loop source by which it wakes each  *)
(* thread's Realm.                                                         *)
(*                                                                         *)
(* The main thread has a run loop and keeps its Realm open, because the    *)
(* trip list holds managed objects; the AWS SDK calls back on threads of   *)
(* its own that open a Realm, write and let it go.                         *)
(*                                                                         *)
(* The app registers no notification block and observes no collection, so  *)
(* the callbacks of the binding context do nothing and the collection      *)
(* notifiers are absent; m_is_sending_notifications, which only such a     *)
(* callback can see set, is left out with them.                            *)
(***************************************************************************)
EXTENDS Sequences, Naturals

CONSTANTS
    Threads,
    NoThread,
    RunLoops,       \* the threads that turn a run loop
    AutoRefresh,    \* the threads whose Realm has m_auto_refresh, the default
    MaxCommits,     \* bound: commits made after the tables
    PipeSize,       \* bytes the pipe's buffer holds
    Chunk           \* bytes that notify_fd reads to make room

ASSUME ThreadsAssumption ==
    /\ NoThread \notin Threads
    /\ RunLoops \subseteq Threads
    /\ AutoRefresh \subseteq Threads
ASSUME BoundsAssumption ==
    /\ MaxCommits \in Nat
    /\ PipeSize \in Nat \ {0}
    /\ Chunk \in Nat \ {0}

VARIABLES
    file,       \* the authors of the commits in the file, oldest first
    lock,       \* the thread that holds the file's write lock
    open,       \* the threads with a live Realm, all of them registered
    version,    \* the snapshot each Realm is bound to; 0 when m_group is null
    call,       \* where a thread is inside begin_transaction or commit_write
    helper,     \* the listener thread
    bytes,      \* bytes in the named pipe
    event,      \* kqueue has an event for the listener
    signalled   \* the threads whose run loop source is signalled

vars == <<file, lock, open, version, call, helper, bytes, event, signalled>>
pipe == <<helper, bytes, event, signalled>>

TypeOK ==
    /\ file \in Seq(Threads \union {NoThread})
    /\ lock \in Threads \union {NoThread}
    /\ open \in SUBSET Threads
    /\ version \in [Threads -> Nat]
    /\ call \in [Threads -> {"idle", "lock", "announce", "drain"}]
    /\ helper \in {"off", "starting", "waiting", "woken"}
    /\ bytes \in 0..PipeSize
    /\ event \in BOOLEAN
    /\ signalled \in SUBSET Threads

Init ==
    /\ file = <<NoThread>>
    /\ lock = NoThread
    /\ open = {}
    /\ version = [t \in Threads |-> 0]
    /\ call = [t \in Threads |-> "idle"]
    /\ helper = "off"
    /\ bytes = 0
    /\ event = FALSE
    /\ signalled = {}

Latest == Len(file)

Idle(t) == t \in open /\ call[t] = "idle"

is_in_transaction(t) == lock = t

BindTo(t, v) == version' = [version EXCEPT ![t] = v]

\* realmWithConfiguration: a thread without a live Realm gets one, in no
\* transaction; the first of the process starts the listener thread.
get_realm(t) ==
    /\ t \notin open
    /\ open' = open \union {t}
    /\ helper' = IF open = {} THEN "starting" ELSE helper
    /\ UNCHANGED <<file, lock, version, call, bytes, event, signalled>>

\* The first access to the data binds the Realm to the latest snapshot; a
\* later one stays on the snapshot it has.
read_group(t) ==
    /\ Idle(t) /\ version[t] = 0
    /\ BindTo(t, Latest)
    /\ UNCHANGED <<file, lock, open, call, pipe>>

refresh(t) ==
    /\ Idle(t) /\ ~is_in_transaction(t)
    /\ BindTo(t, Latest)
    /\ UNCHANGED <<file, lock, open, call, pipe>>

\* begin_transaction up to the write lock, for which the thread blocks.
begin_transaction(t) ==
    /\ Idle(t) /\ ~is_in_transaction(t)
    /\ BindTo(t, IF version[t] = 0 THEN Latest ELSE version[t])
    /\ call' = [call EXCEPT ![t] = "lock"]
    /\ UNCHANGED <<file, lock, open, pipe>>

promote_to_write_as_read(t) ==   \* mutant: the snapshot stays the old one
    /\ call[t] = "lock"
    /\ lock = NoThread
    /\ lock' = t
    /\ call' = [call EXCEPT ![t] = "idle"]
    /\ UNCHANGED <<file, open, version, pipe>>

\* The lock is free: take it, and advance to the latest snapshot under it.
promote_to_write(t) ==
    /\ call[t] = "lock"
    /\ lock = NoThread
    /\ lock' = t
    /\ BindTo(t, Latest)
    /\ call' = [call EXCEPT ![t] = "idle"]
    /\ UNCHANGED <<file, open, pipe>>

\* commit_write up to notify_others: what is written is the writer's snapshot
\* with its own changes, and the writer goes on reading it.
commit_write(t) ==
    /\ Idle(t) /\ is_in_transaction(t)
    /\ Latest <= MaxCommits
    /\ file' = Append(SubSeq(file, 1, version[t]), t)
    /\ BindTo(t, version[t] + 1)
    /\ lock' = NoThread
    /\ call' = [call EXCEPT ![t] = "announce"]
    /\ UNCHANGED <<open, pipe>>

cancel_transaction(t) ==
    /\ Idle(t) /\ is_in_transaction(t)
    /\ lock' = NoThread
    /\ UNCHANGED <<file, open, version, call, pipe>>

Released(t) == IF is_in_transaction(t) THEN NoThread ELSE lock

invalidate(t) ==
    /\ Idle(t)
    /\ lock' = Released(t)
    /\ BindTo(t, 0)
    /\ UNCHANGED <<file, open, call, pipe>>

close_in_transaction(t) ==   \* mutant: the write lock stays taken
    /\ Idle(t)
    /\ BindTo(t, 0)
    /\ open' = open \ {t}
    /\ signalled' = signalled \ {t}
    /\ IF open = {t}
         THEN helper' = "off" /\ bytes' = 0 /\ event' = FALSE
         ELSE UNCHANGED <<helper, bytes, event>>
    /\ UNCHANGED <<file, lock, call>>

\* The last reference goes: a write transaction is cancelled, the Realm leaves
\* the coordinator's list with its run loop source, and the last Realm of the
\* process takes the coordinator and the listener thread with it.
close(t) ==
    /\ Idle(t)
    /\ lock' = Released(t)
    /\ BindTo(t, 0)
    /\ open' = open \ {t}
    /\ signalled' = signalled \ {t}
    /\ IF open = {t}
         THEN helper' = "off" /\ bytes' = 0 /\ event' = FALSE
         ELSE UNCHANGED <<helper, bytes, event>>
    /\ UNCHANGED <<file, call>>

Registered == helper \in {"waiting", "woken"}

notify_others_unbounded(t) ==   \* mutant: the pipe's size is not looked at
    /\ call[t] = "announce"
    /\ bytes' = bytes + 1
    /\ event' = (event \/ Registered)
    /\ call' = [call EXCEPT ![t] = "idle"]
    /\ UNCHANGED <<file, lock, open, version, helper, signalled>>

\* notify_fd: a byte goes into the pipe, which is an event for a registered
\* listener; when the pipe is full, some of what it holds is read first.
notify_others(t) ==
    /\ call[t] = "announce"
    /\ IF bytes < PipeSize
         THEN /\ bytes' = bytes + 1
              /\ event' = (event \/ Registered)
              /\ call' = [call EXCEPT ![t] = "idle"]
         ELSE /\ call' = [call EXCEPT ![t] = "drain"]
              /\ UNCHANGED <<bytes, event>>
    /\ UNCHANGED <<file, lock, open, version, helper, signalled>>

Drained == IF bytes > Chunk THEN bytes - Chunk ELSE 0

\* An event for a pipe that is empty again may be dropped by the kernel.
EventAfterDrain == IF Drained = 0 THEN {event, FALSE} ELSE {event}

drain_and_return(t) ==   \* mutant: nothing is written after making room
    /\ call[t] = "drain"
    /\ bytes' = Drained
    /\ event' \in EventAfterDrain
    /\ call' = [call EXCEPT ![t] = "idle"]
    /\ UNCHANGED <<file, lock, open, version, helper, signalled>>

drain(t) ==
    /\ call[t] = "drain"
    /\ bytes' = Drained
    /\ event' \in EventAfterDrain
    /\ call' = [call EXCEPT ![t] = "announce"]
    /\ UNCHANGED <<file, lock, open, version, helper, signalled>>

\* The listener thread runs and registers with kqueue, which reports what is
\* already in the pipe.
listen ==
    /\ helper = "starting"
    /\ helper' = "waiting"
    /\ event' = (bytes > 0)
    /\ UNCHANGED <<file, lock, open, version, call, bytes, signalled>>

\* kevent returns: EV_CLEAR, so all the writes since the last time are one.
kevent ==
    /\ helper = "waiting" /\ event
    /\ helper' = "woken"
    /\ event' = FALSE
    /\ UNCHANGED <<file, lock, open, version, call, bytes, signalled>>

\* Signals the run loop source of every registered Realm.
on_change ==
    /\ helper = "woken"
    /\ helper' = "waiting"
    /\ signalled' = open
    /\ UNCHANGED <<file, lock, open, version, call, bytes, event>>

notify_without_advance(t) ==   \* mutant: the wake-up is only consumed
    /\ t \in RunLoops \intersect signalled
    /\ Idle(t)
    /\ signalled' = signalled \ {t}
    /\ UNCHANGED <<file, lock, open, version, call, helper, bytes, event>>

\* The run loop of t performs the source: outside a write transaction, a Realm
\* that is in a read transaction and refreshes itself moves to the latest.
notify(t) ==
    /\ t \in RunLoops \intersect signalled
    /\ Idle(t)
    /\ signalled' = signalled \ {t}
    /\ IF ~is_in_transaction(t) /\ version[t] > 0 /\ t \in AutoRefresh
         THEN BindTo(t, Latest)
         ELSE UNCHANGED version
    /\ UNCHANGED <<file, lock, open, call, helper, bytes, event>>

\* The process dies: the commits stay in the file, all else goes.
Crash ==
    /\ lock' = NoThread
    /\ open' = {}
    /\ version' = [t \in Threads |-> 0]
    /\ call' = [t \in Threads |-> "idle"]
    /\ helper' = "off" /\ bytes' = 0 /\ event' = FALSE /\ signalled' = {}
    /\ UNCHANGED file

Next ==
    \/ \E t \in Threads :
         \/ get_realm(t) \/ read_group(t) \/ refresh(t)
         \/ begin_transaction(t) \/ promote_to_write(t)
         \/ commit_write(t) \/ cancel_transaction(t)
         \/ invalidate(t) \/ close(t)
         \/ notify_others(t) \/ drain(t) \/ notify(t)
    \/ listen \/ kevent \/ on_change
    \/ Crash

Spec == Init /\ [][Next]_vars

\* The listener thread is scheduled, run loops turn, and a thread inside
\* notify_others goes on: none of them waits for anything but the scheduler.
\* Nothing is assumed of the write lock, or of when the app reads or writes.
Fairness ==
    /\ WF_vars(listen) /\ WF_vars(kevent) /\ WF_vars(on_change)
    /\ \A t \in Threads : WF_vars(notify_others(t)) /\ WF_vars(drain(t))
    /\ \A t \in RunLoops : WF_vars(notify(t))

FairSpec == Spec /\ Fairness
-----------------------------------------------------------------------------
\* One writer at a time, and it works on the latest snapshot for as long as it
\* writes: no commit can drop the rows of another thread's.
WriterIsCurrent ==
    \A t \in Threads :
        is_in_transaction(t) => t \in open /\ version[t] = Latest

\* A Realm that is to follow the file and does not show its latest commit.
Behind(t) ==
    t \in open \intersect RunLoops \intersect AutoRefresh /\ version[t] \in 1..(Latest - 1)

\* A wake-up on its way to every run loop: being announced, unread in the pipe,
\* or taken by the listener.
Announced ==
    \/ \E t \in Threads : call[t] \in {"announce", "drain"}
    \/ helper = "starting" /\ bytes > 0
    \/ event \/ helper = "woken"

\* No commit is lost between two wake-ups, however they are coalesced, consumed
\* during a write, or sent before the listener listens: a Realm that is behind
\* is signalled or will be.
WakeUpOnTheWay ==
    \A t \in Threads : Behind(t) => t \in signalled \/ Announced

\* The run loop threads come to see every commit, whatever the writers do,
\* unless they leave the snapshot or stand at the write lock, past which they
\* advance.
RunLoopsCatchUp ==
    \A t \in RunLoops \intersect AutoRefresh : \A n \in 1..(MaxCommits + 1) :
        (Latest >= n) ~> (version[t] >= n \/ version[t] = 0 \/ call[t] = "lock")

\* The threads see one growing history through monotone snapshots, whatever
\* crashes: the store implements SnapshotStore.
Store == INSTANCE SnapshotStore WITH view <- version, writer <- lock
StoreIsSnapshots == Store!Spec
=============================================================================
