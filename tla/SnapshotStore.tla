---------------------------- MODULE SnapshotStore ----------------------------
(***************************************************************************)
(* What a Realm file promises the threads of the app: the file is the      *)
(* history of its commits, a reader sees a prefix of that history and only *)
(* ever moves forward along it, and there is one writer at a time, which   *)
(* starts from the whole history and adds one commit to its end.           *)
(***************************************************************************)
EXTENDS Sequences, Naturals

CONSTANTS
    Threads,
    NoThread    \* nobody; also the author of the commit that made the tables

VARIABLES
    file,       \* the authors of the commits, oldest first
    view,       \* view[t] commits are visible to t; 0 outside a transaction
    writer      \* the thread in a write transaction

vars == <<file, view, writer>>

Init ==
    /\ file = <<NoThread>>
    /\ view = [t \in Threads |-> 0]
    /\ writer = NoThread

Look(t) ==
    /\ writer # t
    /\ \E v \in 1..Len(file) : v >= view[t] /\ view' = [view EXCEPT ![t] = v]
    /\ UNCHANGED <<file, writer>>

BeginWrite(t) ==
    /\ writer = NoThread
    /\ writer' = t
    /\ view' = [view EXCEPT ![t] = Len(file)]
    /\ UNCHANGED file

Commit(t) ==
    /\ writer = t
    /\ file' = Append(file, t)
    /\ view' = [view EXCEPT ![t] = Len(file) + 1]
    /\ writer' = NoThread

Cancel(t) ==
    /\ writer = t
    /\ writer' = NoThread
    /\ UNCHANGED <<file, view>>

Leave(t) ==
    /\ view' = [view EXCEPT ![t] = 0]
    /\ writer' = IF writer = t THEN NoThread ELSE writer
    /\ UNCHANGED file

Crash ==
    /\ view' = [t \in Threads |-> 0]
    /\ writer' = NoThread
    /\ UNCHANGED file

Next ==
    \/ \E t \in Threads : Look(t) \/ BeginWrite(t) \/ Commit(t) \/ Cancel(t) \/ Leave(t)
    \/ Crash

Spec == Init /\ [][Next]_vars
=============================================================================
