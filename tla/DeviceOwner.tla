----------------------------- MODULE DeviceOwner -----------------------------
(***************************************************************************)
(* What a device promises about who its app acts as: the first account     *)
(* whose details were ever saved owns the device for good, a process acts  *)
(* as nobody, as a guest or as the owner, and it turns from one into       *)
(* another only by resuming the login that is kept or by logging in.       *)
(***************************************************************************)
CONSTANTS Accounts, None, Guest

VARIABLES
    owner,      \* the account of the first row, or None
    identity,   \* whom the process acts as: None before it is told
    kept        \* the account whose login outlives the process, or None

vars == <<owner, identity, kept>>

Init == owner = None /\ identity = None /\ kept = None

Own(a) == owner = None /\ owner' = a /\ UNCHANGED <<identity, kept>>

Restart == identity' = None /\ UNCHANGED <<owner, kept>>

Resume ==
    /\ identity = None
    /\ identity' = IF kept = None THEN Guest ELSE kept
    /\ UNCHANGED <<owner, kept>>

Login ==
    /\ owner # None
    /\ identity' = owner /\ kept' = owner
    /\ UNCHANGED owner

Next == (\E a \in Accounts : Own(a)) \/ Restart \/ Resume \/ Login

Spec == Init /\ [][Next]_vars
=============================================================================
