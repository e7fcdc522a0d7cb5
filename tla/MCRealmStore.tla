---------------------------- MODULE MCRealmStore ----------------------------
(***************************************************************************)
(* RealmStore with the main thread, which turns a run loop, and two of the *)
(* threads on which the AWS SDK calls back.                                *)
(***************************************************************************)
EXTENDS RealmStore

CONSTANTS main, sdk1, sdk2

MCThreads == {main, sdk1, sdk2}
MCRunLoops == {main}
=============================================================================
