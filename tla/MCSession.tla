----------------------------- MODULE MCSession -----------------------------
(***************************************************************************)
(* Session with two Facebook accounts on one device.                       *)
(***************************************************************************)
EXTENDS Session

CONSTANTS ann, bob

MCAccounts == {ann, bob}
=============================================================================
