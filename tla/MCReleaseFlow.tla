---------------------------- MODULE MCReleaseFlow ----------------------------
(***************************************************************************)
(* ReleaseFlow for TLC: two calls at a time, and a message more than the   *)
(* release takes, for a party to object or to send one again.              *)
(***************************************************************************)
EXTENDS ReleaseFlow, TLC
=============================================================================
