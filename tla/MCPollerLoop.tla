---------------------------- MODULE MCPollerLoop ----------------------------
(***************************************************************************)
(* Instance of PollerLoop for TLC: two polled names and one that is never  *)
(* stored, two values, two concurrent handlers.                            *)
(***************************************************************************)
EXTENDS PollerLoop
=============================================================================
