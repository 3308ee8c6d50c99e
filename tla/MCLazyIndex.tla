---------------------------- MODULE MCLazyIndex -----------------------------
(***************************************************************************)
(* The instance of LazyIndex in which newPoller reads nothing              *)
(* (--poll-interval 0, or no registry for --os-version, so that every      *)
(* metric is DYNAMIC): an index of two names, three workers.  ReadPath has *)
(* the instance in which newPoller builds the index.                       *)
(***************************************************************************)
EXTENDS LazyIndex

TwoKnown == <<"a", "b">>
OneUnknown == {"u"}
ColdStart == <<>>
=============================================================================
