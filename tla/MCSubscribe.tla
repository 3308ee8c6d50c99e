---------------------------- MODULE MCSubscribe -----------------------------
(***************************************************************************)
(* Instances of Subscribe for TLC.  Intervals are in milliseconds; the     *)
(* registry has one TTL under the 100ms floor, so that the floor, the TTL  *)
(* and both sides of the bound are told apart.                             *)
(***************************************************************************)
EXTENDS Subscribe

TwoMetrics == {"a", "b"}
ReqMix == {<<"b", "u", "b">>, <<"c", "a", "b">>}
ReqOne == {<<"a">>}

\* TTLs that are no minimum, one that is, and one above the floor; an interval that
\* is not positive (0 takes the same branch), one too fast and one just not.
SomeTtls == {-5, 0, 50, 10000}
Asked == {-1, 49, 50}
=============================================================================
