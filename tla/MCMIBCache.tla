----------------------------- MODULE MCMIBCache -----------------------------
(***************************************************************************)
(* Instance of MIBCache for TLC: one name that is warmed and one that is   *)
(* not, lengths 0, 1 and 2 so that a value can grow, shrink and vanish,    *)
(* two concurrent readers.                                                 *)
(***************************************************************************)
EXTENDS MIBCache, TLC

TwoNames == {"a", "b"}
TwoMibs  == [n \in TwoNames |-> IF n = "a" THEN 11 ELSE 12]
WarmSome == <<"a">>

\* Readers are alike, and no property tells them apart.
ReaderSymmetry == Permutations(Procs)
=============================================================================
