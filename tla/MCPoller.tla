------------------------------ MODULE MCPoller ------------------------------
(***************************************************************************)
(* Instances of Poller for TLC.  The registry has one metric of each kind  *)
(* the code tells apart, with two metrics of one ttl side by side and a    *)
(* third scheduled metric of another ttl, so that ticks gather subsets.    *)
(***************************************************************************)
EXTENDS PollerInv

\* STATIC first, then a POLLED and a CONSTRAINED metric of one ttl, DYNAMIC last.
ServePattern == <<"STATIC", "POLLED", "CONSTRAINED", "DYNAMIC">>
ServeTtl     == <<NoTtl, 2, 2, NoTtl>>
ServeReqs    == {<<2, 3>>, <<3, 2>>, <<0, 4, 1>>}

\* Three cohorts interleaved in registry order: a ttl of two units, the default
\* ttl, and a ttl of 0, which is due at every tick.
SchedPattern == <<"POLLED", "CONSTRAINED", "POLLED", "POLLED">>
SchedTtl     == <<2, NoTtl, 2, 0>>
OneReq       == {<<1>>}
=============================================================================
