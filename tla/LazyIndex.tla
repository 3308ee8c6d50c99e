----------------------------- MODULE LazyIndex ------------------------------
(***************************************************************************)
(* metrics.ByName and the lookup index it builds on first use, without any *)
(* synchronisation (internal/metrics/registry.go), as the server calls it: *)
(* first from newPoller, inside New, for every metric it reads at start;   *)
(* then, once newPoller has returned, from the poller goroutine and from   *)
(* any number of handlers.                                                 *)
(*                                                                         *)
(* A map insertion is a begin and an end, because the Go runtime marks the *)
(* map as being written between the two and aborts the process when        *)
(* another goroutine meets the mark.  Memory is sequentially consistent:   *)
(* what goes wrong here goes wrong without any help of a weaker one.       *)
(***************************************************************************)
EXTENDS Integers, Sequences, SequencesExt

CONSTANTS
    Known,     \* the names of metrics.Known, in order
    Unknown,   \* names that are not in it
    Startup,   \* names newPoller reads; <<>> if it is not run or schedules none
    Workers,   \* handlers and the poller goroutine
    Main,      \* the goroutine that runs New
    Nil        \* a nil map, and ByName's answer for an unknown name

Threads == Workers \cup {Main}
KnownNames == Range(Known)

ASSUME IndexAssumption ==
    /\ Main \notin Workers /\ Nil \notin Threads
    /\ Known \in Seq(KnownNames) /\ Startup \in Seq(KnownNames)
    /\ Unknown \cap KnownNames = {}

VARIABLES
    knownByName,  \* the global: Nil, or the map made by a thread
    entries,      \* entries[t]: the names in the map t has made
    writing,      \* writing[t]: an insertion into that map is in progress
    pc, i, arg, into, ret,   \* locals of each thread's call of ByName
    reads,        \* names newPoller has still to read
    serving,      \* newPoller has returned
    crashed       \* the runtime has aborted the process

vars == <<knownByName, entries, writing, pc, i, arg, into, ret, reads, serving, crashed>>

Init ==
    /\ knownByName = Nil
    /\ entries = [t \in Threads |-> {}]
    /\ writing = [t \in Threads |-> FALSE]
    /\ pc = [t \in Threads |-> "idle"]
    /\ i = [t \in Threads |-> 1]
    /\ arg = [t \in Threads |-> Nil]
    /\ into = [t \in Threads |-> Nil]
    /\ ret = [t \in Threads |-> Nil]
    /\ reads = Startup
    /\ serving = FALSE /\ crashed = FALSE

Enter(t, n) ==
    /\ pc' = [pc EXCEPT ![t] = "check"]
    /\ arg' = [arg EXCEPT ![t] = n]

\* newPoller: readMetricLive for one name after the other.
StartupCall ==
    /\ pc[Main] = "idle" /\ reads # <<>>
    /\ Enter(Main, Head(reads))
    /\ reads' = Tail(reads)
    /\ UNCHANGED <<knownByName, entries, writing, i, into, ret, serving, crashed>>

\* newPoller returns: its goroutine starts, main registers the service and
\* calls Serve.
Serve ==
    /\ ~serving /\ pc[Main] = "idle" /\ reads = <<>>
    /\ serving' = TRUE
    /\ UNCHANGED <<knownByName, entries, writing, pc, i, arg, into, ret, reads, crashed>>

Call(t) ==
    /\ serving /\ pc[t] = "idle"
    /\ \E n \in KnownNames \cup Unknown : Enter(t, n)
    /\ UNCHANGED <<knownByName, entries, writing, i, into, ret, reads, serving, crashed>>

\* Mutant: the index is built on every call.
CheckNever(t) ==
    /\ pc[t] = "check"
    /\ pc' = [pc EXCEPT ![t] = "make"]
    /\ UNCHANGED <<knownByName, entries, writing, i, arg, into, ret, reads, serving, crashed>>

\* if knownByName == nil
Check(t) ==
    /\ pc[t] = "check"
    /\ pc' = [pc EXCEPT ![t] = IF knownByName = Nil THEN "make" ELSE "lookup"]
    /\ UNCHANGED <<knownByName, entries, writing, i, arg, into, ret, reads, serving, crashed>>

\* The empty map is published before it is filled.
MakeMap(t) ==
    /\ pc[t] = "make"
    /\ knownByName' = t
    /\ i' = [i EXCEPT ![t] = 1]
    /\ pc' = [pc EXCEPT ![t] = "fill"]
    /\ UNCHANGED <<entries, writing, arg, into, ret, reads, serving, crashed>>

\* The loop inserts into whatever map the global holds by then.
InsertBegin(t) ==
    /\ pc[t] = "fill" /\ i[t] <= Len(Known)
    /\ IF writing[knownByName]
         THEN /\ crashed' = TRUE
              /\ UNCHANGED <<writing, into, pc>>
         ELSE /\ writing' = [writing EXCEPT ![knownByName] = TRUE]
              /\ into' = [into EXCEPT ![t] = knownByName]
              /\ pc' = [pc EXCEPT ![t] = "inserting"]
              /\ UNCHANGED crashed
    /\ UNCHANGED <<knownByName, entries, i, arg, ret, reads, serving>>

InsertEnd(t) ==
    /\ pc[t] = "inserting"
    /\ entries' = [entries EXCEPT ![into[t]] = @ \cup {Known[i[t]]}]
    /\ writing' = [writing EXCEPT ![into[t]] = FALSE]
    /\ i' = [i EXCEPT ![t] = @ + 1]
    /\ pc' = [pc EXCEPT ![t] = "fill"]
    /\ UNCHANGED <<knownByName, arg, into, ret, reads, serving, crashed>>

FillDone(t) ==
    /\ pc[t] = "fill" /\ i[t] > Len(Known)
    /\ pc' = [pc EXCEPT ![t] = "lookup"]
    /\ UNCHANGED <<knownByName, entries, writing, i, arg, into, ret, reads, serving, crashed>>

Lookup(t) ==
    /\ pc[t] = "lookup"
    /\ IF writing[knownByName]
         THEN /\ crashed' = TRUE
              /\ UNCHANGED <<ret, pc>>
         ELSE /\ ret' = [ret EXCEPT ![t] = IF arg[t] \in entries[knownByName]
                                             THEN arg[t] ELSE Nil]
              /\ pc' = [pc EXCEPT ![t] = "idle"]
              /\ UNCHANGED crashed
    /\ UNCHANGED <<knownByName, entries, writing, i, arg, into, reads, serving>>

Next ==
    /\ ~crashed
    /\ \/ StartupCall \/ Serve
       \/ \E t \in Workers : Call(t)
       \/ \E t \in Threads : Check(t) \/ MakeMap(t) \/ InsertBegin(t)
                               \/ InsertEnd(t) \/ FillDone(t) \/ Lookup(t)

Spec == Init /\ [][Next]_vars

-----------------------------------------------------------------------------
\* "ByName returns the Info for a known metric, or nil if unknown": every call
\* that has returned gave the right answer, whoever was building the index.
ByNameCorrect ==
    \A t \in Threads :
        (pc[t] = "idle" /\ arg[t] # Nil) =>
            ret[t] = IF arg[t] \in KnownNames THEN arg[t] ELSE Nil

\* Once newPoller has returned the index is only read, so that no goroutine can
\* meet a map another one is writing and abort the process.
IndexFrozen ==
    [][serving => UNCHANGED <<knownByName, entries, writing>>]_vars
=============================================================================
