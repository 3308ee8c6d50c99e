----------------------------- MODULE PollerLoop -----------------------------
(***************************************************************************)
(* The poller goroutine, the RPC handlers that read its store, and Stop,   *)
(* at the grain of channel and lock operations (internal/server/poller.go).*)
(* The schedule is abstracted to a choice: a tick finds any set of names   *)
(* due (Poller models which).  There is no bound on the behaviour: values  *)
(* come from a small set and the state space is finite.                    *)
(*                                                                         *)
(* sync.RWMutex is modelled from its documented behaviour: Lock announces  *)
(* itself first, an announced writer makes new readers wait, and Unlock    *)
(* hands the lock to every reader that waits.                              *)
(***************************************************************************)
EXTENDS Integers

CONSTANTS
    Polled,    \* names on polledMetrics
    Other,     \* names the store never holds (DYNAMIC or unknown)
    Values,    \* what readMetricLive may return
    Missing,   \* no entry in the map
    Readers    \* goroutines that call get

ASSUME LoopAssumption == Polled \cap Other = {} /\ Missing \notin Values

Names == Polled \cup Other
Slots == Values \cup {Missing}

VARIABLES
    pc,        \* the goroutine: "select", "tick", "lock", "write", "done"
    tickC,     \* ticker.C, capacity 1
    stopCh,    \* TRUE once closed
    doneCh,    \* TRUE once closed
    stopper,   \* the caller of Stop
    batch,     \* local map of tick; Missing where it has no entry
    todo,      \* entries of batch that putBatch has still to copy
    values,    \* metricStore.values
    writer,    \* mu: "none", "waiting" (announced) or "held"
    rd         \* rd[r]: the get of reader r

vars == <<pc, tickC, stopCh, doneCh, stopper, batch, todo, values, writer, rd>>

RIdle == [st |-> "idle"]
Get(st, n) == [st |-> st, name |-> n]
Got(st, v) == [st |-> st, got |-> v]
Gets ==
    {RIdle}
    \cup {Get(st, n) : st \in {"called", "blocked", "locked"}, n \in Names}
    \cup {Got(st, v) : st \in {"looked", "unlocked"}, v \in Slots}

Holding == {r \in Readers : rd[r].st \in {"locked", "looked"}}

\* newPoller has read every polled name into the store.
Init ==
    /\ pc = "select" /\ tickC = 0
    /\ stopCh = FALSE /\ doneCh = FALSE /\ stopper = "idle"
    /\ batch = [n \in Polled |-> Missing] /\ todo = {}
    /\ values \in {f \in [Names -> Slots] : \A n \in Names : (f[n] = Missing) <=> (n \in Other)}
    /\ writer = "none"
    /\ rd = [r \in Readers |-> RIdle]

-----------------------------------------------------------------------------
(* time.Ticker and the select of loop. *)

\* A tick that finds the channel full is dropped.
TickFires ==
    /\ pc # "done" /\ tickC' = 1
    /\ UNCHANGED <<pc, stopCh, doneCh, stopper, batch, todo, values, writer, rd>>

SelectTick ==
    /\ pc = "select" /\ tickC = 1
    /\ tickC' = 0
    /\ pc' = "tick"
    /\ UNCHANGED <<stopCh, doneCh, stopper, batch, todo, values, writer, rd>>

\* Mutant: a pending tick goes before stopCh.
SelectStopLast ==
    /\ pc = "select" /\ stopCh /\ tickC = 0
    /\ pc' = "done" /\ doneCh' = TRUE
    /\ UNCHANGED <<tickC, stopCh, stopper, batch, todo, values, writer, rd>>

\* Mutant: stopCh is looked at before putBatch too.
SelectStopDropsBatch ==
    /\ pc \in {"select", "lock"} /\ writer = "none" /\ stopCh
    /\ pc' = "done" /\ doneCh' = TRUE
    /\ UNCHANGED <<tickC, stopCh, stopper, batch, todo, values, writer, rd>>

\* return runs the deferred close(p.doneCh).
SelectStop ==
    /\ pc = "select" /\ stopCh
    /\ pc' = "done" /\ doneCh' = TRUE
    /\ UNCHANGED <<tickC, stopCh, stopper, batch, todo, values, writer, rd>>

-----------------------------------------------------------------------------
(* tick and putBatch. *)

\* The gather loop: the names due are read; an empty batch is not published.
Gather ==
    /\ pc = "tick"
    /\ \E due \in SUBSET Polled : \E b \in [due -> Values] :
          /\ batch' = [n \in Polled |-> IF n \in due THEN b[n] ELSE Missing]
          /\ todo' = due
          /\ pc' = IF due = {} THEN "select" ELSE "lock"
    /\ UNCHANGED <<tickC, stopCh, doneCh, stopper, values, writer, rd>>

Announce ==
    /\ pc = "lock" /\ writer = "none"
    /\ writer' = "waiting"
    /\ UNCHANGED <<pc, tickC, stopCh, doneCh, stopper, batch, todo, values, rd>>

Acquire ==
    /\ pc = "lock" /\ writer = "waiting" /\ Holding = {}
    /\ writer' = "held" /\ pc' = "write"
    /\ UNCHANGED <<tickC, stopCh, doneCh, stopper, batch, todo, values, rd>>

\* One turn of "for name, m := range batch": Go's map order is arbitrary.
CopyEntry ==
    /\ pc = "write"
    /\ \E n \in todo :
          /\ values' = [values EXCEPT ![n] = batch[n]]
          /\ todo' = todo \ {n}
    /\ UNCHANGED <<pc, tickC, stopCh, doneCh, stopper, batch, writer, rd>>

\* Mutant: putBatch returns without unlocking.
UnlockForgotten ==
    /\ pc = "write" /\ todo = {}
    /\ pc' = "select"
    /\ UNCHANGED <<tickC, stopCh, doneCh, stopper, batch, todo, values, writer, rd>>

\* Mutant: readers that wait are not handed the lock but compete for it afresh.
UnlockNoHandoff ==
    /\ pc = "write" /\ todo = {}
    /\ writer' = "none" /\ pc' = "select"
    /\ rd' = [r \in Readers |-> IF rd[r].st = "blocked"
                                  THEN [rd[r] EXCEPT !.st = "called"] ELSE rd[r]]
    /\ UNCHANGED <<tickC, stopCh, doneCh, stopper, batch, todo, values>>

Unlock ==
    /\ pc = "write" /\ todo = {}
    /\ writer' = "none" /\ pc' = "select"
    /\ rd' = [r \in Readers |-> IF rd[r].st = "blocked"
                                  THEN [rd[r] EXCEPT !.st = "locked"] ELSE rd[r]]
    /\ UNCHANGED <<tickC, stopCh, doneCh, stopper, batch, todo, values>>

-----------------------------------------------------------------------------
(* get, called by readMetric from any number of handlers. *)

GetCall(r) ==
    /\ rd[r].st = "idle"
    /\ \E n \in Names : rd' = [rd EXCEPT ![r] = Get("called", n)]
    /\ UNCHANGED <<pc, tickC, stopCh, doneCh, stopper, batch, todo, values, writer>>

\* Mutant: get takes no lock.
RLockNone(r) ==
    /\ rd[r].st = "called"
    /\ rd' = [rd EXCEPT ![r].st = "locked"]
    /\ UNCHANGED <<pc, tickC, stopCh, doneCh, stopper, batch, todo, values, writer>>

RLock(r) ==
    /\ rd[r].st = "called"
    /\ rd' = [rd EXCEPT ![r].st = IF writer = "none" THEN "locked" ELSE "blocked"]
    /\ UNCHANGED <<pc, tickC, stopCh, doneCh, stopper, batch, todo, values, writer>>

Lookup(r) ==
    /\ rd[r].st = "locked"
    /\ rd' = [rd EXCEPT ![r] = Got("looked", values[rd[r].name])]
    /\ UNCHANGED <<pc, tickC, stopCh, doneCh, stopper, batch, todo, values, writer>>

RUnlock(r) ==
    /\ rd[r].st = "looked"
    /\ rd' = [rd EXCEPT ![r].st = "unlocked"]
    /\ UNCHANGED <<pc, tickC, stopCh, doneCh, stopper, batch, todo, values, writer>>

\* get returns (m, ok) to readMetric, which serves m or goes on to a live read.
GetReturn(r) ==
    /\ rd[r].st = "unlocked"
    /\ rd' = [rd EXCEPT ![r] = RIdle]
    /\ UNCHANGED <<pc, tickC, stopCh, doneCh, stopper, batch, todo, values, writer>>

-----------------------------------------------------------------------------
(* Stop. *)

StopClose ==
    /\ stopper = "idle"
    /\ stopper' = "waiting" /\ stopCh' = TRUE
    /\ UNCHANGED <<pc, tickC, doneCh, batch, todo, values, writer, rd>>

StopReturn ==
    /\ stopper = "waiting" /\ doneCh
    /\ stopper' = "returned"
    /\ UNCHANGED <<pc, tickC, stopCh, doneCh, batch, todo, values, writer, rd>>

GoroutineStep == Gather \/ Announce \/ Acquire \/ CopyEntry \/ Unlock
GetStep(r) == RLock(r) \/ Lookup(r) \/ RUnlock(r) \/ GetReturn(r)

Next ==
    \/ TickFires \/ SelectTick \/ SelectStop
    \/ GoroutineStep
    \/ \E r \in Readers : GetCall(r) \/ GetStep(r)
    \/ StopClose \/ StopReturn

(***************************************************************************)
(* Fairness.  Runnable goroutines run (Go's scheduler is preemptive).  The *)
(* select of loop chooses uniformly among its ready cases, so a stop that  *)
(* is ready over and over is taken: strong fairness.  Nothing obliges the  *)
(* ticker to fire, a client to call, or anyone to call Stop.               *)
(***************************************************************************)
Fairness ==
    /\ WF_vars(GoroutineStep)
    /\ WF_vars(SelectTick)
    /\ SF_vars(SelectStop)
    /\ WF_vars(StopReturn)
    /\ \A r \in Readers : WF_vars(GetStep(r))

Spec == Init /\ [][Next]_vars /\ Fairness

-----------------------------------------------------------------------------
\* Every variable has its type; a batch entry is a value the kernel returned.
TypeOK ==
    /\ pc \in {"select", "tick", "lock", "write", "done"}
    /\ tickC \in 0..1 /\ stopCh \in BOOLEAN /\ doneCh \in BOOLEAN
    /\ stopper \in {"idle", "waiting", "returned"}
    /\ batch \in [Polled -> Slots] /\ todo \subseteq Polled
    /\ values \in [Names -> Slots]
    /\ writer \in {"none", "waiting", "held"}
    /\ rd \in [Readers -> Gets]

\* The lock does its work and is not leaked: a get is never inside the map while
\* putBatch writes it, only a held lock is written under, readers wait only for a
\* writer, and the goroutine never exits with the lock.
LockDiscipline ==
    /\ writer = "held" <=> pc = "write"
    /\ pc = "write" => Holding = {}
    /\ (\E r \in Readers : rd[r].st = "blocked") => writer # "none"
    /\ pc \in {"select", "tick", "done"} => writer = "none"

\* get and putBatch implement a store in which a batch appears in one step, at
\* the moment putBatch holds the lock, and every get returns.
absCall == [r \in Readers |->
              CASE rd[r].st = "idle" -> [st |-> "idle"]
                [] rd[r].st \in {"called", "blocked", "locked"}
                     -> [st |-> "asked", name |-> rd[r].name]
                [] OTHER -> [st |-> "answered", got |-> rd[r].got]]
absValues == [n \in Names |-> IF pc = "write" /\ n \in todo THEN batch[n] ELSE values[n]]
Abstract == INSTANCE AtomicStore WITH values <- absValues, call <- absCall
ImplementsAtomicStore == Abstract!Spec

\* Stop returns, however often the ticker fires and however many handlers read:
\* nobody waits for the goroutine while it waits for them.
StopReturns == stopper = "waiting" ~> stopper = "returned"

\* What a tick has read reaches the store, even when Stop is called meanwhile.
BatchPublished ==
    \A n \in Polled : \A v \in Values :
        (pc = "lock" /\ n \in todo /\ batch[n] = v) ~> (pc = "select" /\ values[n] = v)

\* No get is starved by the writer, nor the writer by gets.
GetReturns == \A r \in Readers : rd[r].st = "called" ~> rd[r].st = "idle"
=============================================================================
