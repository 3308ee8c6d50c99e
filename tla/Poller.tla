------------------------------- MODULE Poller -------------------------------
(***************************************************************************)
(* The background poller of the sysctl server and the read path that       *)
(* serves from its store: internal/server/poller.go, and New, Stop,        *)
(* GetMetrics, GetMetricsByCategory and readMetric of server.go.           *)
(*                                                                         *)
(* A metric is identified by its position in fullRegistry.Metrics, so the  *)
(* loops over the registry visit 1, 2, ..., N in the code's order.  What a *)
(* read of the kernel returns is abstracted to the instant of the read:    *)
(* the properties are about how old a served value is and which reads are  *)
(* served together, never about the value itself.                          *)
(*                                                                         *)
(* Time.  mono is Go's monotonic clock, which drives time.Ticker; wall is  *)
(* time.Now().UnixNano(), which drives nextGatherNs and may be stepped.    *)
(* Advance lets one unit pass.  The real-time assumption is explicit: no   *)
(* piece of work of the poller goroutine (building the store and starting  *)
(* the loop; taking a delivered tick and publishing its batch) takes more  *)
(* than Slack units.                                                       *)
(***************************************************************************)
EXTENDS Integers, Sequences

CONSTANTS
    N,           \* number of metrics in fullRegistry.Metrics
    Pattern,     \* Pattern[m]: pattern of m's RecommendedAccessPattern
    Ttl,         \* Ttl[m]: its ttl, or NoTtl when the message carries none
    NoTtl,
    DefaultTtl,  \* the 10s default of newPoller
    Interval,    \* --poll-interval (frequencyIncrement); 0 disables polling
    Slack,       \* bound on one piece of work of the poller goroutine
    MaxSkew,     \* bound on how far the wall clock is ever stepped off mono
    Clients,     \* concurrent GetMetrics / GetMetricsByCategory handlers
    Requests,    \* the name lists clients send; 0 stands for an unknown name
    MaxTime      \* bound of the model: the last instant

Metrics == 1..N

\* AccessPattern of the registry; "NIL" is a missing RecommendedAccessPattern.
AccessPattern == {"NIL", "UNSPECIFIED", "STATIC", "POLLED", "CONSTRAINED",
                  "DYNAMIC", "DISABLED"}

ASSUME PollerAssumption ==
    /\ N \in Nat
    /\ Pattern \in [Metrics -> AccessPattern]
    /\ Ttl \in [Metrics -> Int \cup {NoTtl}]
    /\ DefaultTtl \in Int
    /\ Interval \in Nat
    /\ Slack \in Nat
    /\ MaxSkew \in Nat
    /\ Requests \subseteq Seq(0..N) \ {<<>>}
    /\ MaxTime \in Nat

Static    == {m \in Metrics : Pattern[m] = "STATIC"}
Scheduled == {m \in Metrics : Pattern[m] \in {"POLLED", "CONSTRAINED"}}
Disabled  == {m \in Metrics : Pattern[m] = "DISABLED"}

ttlNanos(m) == IF Ttl[m] = NoTtl THEN DefaultTtl ELSE Ttl[m]

(***************************************************************************)
(* A reading stands for a *pb.Metric, a value or an error alike (the code  *)
(* stores both the same way): at is the instant of the kernel read.  began *)
(* is history: the instant at which the tick that gathered it (or          *)
(* newPoller) began.                                                       *)
(***************************************************************************)
Reading == [at : Nat, began : Nat]
Absent  == [at |-> -1, began |-> -1]
Slot    == Reading \cup {Absent}

VARIABLES
    mono, wall,   \* the two clocks
    fire,         \* instant at which the ticker next sends on ticker.C
    tickC,        \* number of ticks in ticker.C, a channel of capacity 1
    lag,          \* time spent so far on the current piece of work
    pc,           \* where the poller goroutine (or newPoller) is
    idx,          \* next registry position of the loop in progress
    now,          \* the local now (wall clock) of newPoller or of this tick
    began,        \* instant at which newPoller or this tick began
    nextGather,   \* polledMetrics[i].nextGatherNs
    batch,        \* the local batch of tick
    store,        \* metricStore.values
    stopCh,       \* p.stopCh: "open" or "closed"
    stopper,      \* the caller of Stop: "idle", "waiting", "returned"
    req,          \* req[c]: names of c's request still to be read
    resp,         \* resp[c]: the response built so far, or the last one
    since         \* since[c]: instant at which c's request arrived

clockVars  == <<mono, wall, fire, tickC, lag>>
pollerVars == <<pc, idx, now, began, nextGather, batch, store>>
stopVars   == <<stopCh, stopper>>
clientVars == <<req, resp, since>>
vars == <<clockVars, pollerVars, stopVars, clientVars>>

\* New starts a poller only if the interval is positive.
Begin == IF Interval > 0 THEN "new" ELSE "off"

Init ==
    /\ mono = 0 /\ wall = 0 /\ fire = 0 /\ tickC = 0 /\ lag = 0
    /\ pc = Begin
    /\ idx = 1 /\ now = 0 /\ began = 0
    /\ nextGather = [m \in Metrics |-> 0]
    /\ batch = [m \in Metrics |-> Absent]
    /\ store = [m \in Metrics |-> Absent]
    /\ stopCh = "open" /\ stopper = "idle"
    /\ req = [c \in Clients |-> <<>>]
    /\ resp = [c \in Clients |-> <<>>]
    /\ since = [c \in Clients |-> 0]

-----------------------------------------------------------------------------
(***************************************************************************)
(* newPoller, run by New before the server is registered: STATIC, POLLED   *)
(* and CONSTRAINED metrics are read into the store; POLLED and CONSTRAINED *)
(* ones are scheduled for the first tick.  A failed read is stored too.    *)
(***************************************************************************)
ReadingNow == [at |-> mono, began |-> began]

NewRead ==
    /\ pc = "new" /\ idx \in Static \cup Scheduled
    /\ store' = [store EXCEPT ![idx] = ReadingNow]
    /\ nextGather' = [nextGather EXCEPT ![idx] = IF idx \in Scheduled THEN now ELSE @]
    /\ idx' = idx + 1
    /\ UNCHANGED <<clockVars, pc, now, began, batch, stopVars, clientVars>>

\* Mutant: newPoller stores every metric, as if STATIC were the default case.
NewSkipStores ==
    /\ pc = "new" /\ idx \in Metrics \ (Static \cup Scheduled)
    /\ store' = [store EXCEPT ![idx] = ReadingNow]
    /\ idx' = idx + 1
    /\ UNCHANGED <<clockVars, pc, now, began, nextGather, batch, stopVars, clientVars>>

NewSkip ==
    /\ pc = "new" /\ idx \in Metrics \ (Static \cup Scheduled)
    /\ idx' = idx + 1
    /\ UNCHANGED <<clockVars, pc, now, began, nextGather, batch, store, stopVars, clientVars>>

NewReturn ==
    /\ pc = "new" /\ idx = N + 1
    /\ pc' = "start"
    /\ UNCHANGED <<clockVars, idx, now, began, nextGather, batch, store, stopVars, clientVars>>

-----------------------------------------------------------------------------
(* The goroutine: loop and tick. *)

LoopStart ==
    /\ pc = "start"
    /\ pc' = "select"
    /\ fire' = mono + Interval
    /\ lag' = 0
    /\ UNCHANGED <<mono, wall, tickC, idx, now, began, nextGather, batch, store,
                   stopVars, clientVars>>

\* select picks either ready case: a pending tick does not outrank stopCh, nor
\* stopCh a pending tick.
LoopStop ==
    /\ pc = "select" /\ stopCh = "closed"
    /\ pc' = "done"
    /\ UNCHANGED <<clockVars, idx, now, began, nextGather, batch, store, stopVars, clientVars>>

\* Mutant: the batch is made once and never emptied.
TickStartKeepsBatch ==
    /\ pc = "select" /\ tickC = 1
    /\ tickC' = 0
    /\ pc' = "tick"
    /\ idx' = 1
    /\ now' = wall
    /\ began' = mono
    /\ UNCHANGED <<mono, wall, fire, lag, nextGather, batch, store, stopVars, clientVars>>

TickStart ==
    /\ pc = "select" /\ tickC = 1
    /\ tickC' = 0
    /\ pc' = "tick"
    /\ idx' = 1
    /\ now' = wall
    /\ began' = mono
    /\ batch' = [m \in Metrics |-> Absent]
    /\ UNCHANGED <<mono, wall, fire, lag, nextGather, store, stopVars, clientVars>>

\* Mutant: every metric of the registry is on the list of polled ones.
DueAll(m) == nextGather[m] <= now

\* Mutant: < for <=.
DueStrict(m) == m \in Scheduled /\ nextGather[m] < now

Due(m) == m \in Scheduled /\ nextGather[m] <= now

\* Mutant: each value is put as it is read, without a batch.
TickGatherPuts ==
    /\ pc = "tick" /\ idx \in Metrics /\ Due(idx)
    /\ store' = [store EXCEPT ![idx] = ReadingNow]
    /\ nextGather' = [nextGather EXCEPT ![idx] = now + ttlNanos(idx)]
    /\ idx' = idx + 1
    /\ UNCHANGED <<clockVars, pc, now, began, batch, stopVars, clientVars>>

\* Mutant: the next gather is counted from the last one that was due.
TickGatherFixedRate ==
    /\ pc = "tick" /\ idx \in Metrics /\ Due(idx)
    /\ batch' = [batch EXCEPT ![idx] = ReadingNow]
    /\ nextGather' = [nextGather EXCEPT ![idx] = @ + ttlNanos(idx)]
    /\ idx' = idx + 1
    /\ UNCHANGED <<clockVars, pc, now, began, store, stopVars, clientVars>>

TickGather ==
    /\ pc = "tick" /\ idx \in Metrics /\ Due(idx)
    /\ batch' = [batch EXCEPT ![idx] = ReadingNow]
    /\ nextGather' = [nextGather EXCEPT ![idx] = now + ttlNanos(idx)]
    /\ idx' = idx + 1
    /\ UNCHANGED <<clockVars, pc, now, began, store, stopVars, clientVars>>

TickSkip ==
    /\ pc = "tick" /\ idx \in Metrics /\ ~Due(idx)
    /\ idx' = idx + 1
    /\ UNCHANGED <<clockVars, pc, now, began, nextGather, batch, store, stopVars, clientVars>>

\* Mutant: the batch replaces the store.
MergeReplaces(s, b) == b

\* putBatch: one acquisition of the store's lock (PollerLoop models the lock).
Merge(s, b) == [m \in Metrics |-> IF b[m] = Absent THEN s[m] ELSE b[m]]

\* Mutant: the loop over polledMetrics is left early.
TickPublishEarly ==
    /\ pc = "tick" /\ idx > 1
    /\ store' = Merge(store, batch)
    /\ pc' = "select"
    /\ lag' = 0
    /\ UNCHANGED <<mono, wall, fire, tickC, idx, now, began, nextGather, batch,
                   stopVars, clientVars>>

TickPublish ==
    /\ pc = "tick" /\ idx = N + 1
    /\ store' = Merge(store, batch)
    /\ pc' = "select"
    /\ lag' = 0
    /\ UNCHANGED <<mono, wall, fire, tickC, idx, now, began, nextGather, batch,
                   stopVars, clientVars>>

-----------------------------------------------------------------------------
(***************************************************************************)
(* Stop: closes stopCh and waits for doneCh, which the loop closes when it *)
(* returns.  With polling disabled there is no poller and Stop returns.    *)
(***************************************************************************)
StopCall ==
    /\ stopper = "idle" /\ pc # "new"
    /\ IF pc = "off"
         THEN stopper' = "returned" /\ UNCHANGED stopCh
         ELSE stopper' = "waiting" /\ stopCh' = "closed"
    /\ UNCHANGED <<clockVars, pollerVars, clientVars>>

\* Mutant: Stop does not wait for doneCh.
StopReturnAtOnce ==
    /\ stopper = "waiting"
    /\ stopper' = "returned"
    /\ UNCHANGED <<clockVars, pollerVars, stopCh, clientVars>>

StopReturn ==
    /\ stopper = "waiting" /\ pc = "done"
    /\ stopper' = "returned"
    /\ UNCHANGED <<clockVars, pollerVars, stopCh, clientVars>>

-----------------------------------------------------------------------------
(***************************************************************************)
(* The unary handlers: names are read one by one, each from the store if   *)
(* the store has it, else live.  Unknown names are never in the store.     *)
(***************************************************************************)

\* Mutant: the ok of get is ignored.
InStoreUnchecked(m) == m \in Metrics

InStore(m) == m \in Metrics /\ store[m] # Absent

Request(c) ==
    /\ pc # "new" /\ req[c] = <<>>
    /\ \E q \in Requests : req' = [req EXCEPT ![c] = q]
    /\ resp' = [resp EXCEPT ![c] = <<>>]
    /\ since' = [since EXCEPT ![c] = mono]
    /\ UNCHANGED <<clockVars, pollerVars, stopVars>>

Answer(c, from, reading) ==
    /\ resp' = [resp EXCEPT ![c] =
                  Append(@, [name |-> Head(req[c]), from |-> from,
                             at |-> reading.at, began |-> reading.began])]
    /\ req' = [req EXCEPT ![c] = Tail(@)]
    /\ UNCHANGED <<clockVars, pollerVars, stopVars, since>>

ServeStored(c) ==
    /\ req[c] # <<>> /\ InStore(Head(req[c]))
    /\ Answer(c, "store", store[Head(req[c])])

ServeLive(c) ==
    /\ req[c] # <<>> /\ ~InStore(Head(req[c]))
    /\ Answer(c, "live", [at |-> mono, began |-> mono])

-----------------------------------------------------------------------------
(***************************************************************************)
(* The environment: time passes, and the wall clock may be stepped (NTP,   *)
(* an administrator) within MaxSkew of the monotonic clock.                *)
(***************************************************************************)
Busy == pc \in {"new", "start", "tick"} \/ (pc = "select" /\ tickC = 1)

Advance ==
    /\ mono < MaxTime
    /\ Busy => lag < Slack
    /\ mono' = mono + 1
    /\ wall' = wall + 1
    /\ lag' = IF Busy THEN lag + 1 ELSE 0
    \* time.Ticker drops a tick that finds the channel full.
    /\ IF pc \in {"select", "tick"} /\ mono + 1 >= fire
         THEN tickC' = 1 /\ fire' = fire + Interval
         ELSE UNCHANGED <<tickC, fire>>
    /\ UNCHANGED <<pollerVars, stopVars, clientVars>>

StepClock ==
    /\ \E w \in (mono - MaxSkew)..(mono + MaxSkew) : w # wall /\ wall' = w
    /\ UNCHANGED <<mono, fire, tickC, lag, pollerVars, stopVars, clientVars>>

Next ==
    \/ NewRead \/ NewSkip \/ NewReturn
    \/ LoopStart \/ LoopStop
    \/ TickStart \/ TickGather \/ TickSkip \/ TickPublish
    \/ StopCall \/ StopReturn
    \/ \E c \in Clients : Request(c) \/ ServeStored(c) \/ ServeLive(c)
    \/ Advance \/ StepClock

Spec == Init /\ [][Next]_vars

-----------------------------------------------------------------------------
ClockType ==
    /\ mono \in Nat /\ wall \in Int /\ fire \in Nat
    /\ tickC \in {0, 1} /\ lag \in 0..Slack

PollerType ==
    /\ pc \in {"off", "new", "start", "select", "tick", "done"}
    /\ idx \in 1..(N + 1) /\ now \in Int /\ began \in Nat
    /\ nextGather \in [Metrics -> Int]
    /\ batch \in [Metrics -> Slot]
    /\ store \in [Metrics -> Slot]

StopType ==
    /\ stopCh \in {"open", "closed"}
    /\ stopper \in {"idle", "waiting", "returned"}

Answers == [name : 0..N, from : {"store", "live"}, at : Nat, began : Nat]

ClientType ==
    /\ req \in [Clients -> Seq(0..N)]
    /\ resp \in [Clients -> Seq(Answers)]
    /\ since \in [Clients -> Nat]

\* Every variable has its type: the store and the batch hold readings or nothing,
\* and what a handler answers with is always a reading, never an absent entry.
TypeOK == ClockType /\ PollerType /\ StopType /\ ClientType

\* What the poll schedule promises about age.  A non-positive ttl means every
\* tick; the first tick comes one interval after newPoller and loop have started;
\* ticks are an interval apart, or as far apart as a slow goroutine makes them.
Larger(a, b) == IF a >= b THEN a ELSE b
Period(m) == Larger(ttlNanos(m), Slack + 1)
MaxAge(m) == Period(m) + Larger(Interval, Slack) + Slack

\* While the poller runs, a POLLED or CONSTRAINED value in the store (tick,
\* nextGatherNs) is never older than its ttl, plus one poll interval, plus the
\* time the goroutine may take, plus twice what the wall clock was stepped by.
BoundedStaleness ==
    pc \in {"start", "select", "tick"} =>
        \A m \in Scheduled : mono - store[m].at < MaxAge(m) + 2 * MaxSkew

\* The same bound without the allowance for clock steps: "background refresh at
\* TTL interval" (CACHE_DESIGN.md).  Holds only if the wall clock is never stepped,
\* because nextGatherNs is compared with time.Now().UnixNano().
RefreshedAtTtl ==
    pc \in {"start", "select", "tick"} =>
        \A m \in Scheduled : mono - store[m].at < MaxAge(m)

\* After newPoller, what the store holds for a scheduled metric comes from one
\* tick for all metrics of one ttl: putBatch publishes a tick as a whole.
CohortAtomic ==
    pc # "new" =>
        \A a, b \in Scheduled :
            ttlNanos(a) = ttlNanos(b) => store[a].began = store[b].began

\* Within one response (the loop of GetMetrics over readMetric), metrics of one
\* ttl served from the store never step back to an older tick; they may step
\* forward, since each name takes the lock anew.
ResponseCoherent ==
    \A c \in Clients : \A i, j \in 1..Len(resp[c]) :
        /\ i < j
        /\ resp[c][i].from = "store" /\ resp[c][i].name \in Scheduled
        /\ resp[c][j].from = "store" /\ resp[c][j].name \in Scheduled
        /\ ttlNanos(resp[c][i].name) = ttlNanos(resp[c][j].name)
        => resp[c][i].began <= resp[c][j].began

\* A metric the registry leaves to live reads (DYNAMIC, or without a pattern), and
\* an unknown name, is answered with a read made after the request arrived
\* (readMetric).  Nothing is promised of a DISABLED one.
LiveIsLive ==
    \A c \in Clients : \A i \in 1..Len(resp[c]) :
        resp[c][i].name \notin Static \cup Scheduled \cup Disabled
            => resp[c][i].at >= since[c]

\* A STATIC metric, error or value, is frozen once newPoller has returned.
StaticFrozen ==
    [][pc # "new" => \A m \in Static : store'[m] = store[m]]_vars

\* A published value never gives way to one gathered earlier, and no metric
\* ever leaves the store.
StoreNeverRegresses ==
    [][\A m \in Metrics : store'[m].began >= store[m].began]_vars

\* The kernel is not polled faster than the ttl asks for: two ticks that gather
\* one metric begin at least its ttl apart (less what the wall clock was stepped
\* by).  The initial read of newPoller is exempt: the first tick repeats it.
NoOverPolling ==
    [][\A m \in Scheduled :
          (store'[m].began # store[m].began /\ store[m].began > 0)
              => store'[m].began - store[m].began >= ttlNanos(m) - 2 * MaxSkew]_vars

\* Once Stop has returned, no tick in flight writes the store any more.
QuietAfterStop ==
    [][stopper = "returned" => UNCHANGED store]_vars

=============================================================================
