------------------------------ MODULE PollerInv -----------------------------
(***************************************************************************)
(* The inductive invariant behind the theorems of PollerProofs, kept apart *)
(* so that TLC checks the very formula that is proved.                     *)
(***************************************************************************)
EXTENDS Poller

Running  == pc \in {"select", "tick"}
Gathered(m) == pc = "tick" /\ batch[m] # Absent
Visited(m)  == m < idx

\* The clocks: the wall clock, and the local now sampled from it, are within
\* MaxSkew of the instant they stand for.
ClockInv ==
    /\ began <= mono
    /\ wall - mono <= MaxSkew /\ mono - wall <= MaxSkew
    /\ now - began <= MaxSkew /\ began - now <= MaxSkew
    /\ pc # "off" => Interval >= 1
    /\ pc \in {"new", "start"} => began = 0 /\ mono = lag /\ tickC = 0
    /\ Running => mono < fire /\ fire <= mono + Interval

\* The batch holds readings of this tick only, of scheduled metrics only.
BatchInv ==
    \A m \in Metrics : batch[m] # Absent =>
        m \in Scheduled /\ batch[m].began = began /\ batch[m].at >= began

\* The store holds readings taken no earlier than the tick that took them; every
\* scheduled metric has one as soon as newPoller has passed it.
StoreInv ==
    \A m \in Metrics :
        /\ store[m].began <= began
        /\ store[m] # Absent => store[m].at >= store[m].began
        /\ (m \in Scheduled /\ pc # "off" /\ (pc = "new" => Visited(m))) => store[m] # Absent
        /\ (pc = "off" \/ (pc = "new" /\ ~Visited(m))) => store[m] = Absent

\* Where the loop of tick has got to, told by batch and nextGatherNs.
TickInv ==
    pc = "tick" =>
        \A m \in Scheduled :
            /\ ~Visited(m) => batch[m] = Absent
            /\ (Visited(m) /\ batch[m] = Absent) => nextGather[m] > now
            /\ batch[m] # Absent => nextGather[m] = now + ttlNanos(m)

\* Metrics of one ttl share their schedule and their tick; in the middle of a
\* tick the ones already visited are ahead of the others by that tick.
CohortInv ==
    /\ pc = "new" => \A m \in Scheduled : Visited(m) =>
                        nextGather[m] = now /\ store[m].began = began
    /\ pc # "new" =>
         \A a, b \in Scheduled : ttlNanos(a) = ttlNanos(b) =>
            /\ store[a].began = store[b].began
            /\ (pc # "tick" \/ (Visited(a) <=> Visited(b))) =>
                  /\ nextGather[a] = nextGather[b]
                  /\ pc = "tick" => (batch[a] = Absent <=> batch[b] = Absent)
            /\ (pc = "tick" /\ Visited(a) /\ ~Visited(b)) =>
                  IF batch[a] = Absent THEN nextGather[a] = nextGather[b]
                                       ELSE nextGather[b] <= now

\* The schedule: how far nextGatherNs may be from the reading it follows.
ScheduleInv ==
    \A m \in Scheduled :
        /\ (pc \notin {"new", "off"} /\ ~Gathered(m)) =>
              nextGather[m] <= store[m].began + MaxSkew + Period(m)
        /\ (~Gathered(m) /\ store[m].began > 0) =>
              nextGather[m] >= store[m].began - MaxSkew + ttlNanos(m)
        /\ (Gathered(m) /\ store[m].began > 0) =>
              began >= store[m].began + ttlNanos(m) - 2 * MaxSkew

\* The deadline of a metric: the tick that replaces its reading is delivered, at
\* the latest, this long after the tick that gathered it.
Deadline(m) == store[m].began + Period(m) - 1 + 2 * MaxSkew + Larger(Interval, Slack)

DeadlineInv ==
    /\ pc = "start" => \A m \in Scheduled : store[m].began = 0
    /\ pc = "select" => \A m \in Scheduled :
          IF tickC = 0 THEN fire <= Deadline(m) ELSE mono - lag <= Deadline(m)
    /\ pc = "tick" =>
          /\ mono - lag <= began
          /\ tickC = 0 => fire <= began + Interval
          /\ \A m \in Scheduled : mono - lag <= Deadline(m)

\* Stop returns only after the goroutine has.
StopInv == stopper = "returned" => pc \in {"off", "done"}

\* The conjunction is inductive, given TypeOK.
PollerInvariant ==
    /\ ClockInv /\ BatchInv /\ StoreInv /\ TickInv
    /\ CohortInv /\ ScheduleInv /\ DeadlineInv /\ StopInv

-----------------------------------------------------------------------------
\* Only STATIC and scheduled metrics are ever put in the store.
LiveInv == \A m \in Metrics \ (Static \cup Scheduled) : store[m] = Absent

\* No handler runs before newPoller has returned.
HandlerInv ==
    \A c \in Clients : /\ since[c] <= mono
                       /\ pc = "new" => req[c] = <<>> /\ resp[c] = <<>>

\* An answer already given came from a tick no later than the one the store holds
\* now; a live one was read after its request.
AnswerInv(c, a) ==
    /\ a.from = "store" /\ a.name \in Scheduled => a.began <= store[a.name].began
    /\ a.name \notin Static \cup Scheduled => a.at >= since[c]

\* Inductive relative to TypeOK and PollerInvariant.
ResponseInv ==
    /\ LiveInv /\ HandlerInv
    /\ \A c \in Clients : \A i \in 1..Len(resp[c]) : AnswerInv(c, resp[c][i])
    /\ ResponseCoherent
=============================================================================
