---------------------------- MODULE PollerProofs ----------------------------
(***************************************************************************)
(* Theorems about Poller, for every registry, interval, slack, skew, set   *)
(* of clients and set of requests.                                         *)
(***************************************************************************)
EXTENDS PollerInv, SequenceTheorems, TLAPS

\* The ttl newPoller computes is an integer, whether the registry has one or not.
LEMMA TtlType == \A m \in Metrics : ttlNanos(m) \in Int
  BY PollerAssumption DEF ttlNanos

\* Positions of the registry that newPoller or tick reads are positions.
LEMMA MetricSets == Static \subseteq Metrics /\ Scheduled \subseteq Metrics
  BY DEF Static, Scheduled

-----------------------------------------------------------------------------
\* The goroutine (newPoller, loop, tick) keeps its own variables and the clocks
\* in their types.
LEMMA GoroutineType ==
  ASSUME ClockType, PollerType,
         \/ NewRead \/ NewSkip \/ NewReturn \/ LoopStart \/ LoopStop
         \/ TickStart \/ TickGather \/ TickSkip \/ TickPublish
  PROVE  ClockType' /\ PollerType'
<1> USE PollerAssumption DEF ClockType, PollerType
<1>1. CASE NewRead
  <2>1. idx \in Metrics
    BY <1>1, MetricSets DEF NewRead
  <2>2. idx' \in 1..(N + 1)
    BY <1>1, <2>1 DEF NewRead, Metrics
  <2>3. ReadingNow \in Slot
    BY DEF ReadingNow, Slot, Reading
  <2>4. store' \in [Metrics -> Slot]
    BY <1>1, <2>1, <2>3 DEF NewRead
  <2>5. nextGather' \in [Metrics -> Int]
    BY <1>1, <2>1 DEF NewRead
  <2> QED BY <1>1, <2>2, <2>4, <2>5 DEF NewRead, clockVars
<1>2. CASE NewSkip
  <2>1. idx' \in 1..(N + 1)
    BY <1>2 DEF NewSkip, Metrics
  <2> QED BY <1>2, <2>1 DEF NewSkip, clockVars
<1>3. CASE NewReturn
  BY <1>3 DEF NewReturn, clockVars
<1>4. CASE LoopStart
  BY <1>4 DEF LoopStart
<1>5. CASE LoopStop
  BY <1>5 DEF LoopStop, clockVars
<1>6. CASE TickStart
  <2>1. batch' \in [Metrics -> Slot]
    BY <1>6 DEF TickStart, Slot
  <2>2. idx' \in 1..(N + 1)
    BY <1>6 DEF TickStart
  <2> QED BY <1>6, <2>1, <2>2 DEF TickStart
<1>7. CASE TickGather
  <2>1. idx \in Metrics /\ idx' \in 1..(N + 1)
    BY <1>7 DEF TickGather, Metrics
  <2>2. ReadingNow \in Slot
    BY DEF ReadingNow, Slot, Reading
  <2>3. batch' \in [Metrics -> Slot]
    BY <1>7, <2>1, <2>2 DEF TickGather
  <2>4. nextGather' \in [Metrics -> Int]
    BY <1>7, <2>1, TtlType DEF TickGather
  <2> QED BY <1>7, <2>1, <2>3, <2>4 DEF TickGather, clockVars
<1>8. CASE TickSkip
  <2>1. idx' \in 1..(N + 1)
    BY <1>8 DEF TickSkip, Metrics
  <2> QED BY <1>8, <2>1 DEF TickSkip, clockVars
<1>9. CASE TickPublish
  <2>1. store' \in [Metrics -> Slot]
    BY <1>9 DEF TickPublish, Merge
  <2> QED BY <1>9, <2>1 DEF TickPublish
<1> QED BY <1>1, <1>2, <1>3, <1>4, <1>5, <1>6, <1>7, <1>8, <1>9

\* An answer appended to a response is a reading: a store entry is served only if
\* it is present.
LEMMA AnswerType ==
  ASSUME ClientType, NEW c \in Clients, NEW from \in {"store", "live"}, NEW r,
         req[c] # <<>>, r.at \in Nat, r.began \in Nat, Answer(c, from, r)
  PROVE  ClientType'
<1> USE DEF ClientType
<1> DEFINE a == [name |-> Head(req[c]), from |-> from, at |-> r.at, began |-> r.began]
<1>1. Head(req[c]) \in 0..N /\ Tail(req[c]) \in Seq(0..N)
  <2>1. req[c] \in Seq(0..N)
    OBVIOUS
  <2> QED BY <2>1, HeadTailProperties
<1>2. a \in Answers
  BY <1>1 DEF Answers
<1>3. Append(resp[c], a) \in Seq(Answers)
  <2> HIDE DEF a
  <2> QED BY <1>2
<1>4. resp' \in [Clients -> Seq(Answers)]
  BY <1>3 DEF Answer
<1>5. req' \in [Clients -> Seq(0..N)]
  BY <1>1 DEF Answer
<1> QED BY <1>4, <1>5 DEF Answer

\* Every step of the poller, of Stop, of a handler and of the environment keeps
\* every variable in its type.
LEMMA TypeStep == TypeOK /\ [Next]_vars => TypeOK'
<1> SUFFICES ASSUME TypeOK, [Next]_vars PROVE TypeOK'
  OBVIOUS
<1> USE DEF TypeOK
<1>1. CASE \/ NewRead \/ NewSkip \/ NewReturn \/ LoopStart \/ LoopStop
           \/ TickStart \/ TickGather \/ TickSkip \/ TickPublish
  <2>1. ClockType' /\ PollerType'
    BY <1>1, GoroutineType
  <2>2. UNCHANGED stopVars /\ UNCHANGED clientVars
    BY <1>1 DEF NewRead, NewSkip, NewReturn, LoopStart, LoopStop, TickStart, TickGather,
                TickSkip, TickPublish, stopVars, clientVars
  <2>3. StopType'
    BY <2>2 DEF StopType, stopVars
  <2>4. ClientType'
    BY <2>2 DEF ClientType, clientVars
  <2> QED BY <2>1, <2>3, <2>4
<1>2. CASE StopCall \/ StopReturn
  <2>1. StopType'
    BY <1>2 DEF StopCall, StopReturn, StopType
  <2>2. ClockType' /\ PollerType' /\ ClientType'
    BY <1>2 DEF StopCall, StopReturn, ClockType, PollerType, ClientType, clockVars,
                pollerVars, clientVars
  <2> QED BY <2>1, <2>2
<1>3. ASSUME NEW c \in Clients, Request(c) \/ ServeStored(c) \/ ServeLive(c)
      PROVE  TypeOK'
  <2>1. UNCHANGED <<clockVars, pollerVars, stopVars>>
    BY <1>3 DEF Request, ServeStored, ServeLive, Answer
  <2>2. ClockType' /\ PollerType' /\ StopType'
    BY <2>1 DEF ClockType, PollerType, StopType, clockVars, pollerVars, stopVars
  <2>3. CASE Request(c)
    <3>1. req' \in [Clients -> Seq(0..N)]
      BY <2>3, PollerAssumption DEF Request, ClientType
    <3>2. resp' \in [Clients -> Seq(Answers)] /\ since' \in [Clients -> Nat]
      BY <2>3 DEF Request, ClientType, ClockType
    <3> QED BY <2>2, <3>1, <3>2 DEF ClientType
  <2>4. CASE ServeStored(c)
    <3>1. store[Head(req[c])] \in Reading
      BY <2>4 DEF ServeStored, InStore, PollerType, Slot
    <3>2. store[Head(req[c])].at \in Nat /\ store[Head(req[c])].began \in Nat
      BY <3>1 DEF Reading
    <3> QED BY <2>2, <2>4, <3>2, AnswerType DEF ServeStored
  <2>5. CASE ServeLive(c)
    <3> DEFINE r == [at |-> mono, began |-> mono]
    <3>1. r.at \in Nat /\ r.began \in Nat
      BY DEF ClockType
    <3>2. req[c] # <<>> /\ Answer(c, "live", r)
      BY <2>5 DEF ServeLive
    <3> HIDE DEF r
    <3> QED BY <2>2, <3>1, <3>2, AnswerType
  <2> QED BY <1>3, <2>3, <2>4, <2>5
<1>4. CASE Advance \/ StepClock
  <2>1. ClockType'
    BY <1>4, PollerAssumption DEF Advance, StepClock, ClockType
  <2>2. PollerType' /\ StopType' /\ ClientType'
    BY <1>4 DEF Advance, StepClock, PollerType, StopType, ClientType, pollerVars,
                stopVars, clientVars
  <2> QED BY <2>1, <2>2
<1>5. CASE UNCHANGED vars
  BY <1>5 DEF vars, clockVars, pollerVars, stopVars, clientVars, ClockType, PollerType,
              StopType, ClientType
<1> QED BY <1>1, <1>2, <1>3, <1>4, <1>5 DEF Next

\* New starts with an empty store and both clocks in their types.
LEMMA TypeInit == Init => TypeOK
<1> SUFFICES ASSUME Init PROVE TypeOK
  OBVIOUS
<1>1. ClockType /\ StopType /\ ClientType
  BY PollerAssumption DEF Init, Begin, ClockType, StopType, ClientType
<1>2. PollerType
  BY PollerAssumption DEF Init, Begin, PollerType, Slot
<1> QED BY <1>1, <1>2 DEF TypeOK

\* The poller, the store and the handlers keep their types in every behaviour.
THEOREM TypeCorrect == Spec => []TypeOK
  BY TypeInit, TypeStep, PTL DEF Spec

-----------------------------------------------------------------------------
\* What the provers need to know of an entry of the store or the batch.
LEMMA SlotFacts ==
  ASSUME NEW s \in Slot
  PROVE  /\ s.at \in Int /\ s.began \in Int
         /\ s # Absent => s.at \in Nat /\ s.began \in Nat
         /\ s = Absent => s.began = -1
  BY DEF Slot, Reading, Absent

\* The period is at least the ttl and at least the time one piece of work takes,
\* plus one; ticks are delivered at most Larger(Interval, Slack) apart.
LEMMA PeriodFacts ==
  /\ \A m \in Metrics : /\ Period(m) \in Int
                        /\ Period(m) >= ttlNanos(m)
                        /\ Period(m) >= Slack + 1
  /\ Larger(Interval, Slack) \in Int
  /\ Larger(Interval, Slack) >= Interval
  /\ Larger(Interval, Slack) >= Slack
<1>1. ASSUME NEW a \in Int, NEW b \in Int
      PROVE  Larger(a, b) \in Int /\ Larger(a, b) >= a /\ Larger(a, b) >= b
  BY DEF Larger
<1>2. Interval \in Int /\ Slack \in Int /\ Slack + 1 \in Int
  BY PollerAssumption
<1>3. ASSUME NEW m \in Metrics
      PROVE  Period(m) \in Int /\ Period(m) >= ttlNanos(m) /\ Period(m) >= Slack + 1
  <2>1. ttlNanos(m) \in Int
    BY TtlType
  <2> QED BY <1>1, <1>2, <2>1 DEF Period
<1> QED BY <1>1, <1>2, <1>3

\* The store before newPoller: nothing is visited, and nothing is scheduled yet.
LEMMA InvInit == Init => PollerInvariant
<1> SUFFICES ASSUME Init PROVE PollerInvariant
  OBVIOUS
<1> USE PollerAssumption
<1>1. \A m \in Metrics : store[m] = Absent /\ batch[m] = Absent /\ ~Visited(m)
                       /\ store[m].began = -1
  BY DEF Init, Begin, Visited, Metrics, Absent
<1>2. ClockInv
  BY DEF Init, Begin, ClockInv, Running
<1>3. BatchInv /\ StoreInv
  BY <1>1 DEF Init, Begin, BatchInv, StoreInv
<1>4. TickInv /\ DeadlineInv /\ StopInv
  BY DEF Init, Begin, TickInv, DeadlineInv, StopInv
<1>5. CohortInv
  BY <1>1, MetricSets DEF Init, Begin, CohortInv
<1>6. ScheduleInv
  BY <1>1, MetricSets DEF Init, Begin, ScheduleInv, Gathered
<1> QED BY <1>2, <1>3, <1>4, <1>5, <1>6 DEF PollerInvariant

-----------------------------------------------------------------------------
(* One lemma per action: the action preserves each part of the invariant. *)

\* Handlers and Stop touch neither the clocks nor the poller.
LEMMA QuietStep ==
  ASSUME PollerInvariant, UNCHANGED <<clockVars, pollerVars>>,
         stopper' = "returned" => pc \in {"off", "done"}
  PROVE  PollerInvariant'
<1> USE DEF PollerInvariant, clockVars, pollerVars
<1>1. ClockInv' /\ BatchInv' /\ StoreInv' /\ TickInv' /\ StopInv'
  BY DEF ClockInv, Running, BatchInv, StoreInv, Visited, TickInv, StopInv
<1>2. CohortInv' /\ ScheduleInv' /\ DeadlineInv'
  BY DEF CohortInv, Visited, ScheduleInv, Gathered, DeadlineInv, Deadline
<1> QED BY <1>1, <1>2

\* newPoller reads a STATIC or scheduled metric.
LEMMA NewReadStep == TypeOK /\ PollerInvariant /\ NewRead => PollerInvariant'
<1> SUFFICES ASSUME TypeOK, PollerInvariant, NewRead PROVE PollerInvariant'
  OBVIOUS
<1> USE PollerAssumption, MetricSets DEF PollerInvariant, TypeOK, ClockType, PollerType
<1>1. /\ pc = "new" /\ pc' = "new" /\ idx \in Metrics /\ idx' = idx + 1
      /\ UNCHANGED <<mono, wall, fire, tickC, lag, now, began, batch, stopper>>
  BY DEF NewRead, clockVars, stopVars
<1>2. \A m \in Metrics : store'[m] = IF m = idx THEN ReadingNow ELSE store[m]
  BY DEF NewRead
<1>3. \A m \in Scheduled : nextGather'[m] = IF m = idx THEN now ELSE nextGather[m]
  BY <1>1 DEF NewRead
<1>4. /\ ReadingNow.at = mono /\ ReadingNow.began = began /\ ReadingNow # Absent
      /\ began = 0
  BY <1>1 DEF ReadingNow, Absent, ClockInv
<1>5. ClockInv' /\ BatchInv'
  BY <1>1 DEF ClockInv, Running, BatchInv
<1>6. StoreInv'
  <2> SUFFICES ASSUME NEW m \in Metrics
               PROVE  /\ store'[m].began <= began
                      /\ store'[m] # Absent => store'[m].at >= store'[m].began
                      /\ (m \in Scheduled /\ m < idx + 1) => store'[m] # Absent
                      /\ ~(m < idx + 1) => store'[m] = Absent
    BY <1>1 DEF StoreInv, Visited
  <2>1. CASE m = idx
    BY <1>2, <1>4, <2>1 DEF Metrics
  <2>2. CASE m # idx
    <3>1. store'[m] = store[m] /\ (m < idx + 1 <=> m < idx)
      BY <1>1, <1>2, <2>2 DEF Metrics
    <3> QED BY <1>1, <3>1 DEF StoreInv, Visited
  <2> QED BY <2>1, <2>2
<1>7. TickInv' /\ DeadlineInv' /\ StopInv'
  BY <1>1 DEF TickInv, DeadlineInv, StopInv
<1>8. CohortInv'
  BY <1>1, <1>2, <1>3, <1>4 DEF CohortInv, Visited, Metrics
<1>9. ScheduleInv'
  <2>1. \A m \in Metrics : store[m] \in Slot /\ store[m].began <= 0
    BY <1>4 DEF StoreInv
  <2>2. \A m \in Metrics : store'[m].began <= 0
    BY <1>2, <1>4, <2>1
  <2>3. \A m \in Metrics : store'[m].began \in Int
    BY <1>2, <1>4, <2>1, SlotFacts, SMTT(30)
  <2> QED BY <1>1, <2>2, <2>3 DEF ScheduleInv, Gathered
<1> QED BY <1>5, <1>6, <1>7, <1>8, <1>9

\* newPoller passes a metric that is neither.
LEMMA NewSkipStep == TypeOK /\ PollerInvariant /\ NewSkip => PollerInvariant'
<1> SUFFICES ASSUME TypeOK, PollerInvariant, NewSkip PROVE PollerInvariant'
  OBVIOUS
<1> USE PollerAssumption, MetricSets DEF PollerInvariant, TypeOK, ClockType, PollerType
<1>1. /\ pc = "new" /\ pc' = "new" /\ idx \in Metrics /\ idx \notin Scheduled /\ idx' = idx + 1
      /\ UNCHANGED <<mono, wall, fire, tickC, lag, now, began, nextGather, batch, store, stopper>>
  BY DEF NewSkip, clockVars, stopVars
<1>2. ClockInv' /\ BatchInv' /\ TickInv' /\ DeadlineInv' /\ StopInv'
  BY <1>1 DEF ClockInv, Running, BatchInv, TickInv, DeadlineInv, StopInv
<1>3. StoreInv' /\ CohortInv'
  BY <1>1 DEF StoreInv, CohortInv, Visited, Metrics
<1>4. ScheduleInv'
  BY <1>1 DEF ScheduleInv, Gathered
<1> QED BY <1>2, <1>3, <1>4

\* newPoller returns: every scheduled metric has been read and is due.
LEMMA NewReturnStep == TypeOK /\ PollerInvariant /\ NewReturn => PollerInvariant'
<1> SUFFICES ASSUME TypeOK, PollerInvariant, NewReturn PROVE PollerInvariant'
  OBVIOUS
<1> USE PollerAssumption, MetricSets DEF PollerInvariant, TypeOK, ClockType, PollerType
<1>1. /\ pc = "new" /\ pc' = "start" /\ idx = N + 1
      /\ UNCHANGED <<mono, wall, fire, tickC, lag, idx, now, began, nextGather, batch, store, stopper>>
  BY DEF NewReturn, clockVars, stopVars
<1>2. \A m \in Metrics : Visited(m)
  BY <1>1 DEF Visited, Metrics
<1>3. began = 0 /\ \A m \in Scheduled : nextGather[m] = now /\ store[m].began = began
  BY <1>1, <1>2 DEF CohortInv, ClockInv
<1>4. ClockInv' /\ BatchInv' /\ TickInv' /\ StopInv'
  BY <1>1 DEF ClockInv, Running, BatchInv, TickInv, StopInv
<1>5. StoreInv'
  BY <1>1, <1>2 DEF StoreInv
<1>6. CohortInv' /\ DeadlineInv'
  BY <1>1, <1>3 DEF CohortInv, DeadlineInv
<1>7. ScheduleInv'
  BY <1>1, <1>3, PeriodFacts DEF ScheduleInv, Gathered, ClockInv
<1> QED BY <1>4, <1>5, <1>6, <1>7

\* The goroutine starts its ticker: the first tick comes within every deadline.
LEMMA LoopStartStep == TypeOK /\ PollerInvariant /\ LoopStart => PollerInvariant'
<1> SUFFICES ASSUME TypeOK, PollerInvariant, LoopStart PROVE PollerInvariant'
  OBVIOUS
<1> USE PollerAssumption, MetricSets DEF PollerInvariant, TypeOK, ClockType, PollerType
<1>1. /\ pc = "start" /\ pc' = "select" /\ fire' = mono + Interval /\ lag' = 0
      /\ UNCHANGED <<mono, wall, tickC, idx, now, began, nextGather, batch, store, stopper>>
  BY DEF LoopStart, stopVars
<1>2. mono <= Slack /\ tickC = 0 /\ \A m \in Scheduled : store[m].began = 0
  BY <1>1 DEF ClockInv, DeadlineInv
<1>3. ClockInv' /\ BatchInv' /\ TickInv' /\ StopInv'
  BY <1>1 DEF ClockInv, Running, BatchInv, TickInv, StopInv
<1>4. StoreInv' /\ CohortInv' /\ ScheduleInv'
  BY <1>1 DEF StoreInv, CohortInv, ScheduleInv, Gathered, Visited
<1>5. DeadlineInv'
  BY <1>1, <1>2, PeriodFacts DEF DeadlineInv, Deadline
<1> QED BY <1>3, <1>4, <1>5

\* The goroutine leaves its loop.
LEMMA LoopStopStep == TypeOK /\ PollerInvariant /\ LoopStop => PollerInvariant'
<1> SUFFICES ASSUME TypeOK, PollerInvariant, LoopStop PROVE PollerInvariant'
  OBVIOUS
<1> USE DEF PollerInvariant
<1>1. /\ pc = "select" /\ pc' = "done"
      /\ UNCHANGED <<mono, wall, fire, tickC, lag, idx, now, began, nextGather, batch, store, stopper>>
  BY DEF LoopStop, clockVars, stopVars
<1>2. ClockInv' /\ BatchInv' /\ TickInv' /\ StopInv' /\ DeadlineInv'
  BY <1>1 DEF ClockInv, Running, BatchInv, TickInv, StopInv, DeadlineInv
<1>3. StoreInv' /\ CohortInv' /\ ScheduleInv'
  BY <1>1 DEF StoreInv, CohortInv, ScheduleInv, Gathered, Visited
<1> QED BY <1>2, <1>3

\* A tick begins: nothing is visited, and the deadline of every metric has been
\* met by the delivery of this tick.
LEMMA TickStartStep == TypeOK /\ PollerInvariant /\ TickStart => PollerInvariant'
<1> SUFFICES ASSUME TypeOK, PollerInvariant, TickStart PROVE PollerInvariant'
  OBVIOUS
<1> USE PollerAssumption, MetricSets DEF PollerInvariant, TypeOK, ClockType, PollerType
<1>1. /\ pc = "select" /\ tickC = 1 /\ tickC' = 0 /\ pc' = "tick" /\ idx' = 1
      /\ now' = wall /\ began' = mono
      /\ UNCHANGED <<mono, wall, fire, lag, nextGather, store, stopper>>
  BY DEF TickStart, stopVars
<1>2. \A m \in Metrics : batch'[m] = Absent /\ ~(m < idx')
  BY <1>1 DEF TickStart, Metrics
<1>3. ClockInv' /\ StopInv'
  BY <1>1 DEF ClockInv, Running, StopInv
<1>4. BatchInv' /\ TickInv'
  BY <1>2 DEF BatchInv, TickInv, Visited
<1>5. StoreInv'
  <2>1. \A m \in Metrics : store[m].began \in Int
    BY SlotFacts
  <2> QED BY <1>1, <2>1 DEF StoreInv, ClockInv
<1>6. CohortInv'
  BY <1>1, <1>2 DEF CohortInv, Visited
<1>7. ScheduleInv'
  BY <1>1, <1>2 DEF ScheduleInv, Gathered
<1>8. DeadlineInv'
  BY <1>1 DEF DeadlineInv, Deadline, ClockInv, Running
<1> QED BY <1>3, <1>4, <1>5, <1>6, <1>7, <1>8

\* A tick reads a metric that is due.
LEMMA TickGatherStep == TypeOK /\ PollerInvariant /\ TickGather => PollerInvariant'
<1> SUFFICES ASSUME TypeOK, PollerInvariant, TickGather PROVE PollerInvariant'
  OBVIOUS
<1> USE PollerAssumption, MetricSets, TtlType
        DEF PollerInvariant, TypeOK, ClockType, PollerType
<1>1. /\ pc = "tick" /\ pc' = "tick" /\ idx \in Metrics /\ idx' = idx + 1
      /\ idx \in Scheduled /\ nextGather[idx] <= now
      /\ UNCHANGED <<mono, wall, fire, tickC, lag, now, began, store, stopper>>
  BY DEF TickGather, Due, clockVars, stopVars
<1>2. \A m \in Metrics : batch'[m] = IF m = idx THEN ReadingNow ELSE batch[m]
  BY DEF TickGather
<1>3. \A m \in Metrics :
         nextGather'[m] = IF m = idx THEN now + ttlNanos(idx) ELSE nextGather[m]
  BY DEF TickGather
<1>4. ReadingNow.at = mono /\ ReadingNow.began = began /\ ReadingNow # Absent
  BY DEF ReadingNow, Absent
<1>5. \A m \in Metrics : m # idx => (m < idx + 1 <=> m < idx)
  BY <1>1 DEF Metrics
<1>6. idx < idx + 1 /\ ~(idx < idx) /\ batch[idx] = Absent
  BY <1>1 DEF TickInv, Visited, Metrics
<1>7. ClockInv' /\ StopInv'
  BY <1>1 DEF ClockInv, Running, StopInv
<1>8. BatchInv'
  BY <1>1, <1>2, <1>4 DEF BatchInv, ClockInv
<1>9. StoreInv'
  BY <1>1 DEF StoreInv
<1>10. TickInv'
  BY <1>1, <1>2, <1>3, <1>4, <1>5, <1>6 DEF TickInv, Visited
<1>11. CohortInv'
  <2> SUFFICES ASSUME NEW a \in Scheduled, NEW b \in Scheduled, ttlNanos(a) = ttlNanos(b)
               PROVE  /\ store[a].began = store[b].began
                      /\ (a < idx + 1 <=> b < idx + 1) =>
                            /\ nextGather'[a] = nextGather'[b]
                            /\ batch'[a] = Absent <=> batch'[b] = Absent
                      /\ (a < idx + 1 /\ ~(b < idx + 1)) =>
                            IF batch'[a] = Absent THEN nextGather'[a] = nextGather'[b]
                                                  ELSE nextGather'[b] <= now
    BY <1>1 DEF CohortInv, Visited
  <2> USE DEF CohortInv, Visited
  <2>1. CASE a = idx /\ b = idx
    BY <2>1, <1>1
  <2>2. CASE a = idx /\ b # idx
    <3>1. nextGather'[a] = now + ttlNanos(a) /\ batch'[a] # Absent
      BY <1>2, <1>3, <1>4, <2>2
    <3>2. nextGather'[b] = nextGather[b] /\ batch'[b] = batch[b]
      BY <1>2, <1>3, <2>2
    <3>3. CASE b < idx
      <4>1. batch[b] # Absent
        BY <1>1, <1>6, <2>2, <3>3 DEF TickInv
      <4>2. nextGather[b] = now + ttlNanos(b)
        BY <1>1, <4>1 DEF TickInv
      <4> QED BY <1>1, <1>5, <1>6, <2>2, <3>1, <3>2, <3>3, <4>1, <4>2
    <3>4. CASE ~(b < idx)
      <4>1. nextGather[b] = nextGather[a]
        BY <1>1, <1>6, <2>2, <3>4
      <4> QED BY <1>1, <1>5, <1>6, <2>2, <3>1, <3>2, <3>4, <4>1
    <3> QED BY <3>3, <3>4
  <2>3. CASE a # idx /\ b = idx
    <3>1. nextGather'[b] = now + ttlNanos(b) /\ batch'[b] # Absent
      BY <1>2, <1>3, <1>4, <2>3
    <3>2. nextGather'[a] = nextGather[a] /\ batch'[a] = batch[a]
      BY <1>2, <1>3, <2>3
    <3>3. CASE a < idx
      <4>1. batch[a] # Absent
        BY <1>1, <1>6, <2>3, <3>3 DEF TickInv
      <4>2. nextGather[a] = now + ttlNanos(a)
        BY <1>1, <4>1 DEF TickInv
      <4> QED BY <1>1, <1>5, <1>6, <2>3, <3>1, <3>2, <3>3, <4>1, <4>2
    <3>4. CASE ~(a < idx)
      BY <1>1, <1>5, <1>6, <2>3, <3>4
    <3> QED BY <3>3, <3>4
  <2>4. CASE a # idx /\ b # idx
    BY <1>1, <1>2, <1>3, <1>5, <2>4
  <2> QED BY <2>1, <2>2, <2>3, <2>4
<1>12. ScheduleInv'
  <2> SUFFICES ASSUME NEW m \in Scheduled
               PROVE  /\ batch'[m] = Absent =>
                            nextGather'[m] <= store[m].began + MaxSkew + Period(m)
                      /\ (batch'[m] = Absent /\ store[m].began > 0) =>
                            nextGather'[m] >= store[m].began - MaxSkew + ttlNanos(m)
                      /\ (batch'[m] # Absent /\ store[m].began > 0) =>
                            began >= store[m].began + ttlNanos(m) - 2 * MaxSkew
    BY <1>1 DEF ScheduleInv, Gathered
  <2>1. CASE m = idx
    <3>1. batch'[m] # Absent
      BY <1>2, <1>4, <2>1
    <3>2. store[m].began > 0 => nextGather[m] >= store[m].began - MaxSkew + ttlNanos(m)
      BY <1>1, <1>6, <2>1 DEF ScheduleInv, Gathered
    <3>3. store[m].began \in Int /\ ttlNanos(m) \in Int /\ nextGather[m] \in Int
      BY SlotFacts
    <3>4. nextGather[m] <= now /\ now - began <= MaxSkew
      BY <1>1, <2>1 DEF ClockInv
    <3> QED BY <3>1, <3>2, <3>3, <3>4, SMTT(30)
  <2>2. CASE m # idx
    BY <1>1, <1>2, <1>3, <2>2 DEF ScheduleInv, Gathered
  <2> QED BY <2>1, <2>2
<1>13. DeadlineInv'
  BY <1>1 DEF DeadlineInv, Deadline
<1> QED BY <1>7, <1>8, <1>9, <1>10, <1>11, <1>12, <1>13

\* A tick passes a metric that is not due, or not scheduled at all.
LEMMA TickSkipStep == TypeOK /\ PollerInvariant /\ TickSkip => PollerInvariant'
<1> SUFFICES ASSUME TypeOK, PollerInvariant, TickSkip PROVE PollerInvariant'
  OBVIOUS
<1> USE PollerAssumption, MetricSets, TtlType
        DEF PollerInvariant, TypeOK, ClockType, PollerType
<1>1. /\ pc = "tick" /\ pc' = "tick" /\ idx \in Metrics /\ idx' = idx + 1
      /\ idx \in Scheduled => nextGather[idx] > now
      /\ UNCHANGED <<mono, wall, fire, tickC, lag, now, began, nextGather, batch, store, stopper>>
  BY DEF TickSkip, Due, clockVars, stopVars
<1>2. \A m \in Metrics : m # idx => (m < idx + 1 <=> m < idx)
  BY <1>1 DEF Metrics
<1>3. idx < idx + 1 /\ ~(idx < idx) /\ (idx \in Scheduled => batch[idx] = Absent)
  BY <1>1 DEF TickInv, Visited, Metrics
<1>4. ClockInv' /\ StopInv' /\ BatchInv' /\ StoreInv' /\ ScheduleInv' /\ DeadlineInv'
  BY <1>1 DEF ClockInv, Running, StopInv, BatchInv, StoreInv, ScheduleInv, Gathered,
              DeadlineInv, Deadline
<1>5. TickInv'
  BY <1>1, <1>2, <1>3 DEF TickInv, Visited
<1>6. CohortInv'
  <2> SUFFICES ASSUME NEW a \in Scheduled, NEW b \in Scheduled, ttlNanos(a) = ttlNanos(b)
               PROVE  /\ store[a].began = store[b].began
                      /\ (a < idx + 1 <=> b < idx + 1) =>
                            /\ nextGather[a] = nextGather[b]
                            /\ batch[a] = Absent <=> batch[b] = Absent
                      /\ (a < idx + 1 /\ ~(b < idx + 1)) =>
                            IF batch[a] = Absent THEN nextGather[a] = nextGather[b]
                                                 ELSE nextGather[b] <= now
    BY <1>1 DEF CohortInv, Visited
  <2> USE DEF CohortInv, Visited
  <2>1. CASE a # idx /\ b # idx
    BY <1>1, <1>2, <2>1
  <2>2. CASE a = idx
    BY <1>1, <1>2, <1>3, <2>2
  <2>3. CASE b = idx /\ a # idx
    BY <1>1, <1>2, <1>3, <2>3
  <2> QED BY <2>1, <2>2, <2>3
<1> QED BY <1>4, <1>5, <1>6

\* putBatch: the store takes the batch over, and the deadline of every metric
\* moves on.
LEMMA TickPublishStep == TypeOK /\ PollerInvariant /\ TickPublish => PollerInvariant'
<1> SUFFICES ASSUME TypeOK, PollerInvariant, TickPublish PROVE PollerInvariant'
  OBVIOUS
<1> USE PollerAssumption, MetricSets, TtlType
        DEF PollerInvariant, TypeOK, ClockType, PollerType
<1>1. /\ pc = "tick" /\ pc' = "select" /\ idx = N + 1 /\ lag' = 0
      /\ UNCHANGED <<mono, wall, fire, tickC, idx, now, began, nextGather, batch, stopper>>
  BY DEF TickPublish, stopVars
<1>2. \A m \in Metrics : store'[m] = IF batch[m] = Absent THEN store[m] ELSE batch[m]
  BY DEF TickPublish, Merge
<1>3. \A m \in Metrics : m < idx
  BY <1>1 DEF Metrics
<1>4. \A m \in Metrics : /\ store[m].began \in Int /\ store'[m].began \in Int
                         /\ batch[m].began \in Int
  BY SlotFacts, <1>2
<1>5. \A m \in Scheduled : /\ batch[m] = Absent => nextGather[m] > now
                           /\ batch[m] # Absent => nextGather[m] = now + ttlNanos(m)
                           /\ batch[m] # Absent => store'[m].began = began
  BY <1>1, <1>2, <1>3 DEF TickInv, Visited, BatchInv
<1>6. ClockInv' /\ StopInv' /\ BatchInv' /\ TickInv'
  BY <1>1 DEF ClockInv, Running, StopInv, BatchInv, TickInv
<1>7. StoreInv'
  BY <1>1, <1>2 DEF StoreInv, BatchInv
<1>8. CohortInv'
  <2> SUFFICES ASSUME NEW a \in Scheduled, NEW b \in Scheduled, ttlNanos(a) = ttlNanos(b)
               PROVE  store'[a].began = store'[b].began /\ nextGather[a] = nextGather[b]
    BY <1>1 DEF CohortInv
  <2>1. /\ nextGather[a] = nextGather[b] /\ store[a].began = store[b].began
        /\ batch[a] = Absent <=> batch[b] = Absent
    BY <1>1, <1>3 DEF CohortInv, Visited
  <2> QED BY <1>2, <1>5, <2>1
<1>9. ASSUME NEW m \in Scheduled
      PROVE  /\ nextGather[m] <= store'[m].began + MaxSkew + Period(m)
             /\ store'[m].began > 0 => nextGather[m] >= store'[m].began - MaxSkew + ttlNanos(m)
             /\ began <= store'[m].began + Period(m) - 1 + 2 * MaxSkew
  <2>1. CASE batch[m] = Absent
    <3>1. store'[m] = store[m]
      BY <1>2, <2>1
    <3>2. /\ nextGather[m] <= store[m].began + MaxSkew + Period(m)
          /\ store[m].began > 0 => nextGather[m] >= store[m].began - MaxSkew + ttlNanos(m)
      BY <1>1, <2>1 DEF ScheduleInv, Gathered
    <3>3. nextGather[m] > now /\ began - now <= MaxSkew /\ nextGather[m] \in Int
      BY <1>5, <2>1 DEF ClockInv
    <3> QED BY <1>4, <3>1, <3>2, <3>3, PeriodFacts, SMTT(30)
  <2>2. CASE batch[m] # Absent
    <3>1. store'[m].began = began /\ nextGather[m] = now + ttlNanos(m) /\ ttlNanos(m) \in Int
      BY <1>5, <2>2
    <3>2. now - began <= MaxSkew /\ began - now <= MaxSkew
      BY DEF ClockInv
    <3>3. Period(m) \in Int /\ Period(m) >= ttlNanos(m) /\ Period(m) >= 1
      BY PeriodFacts
    <3> QED BY <3>1, <3>2, <3>3
  <2> QED BY <2>1, <2>2
<1>10. ScheduleInv'
  BY <1>1, <1>9 DEF ScheduleInv, Gathered
<1>11. DeadlineInv'
  <2>1. mono - lag <= began /\ mono < fire /\ (tickC = 0 => fire <= began + Interval)
    BY <1>1 DEF DeadlineInv, ClockInv, Running
  <2>2. mono <= began + Slack
    BY <2>1
  <2> SUFFICES ASSUME NEW m \in Scheduled
               PROVE  IF tickC = 0 THEN fire <= Deadline(m)' ELSE mono - 0 <= Deadline(m)'
    BY <1>1 DEF DeadlineInv
  <2>3. Deadline(m)' = store'[m].began + Period(m) - 1 + 2 * MaxSkew + Larger(Interval, Slack)
    BY DEF Deadline
  <2>4. /\ Larger(Interval, Slack) \in Int /\ Larger(Interval, Slack) >= Interval
        /\ Larger(Interval, Slack) >= Slack /\ Period(m) \in Int /\ store'[m].began \in Int
    BY <1>4, PeriodFacts
  <2>5. began <= store'[m].began + Period(m) - 1 + 2 * MaxSkew
    BY <1>9
  <2> QED BY <2>1, <2>2, <2>3, <2>4, <2>5
<1> QED BY <1>6, <1>7, <1>8, <1>10, <1>11

\* Time passes: a deadline is met because the ticker fires by then and because a
\* piece of work takes no more than Slack.
LEMMA AdvanceStep == TypeOK /\ PollerInvariant /\ Advance => PollerInvariant'
<1> SUFFICES ASSUME TypeOK, PollerInvariant, Advance PROVE PollerInvariant'
  OBVIOUS
<1> USE PollerAssumption, MetricSets DEF PollerInvariant, TypeOK, ClockType, PollerType
<1>1. /\ mono' = mono + 1 /\ wall' = wall + 1
      /\ lag' = IF Busy THEN lag + 1 ELSE 0
      /\ UNCHANGED <<pc, idx, now, began, nextGather, batch, store, stopper>>
  BY DEF Advance, pollerVars, stopVars
<1>2. \/ Running /\ mono + 1 >= fire /\ tickC' = 1 /\ fire' = fire + Interval
      \/ ~(Running /\ mono + 1 >= fire) /\ tickC' = tickC /\ fire' = fire
  BY DEF Advance, Running
<1>3. ClockInv'
  BY <1>1, <1>2 DEF ClockInv, Running, Busy
<1>4. BatchInv' /\ StoreInv' /\ TickInv' /\ CohortInv' /\ ScheduleInv' /\ StopInv'
  BY <1>1 DEF BatchInv, StoreInv, TickInv, CohortInv, ScheduleInv, StopInv, Visited, Gathered
<1>5. DeadlineInv'
  <2>1. CASE pc = "select"
    <3>1. mono < fire
      BY <2>1 DEF ClockInv, Running
    <3> SUFFICES ASSUME NEW m \in Scheduled
                 PROVE  IF tickC' = 0 THEN fire' <= Deadline(m) ELSE mono' - lag' <= Deadline(m)
      BY <1>1, <2>1 DEF DeadlineInv, Deadline
    <3>2. IF tickC = 0 THEN fire <= Deadline(m) ELSE mono - lag <= Deadline(m)
      BY <2>1 DEF DeadlineInv
    <3>3. Deadline(m) \in Int
      BY SlotFacts, PeriodFacts DEF Deadline
    <3> QED BY <1>1, <1>2, <2>1, <3>1, <3>2, <3>3 DEF Busy, Running
  <2>2. CASE pc = "tick"
    <3>1. mono' - lag' = mono - lag
      BY <1>1, <2>2 DEF Busy
    <3> QED BY <1>1, <1>2, <2>2, <3>1, SMTT(30) DEF DeadlineInv, Deadline
  <2>3. CASE pc \notin {"select", "tick"}
    BY <1>1, <2>3 DEF DeadlineInv
  <2> QED BY <2>1, <2>2, <2>3
<1> QED BY <1>3, <1>4, <1>5

\* The wall clock is stepped: nothing that was sampled changes.
LEMMA StepClockStep == TypeOK /\ PollerInvariant /\ StepClock => PollerInvariant'
<1> SUFFICES ASSUME TypeOK, PollerInvariant, StepClock PROVE PollerInvariant'
  OBVIOUS
<1> USE PollerAssumption DEF PollerInvariant, TypeOK, ClockType, PollerType
<1>1. /\ wall' - mono <= MaxSkew /\ mono - wall' <= MaxSkew
      /\ UNCHANGED <<mono, fire, tickC, lag, pc, idx, now, began, nextGather, batch, store, stopper>>
  BY DEF StepClock, pollerVars, stopVars
<1>2. ClockInv'
  BY <1>1 DEF ClockInv, Running
<1>3. BatchInv' /\ StoreInv' /\ TickInv' /\ CohortInv' /\ ScheduleInv' /\ StopInv' /\ DeadlineInv'
  BY <1>1 DEF BatchInv, StoreInv, TickInv, CohortInv, ScheduleInv, StopInv, Visited, Gathered,
              DeadlineInv, Deadline
<1> QED BY <1>2, <1>3

\* The invariant is inductive.
LEMMA InvStep == TypeOK /\ PollerInvariant /\ [Next]_vars => PollerInvariant'
<1> SUFFICES ASSUME TypeOK, PollerInvariant, [Next]_vars PROVE PollerInvariant'
  OBVIOUS
<1>1. CASE StopCall \/ StopReturn
  <2>1. stopper' = "returned" => pc \in {"off", "done"}
    BY <1>1 DEF StopCall, StopReturn
  <2> QED BY <1>1, <2>1, QuietStep DEF StopCall, StopReturn
<1>2. ASSUME NEW c \in Clients, Request(c) \/ ServeStored(c) \/ ServeLive(c)
      PROVE  PollerInvariant'
  <2>1. UNCHANGED <<clockVars, pollerVars, stopVars>>
    BY <1>2 DEF Request, ServeStored, ServeLive, Answer
  <2> QED BY <2>1, QuietStep DEF stopVars, PollerInvariant, StopInv
<1>3. CASE UNCHANGED vars
  BY <1>3, QuietStep DEF vars, stopVars, PollerInvariant, StopInv
<1> QED
  BY <1>1, <1>2, <1>3, NewReadStep, NewSkipStep, NewReturnStep, LoopStartStep, LoopStopStep,
     TickStartStep, TickGatherStep, TickSkipStep, TickPublishStep, AdvanceStep, StepClockStep
     DEF Next

-----------------------------------------------------------------------------
\* The invariant holds in every state of every behaviour.
THEOREM InvCorrect == Spec => []PollerInvariant
  BY TypeInit, TypeStep, InvInit, InvStep, PTL DEF Spec

\* For every registry, interval, slack and skew, no stored value of a POLLED or
\* CONSTRAINED metric outlives its bound while the poller runs (tick).
THEOREM StalenessBounded == Spec => []BoundedStaleness
<1>1. TypeOK /\ PollerInvariant => BoundedStaleness
  <2> SUFFICES ASSUME TypeOK, PollerInvariant, pc \in {"start", "select", "tick"},
                      NEW m \in Scheduled
               PROVE  mono - store[m].at < MaxAge(m) + 2 * MaxSkew
    BY DEF BoundedStaleness
  <2> USE PollerAssumption, MetricSets DEF PollerInvariant, TypeOK, ClockType, PollerType
  <2>1. store[m] \in Slot /\ store[m] # Absent
    BY DEF StoreInv
  <2>2. store[m].at \in Int /\ store[m].began \in Int /\ store[m].at >= store[m].began
    BY <2>1, SlotFacts DEF StoreInv
  <2>3. CASE pc = "start"
    <3>1. mono <= Slack /\ store[m].began = 0
      BY <2>3 DEF ClockInv, DeadlineInv
    <3> QED BY <2>2, <3>1, PeriodFacts, SMTT(30) DEF MaxAge
  <2>4. CASE pc \in {"select", "tick"}
    <3>1. Period(m) \in Int /\ Larger(Interval, Slack) \in Int
      BY PeriodFacts
    <3>2. Deadline(m) \in Int
      BY <2>2, <3>1 DEF Deadline
    <3>3. mono - lag <= Deadline(m)
      BY <2>4, <3>2 DEF DeadlineInv, ClockInv, Running
    <3>4. mono <= Deadline(m) + Slack
      BY <3>2, <3>3
    <3> QED BY <2>2, <3>1, <3>4, SMTT(30) DEF MaxAge, Deadline
  <2> QED BY <2>3, <2>4
<1> QED BY <1>1, TypeCorrect, InvCorrect, PTL

\* For every registry: metrics of one ttl are always published together.
THEOREM CohortsAtomic == Spec => []CohortAtomic
<1>1. PollerInvariant => CohortAtomic
  BY DEF PollerInvariant, CohortInv, CohortAtomic
<1> QED BY <1>1, InvCorrect, PTL

-----------------------------------------------------------------------------
(* Action properties: what a step never does to the store. *)

\* Only newPoller's reads and putBatch write the store.
LEMMA StoreWriters == [Next]_vars => UNCHANGED store \/ NewRead \/ TickPublish
  BY DEF Next, vars, clockVars, pollerVars, stopVars, clientVars, NewSkip, NewReturn, LoopStart,
         LoopStop, TickStart, TickGather, TickSkip, StopCall, StopReturn, Request, ServeStored,
         ServeLive, Answer, Advance, StepClock

\* For every registry: a STATIC metric is frozen once newPoller has returned.
THEOREM StaticsFrozen == Spec => StaticFrozen
<1>1. TypeOK /\ PollerInvariant /\ [Next]_vars
        => [pc # "new" => \A m \in Static : store'[m] = store[m]]_vars
  <2> SUFFICES ASSUME TypeOK, PollerInvariant, [Next]_vars, pc # "new", NEW m \in Static
               PROVE  store'[m] = store[m]
    OBVIOUS
  <2>1. m \in Metrics /\ m \notin Scheduled
    BY DEF Static, Scheduled
  <2>2. CASE TickPublish
    BY <2>1, <2>2 DEF TickPublish, Merge, PollerInvariant, BatchInv
  <2> QED BY <2>2, StoreWriters DEF NewRead
<1> QED BY <1>1, TypeCorrect, InvCorrect, PTL DEF Spec, StaticFrozen

\* A step never replaces a reading by one of an earlier tick.
LEMMA StoreGrows ==
  ASSUME TypeOK, PollerInvariant, [Next]_vars, NEW m \in Metrics
  PROVE  store'[m].began >= store[m].began
<1> USE MetricSets DEF PollerInvariant, TypeOK, PollerType
<1>1. store[m].began \in Int /\ store[m].began <= began
  BY SlotFacts DEF StoreInv
<1>2. CASE NewRead
  BY <1>1, <1>2 DEF NewRead, ReadingNow
<1>3. CASE TickPublish
  BY <1>1, <1>3 DEF TickPublish, Merge, BatchInv
<1> QED BY <1>1, <1>2, <1>3, StoreWriters

\* For every registry and clock behaviour: the store never goes back to a reading
\* of an earlier tick, and never loses an entry.
THEOREM StoreAdvances == Spec => StoreNeverRegresses
<1>1. TypeOK /\ PollerInvariant /\ [Next]_vars
        => [\A m \in Metrics : store'[m].began >= store[m].began]_vars
  BY StoreGrows
<1> QED BY <1>1, TypeCorrect, InvCorrect, PTL DEF Spec, StoreNeverRegresses

\* For every registry and clock behaviour: the poller does not read a metric again
\* before its ttl, less what the clock was stepped by.
THEOREM PollingBounded == Spec => NoOverPolling
<1>1. TypeOK /\ PollerInvariant /\ [Next]_vars
        => [\A m \in Scheduled :
              (store'[m].began # store[m].began /\ store[m].began > 0)
                 => store'[m].began - store[m].began >= ttlNanos(m) - 2 * MaxSkew]_vars
  <2> SUFFICES ASSUME TypeOK, PollerInvariant, [Next]_vars, NEW m \in Scheduled,
                      store'[m].began # store[m].began, store[m].began > 0
               PROVE  store'[m].began - store[m].began >= ttlNanos(m) - 2 * MaxSkew
    OBVIOUS
  <2> USE MetricSets, PollerAssumption DEF PollerInvariant, TypeOK, PollerType, ClockType
  <2>1. store[m].began \in Int /\ ttlNanos(m) \in Int /\ store[m].began <= began
    BY SlotFacts, TtlType DEF StoreInv
  <2>2. ~NewRead
    BY <2>1 DEF NewRead, ClockInv
  <2>3. CASE TickPublish
    <3>1. store'[m] = IF batch[m] = Absent THEN store[m] ELSE batch[m]
      BY <2>3 DEF TickPublish, Merge
    <3>2. pc = "tick" /\ batch[m] # Absent /\ store'[m].began = began
      BY <2>3, <3>1 DEF TickPublish, BatchInv
    <3>3. began >= store[m].began + ttlNanos(m) - 2 * MaxSkew
      BY <3>2 DEF ScheduleInv, Gathered
    <3> QED BY <2>1, <3>2, <3>3
  <2> QED BY <2>2, <2>3, StoreWriters
<1> QED BY <1>1, TypeCorrect, InvCorrect, PTL DEF Spec, NoOverPolling

\* For every registry and interleaving: no tick writes the store after Stop.
THEOREM QuietStopped == Spec => QuietAfterStop
<1>1. PollerInvariant /\ [Next]_vars => [stopper = "returned" => UNCHANGED store]_vars
  BY StoreWriters DEF PollerInvariant, StopInv, NewRead, TickPublish
<1> QED BY <1>1, InvCorrect, PTL DEF Spec, QuietAfterStop

-----------------------------------------------------------------------------
(***************************************************************************)
(* The handlers: what one response may hold.  ResponseInv is inductive     *)
(* relative to TypeOK and PollerInvariant.                                 *)
(***************************************************************************)

\* The steps of the goroutine, of Stop and of the environment: the answers given
\* stay, and the ticks in the store only advance.
LEMMA ResponsesKept ==
  ASSUME TypeOK, PollerInvariant, ResponseInv, UNCHANGED clientVars,
         pc' = "new" => pc = "new", mono' \in Nat, mono' >= mono, LiveInv',
         \A m \in Metrics : store'[m].began \in Int /\ store'[m].began >= store[m].began
  PROVE  ResponseInv'
<1> USE MetricSets DEF ResponseInv, TypeOK, ClockType, PollerType, ClientType
<1>1. req' = req /\ resp' = resp /\ since' = since
  BY DEF clientVars
<1>2. HandlerInv'
  BY <1>1 DEF HandlerInv
<1>3. ASSUME NEW c \in Clients, NEW i \in 1..Len(resp[c])
      PROVE  AnswerInv(c, resp[c][i])'
  <2>1. AnswerInv(c, resp[c][i]) /\ resp[c][i] \in Answers
    OBVIOUS
  <2>2. resp[c][i].began \in Nat
    BY <2>1 DEF Answers
  <2>3. resp[c][i].name \in Scheduled => store[resp[c][i].name].began \in Int
    BY SlotFacts
  <2> QED BY <1>1, <2>1, <2>2, <2>3, SMTT(30) DEF AnswerInv
<1>4. ResponseCoherent'
  BY <1>1 DEF ResponseCoherent
<1> QED BY <1>1, <1>2, <1>3, <1>4

\* A request opens an empty response.
LEMMA RequestKeeps ==
  ASSUME TypeOK, ResponseInv, NEW c \in Clients, Request(c)
  PROVE  ResponseInv'
<1> USE DEF ResponseInv, TypeOK, ClockType, ClientType
<1>1. /\ UNCHANGED <<mono, pc, store>> /\ pc # "new"
      /\ resp' = [resp EXCEPT ![c] = <<>>] /\ since' = [since EXCEPT ![c] = mono]
  BY DEF Request, clockVars, pollerVars
<1>2. resp'[c] = <<>> /\ since'[c] = mono
  BY <1>1
<1>3. \A d \in Clients : d # c => resp'[d] = resp[d] /\ since'[d] = since[d]
  BY <1>1
<1>4. LiveInv' /\ HandlerInv'
  BY <1>1, <1>2, <1>3 DEF LiveInv, HandlerInv
<1>5. ASSUME NEW d \in Clients, NEW i \in 1..Len(resp'[d])
      PROVE  AnswerInv(d, resp[d][i])'
  <2>1. d # c
    BY <1>2
  <2> QED BY <1>1, <1>3, <2>1 DEF AnswerInv
<1>6. ResponseCoherent'
  <2> SUFFICES ASSUME NEW d \in Clients, NEW i \in 1..Len(resp'[d]), NEW j \in 1..Len(resp'[d]),
                      i < j,
                      resp'[d][i].from = "store", resp'[d][i].name \in Scheduled,
                      resp'[d][j].from = "store", resp'[d][j].name \in Scheduled,
                      ttlNanos(resp'[d][i].name) = ttlNanos(resp'[d][j].name)
               PROVE  resp'[d][i].began <= resp'[d][j].began
    BY DEF ResponseCoherent
  <2>1. d # c
    BY <1>2
  <2> QED BY <1>3, <2>1 DEF ResponseCoherent
<1> QED BY <1>4, <1>5, <1>6

\* In the store, metrics of one ttl have one tick (the part of CohortInv that an
\* answer needs).
LEMMA OneTick ==
  ASSUME PollerInvariant, pc # "new"
  PROVE  \A m, n \in Scheduled :
            ttlNanos(m) = ttlNanos(n) => store[m].began = store[n].began
  BY DEF PollerInvariant, CohortInv

\* An answer extends a response: it is sound by itself, and if it is a stored
\* reading it is as late as the store, so no earlier answer of its ttl is later.
LEMMA AnswerKeeps ==
  ASSUME TypeOK, PollerInvariant, ResponseInv, NEW c \in Clients,
         NEW from \in {"store", "live"}, NEW r, req[c] # <<>>,
         r.at \in Nat, r.began \in Nat, Answer(c, from, r),
         from = "store" => Head(req[c]) \in Static \cup Scheduled /\ r = store[Head(req[c])],
         from = "live" => r.at = mono
  PROVE  ResponseInv'
<1> USE MetricSets DEF ResponseInv, TypeOK, ClockType, ClientType, PollerType
<1> DEFINE a == [name |-> Head(req[c]), from |-> from, at |-> r.at, began |-> r.began]
<1>1. /\ UNCHANGED <<mono, pc, store, since>>
      /\ resp' = [resp EXCEPT ![c] = Append(@, a)]
  BY DEF Answer, clockVars, pollerVars
<1>2. pc # "new" /\ pc' # "new" /\ since[c] <= mono
  BY <1>1 DEF HandlerInv
<1>3. /\ a.name = Head(req[c]) /\ a.from = from /\ a.at = r.at /\ a.began = r.began
  OBVIOUS
<1> HIDE DEF a
<1>4. /\ resp'[c] = Append(resp[c], a)
      /\ \A d \in Clients : d # c => resp'[d] = resp[d]
  BY <1>1
<1>5. resp[c] \in Seq(Answers) /\ Len(resp[c]) \in Nat
  OBVIOUS
<1>6. /\ Len(resp'[c]) = Len(resp[c]) + 1
      /\ resp'[c][Len(resp[c]) + 1] = a
      /\ \A i \in 1..Len(resp[c]) : resp'[c][i] = resp[c][i]
  BY <1>4, <1>5, AppendProperties
<1>7. /\ a.from = "store" => a.began = store[a.name].began
      /\ a.name \notin Static \cup Scheduled => a.at >= since[c]
  BY <1>2, <1>3
<1>8. LiveInv' /\ HandlerInv'
  BY <1>1, <1>2 DEF LiveInv, HandlerInv
<1>9. ASSUME NEW d \in Clients, NEW i \in 1..Len(resp'[d])
      PROVE  AnswerInv(d, resp[d][i])'
  <2>1. CASE d # c
    BY <1>1, <1>4, <2>1 DEF AnswerInv
  <2>2. CASE d = c /\ i \in 1..Len(resp[c])
    BY <1>1, <1>6, <2>2 DEF AnswerInv
  <2>3. CASE d = c /\ i = Len(resp[c]) + 1
    <3>1. a.began \in Int
      BY <1>3
    <3> QED BY <1>1, <1>6, <1>7, <2>3, <3>1 DEF AnswerInv
  <2> QED BY <1>5, <1>6, <2>1, <2>2, <2>3
<1>10. ResponseCoherent'
  <2> SUFFICES ASSUME NEW d \in Clients, NEW i \in 1..Len(resp'[d]), NEW j \in 1..Len(resp'[d]),
                      i < j,
                      resp'[d][i].from = "store", resp'[d][i].name \in Scheduled,
                      resp'[d][j].from = "store", resp'[d][j].name \in Scheduled,
                      ttlNanos(resp'[d][i].name) = ttlNanos(resp'[d][j].name)
               PROVE  resp'[d][i].began <= resp'[d][j].began
    BY DEF ResponseCoherent
  <2>1. CASE d # c
    BY <1>4, <2>1 DEF ResponseCoherent
  <2>2. CASE d = c /\ j \in 1..Len(resp[c])
    <3>1. i \in 1..Len(resp[c])
      BY <1>5, <1>6, <2>2
    <3> QED BY <1>6, <2>2, <3>1 DEF ResponseCoherent
  <2>3. CASE d = c /\ j = Len(resp[c]) + 1
    <3>1. i \in 1..Len(resp[c]) /\ resp'[d][i] = resp[c][i] /\ resp'[d][j] = a
      BY <1>5, <1>6, <2>3
    <3>2. resp[c][i].began <= store[resp[c][i].name].began
      BY <3>1 DEF AnswerInv
    <3>3. store[resp[c][i].name].began = store[a.name].began
      <4>1. /\ resp[c][i].name \in Scheduled /\ a.name \in Scheduled
            /\ ttlNanos(resp[c][i].name) = ttlNanos(a.name)
        BY <3>1
      <4> QED BY <1>2, <4>1, OneTick
    <3> QED BY <1>7, <3>1, <3>2, <3>3
  <2> QED BY <1>5, <1>6, <2>1, <2>2, <2>3
<1> QED BY <1>8, <1>9, <1>10

\* Every step keeps the invariant of the handlers.
LEMMA ResponseStep ==
  TypeOK /\ PollerInvariant /\ ResponseInv /\ [Next]_vars => ResponseInv'
<1> SUFFICES ASSUME TypeOK, PollerInvariant, ResponseInv, [Next]_vars PROVE ResponseInv'
  OBVIOUS
<1>1. ASSUME NEW c \in Clients, Request(c) \/ ServeStored(c) \/ ServeLive(c)
      PROVE  ResponseInv'
  <2>1. CASE Request(c)
    BY <2>1, RequestKeeps
  <2>2. CASE ServeStored(c)
    <3>1. /\ req[c] # <<>> /\ Answer(c, "store", store[Head(req[c])])
          /\ Head(req[c]) \in Metrics /\ store[Head(req[c])] # Absent
      BY <2>2 DEF ServeStored, InStore
    <3>2. Head(req[c]) \in Static \cup Scheduled
      BY <3>1 DEF ResponseInv, LiveInv
    <3>3. store[Head(req[c])].at \in Nat /\ store[Head(req[c])].began \in Nat
      BY <3>1, SlotFacts DEF TypeOK, PollerType
    <3> QED BY <3>1, <3>2, <3>3, AnswerKeeps
  <2>3. CASE ServeLive(c)
    <3> DEFINE r == [at |-> mono, began |-> mono]
    <3>1. r.at = mono /\ r.at \in Nat /\ r.began \in Nat
      BY DEF TypeOK, ClockType
    <3>2. req[c] # <<>> /\ Answer(c, "live", r)
      BY <2>3 DEF ServeLive
    <3> HIDE DEF r
    <3> QED BY <3>1, <3>2, AnswerKeeps
  <2> QED BY <1>1, <2>1, <2>2, <2>3
<1>2. ASSUME ~ \E c \in Clients : Request(c) \/ ServeStored(c) \/ ServeLive(c)
      PROVE  ResponseInv'
  <2>1. UNCHANGED clientVars /\ (pc' = "new" => pc = "new")
    BY <1>2 DEF Next, vars, pollerVars, NewRead, NewSkip, NewReturn, LoopStart, LoopStop,
                TickStart, TickGather, TickSkip, TickPublish, StopCall, StopReturn, Advance,
                StepClock
  <2>2. mono' \in Nat /\ mono' >= mono
    BY <1>2 DEF Next, vars, clockVars, NewRead, NewSkip, NewReturn, LoopStart, LoopStop,
                TickStart, TickGather, TickSkip, TickPublish, StopCall, StopReturn, Advance,
                StepClock, TypeOK, ClockType
  <2>3. \A m \in Metrics : store'[m].began \in Int /\ store'[m].began >= store[m].began
    <3>1. \A m \in Metrics : store'[m] \in Slot
      BY TypeStep DEF TypeOK, PollerType
    <3> QED BY <3>1, SlotFacts, StoreGrows
  <2>4. LiveInv'
    BY StoreWriters DEF ResponseInv, LiveInv, NewRead, TickPublish, Merge, PollerInvariant,
                        BatchInv, TypeOK, PollerType
  <2> QED BY <2>1, <2>2, <2>3, <2>4, ResponsesKept
<1> QED BY <1>1, <1>2

\* The invariant of the handlers holds in every state of every behaviour.
LEMMA ResponsesCorrect == Spec => []ResponseInv
<1>1. Init => ResponseInv
  BY DEF Init, ResponseInv, LiveInv, HandlerInv, ResponseCoherent
<1> QED BY <1>1, ResponseStep, TypeCorrect, InvCorrect, PTL DEF Spec

\* For every registry, clock behaviour and number of handlers: within one response
\* the metrics of one ttl never step back to an older tick (GetMetrics reading the
\* store name by name while ticks publish).
THEOREM ResponsesCoherent == Spec => []ResponseCoherent
<1>1. ResponseInv => ResponseCoherent
  BY DEF ResponseInv
<1> QED BY <1>1, ResponsesCorrect, PTL

\* For every registry: what readMetric answers for a metric that newPoller does
\* not keep (a DISABLED one aside), or for an unknown name, was read after the
\* request arrived.
THEOREM LiveReadsLive == Spec => []LiveIsLive
<1>1. ResponseInv => LiveIsLive
  BY DEF ResponseInv, AnswerInv, LiveIsLive
<1> QED BY <1>1, ResponsesCorrect, PTL
=============================================================================
