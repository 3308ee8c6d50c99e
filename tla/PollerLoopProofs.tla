-------------------------- MODULE PollerLoopProofs --------------------------
(***************************************************************************)
(* Theorems about PollerLoop, for every set of names, of values and of     *)
(* readers: the lock of the store does its work, and what get and putBatch *)
(* do with it is a store in which a batch appears in one step.             *)
(***************************************************************************)
EXTENDS PollerLoop, TLAPS

\* A get is idle, has a name to look up, or has what it found.
LEMMA GetCases ==
  ASSUME NEW g \in Gets
  PROVE  \/ g = RIdle
         \/ \E st \in {"called", "blocked", "locked"}, n \in Names : g = Get(st, n)
         \/ \E st \in {"looked", "unlocked"}, v \in Slots : g = Got(st, v)
  BY DEF Gets

\* The states of a get tell the three shapes apart.
LEMMA GetShape ==
  ASSUME NEW g \in Gets
  PROVE  /\ g.st \in {"idle", "called", "blocked", "locked", "looked", "unlocked"}
         /\ g.st = "idle" => g = RIdle
         /\ g.st \in {"called", "blocked", "locked"} => g.name \in Names /\ g = Get(g.st, g.name)
         /\ g.st \in {"looked", "unlocked"} => g.got \in Slots /\ g = Got(g.st, g.got)
<1>1. CASE g = RIdle
  BY <1>1 DEF RIdle
<1>2. CASE \E st \in {"called", "blocked", "locked"}, n \in Names : g = Get(st, n)
  BY <1>2 DEF Get
<1>3. CASE \E st \in {"looked", "unlocked"}, v \in Slots : g = Got(st, v)
  BY <1>3 DEF Got
<1> QED BY <1>1, <1>2, <1>3, GetCases

\* The shapes are gets.
LEMMA GetsIntro ==
  /\ RIdle \in Gets
  /\ \A st \in {"called", "blocked", "locked"}, n \in Names : Get(st, n) \in Gets
  /\ \A st \in {"looked", "unlocked"}, v \in Slots : Got(st, v) \in Gets
  BY DEF Gets

\* What a get waiting for or holding the lock becomes when it is moved on.
LEMMA GetMoves ==
  ASSUME NEW g \in Gets
  PROVE  /\ \A t \in {"blocked", "locked"} : g.st \in {"called", "blocked"} =>
              /\ [g EXCEPT !.st = t] = Get(t, g.name)
              /\ [g EXCEPT !.st = t] \in Gets
         /\ g.st = "looked" =>
              /\ [g EXCEPT !.st = "unlocked"] = Got("unlocked", g.got)
              /\ [g EXCEPT !.st = "unlocked"] \in Gets
<1>1. ASSUME NEW t \in {"blocked", "locked"}, g.st \in {"called", "blocked"}
      PROVE  [g EXCEPT !.st = t] = Get(t, g.name) /\ [g EXCEPT !.st = t] \in Gets
  <2>1. g.name \in Names /\ g = Get(g.st, g.name)
    BY <1>1, GetShape
  <2>2. [g EXCEPT !.st = t] = Get(t, g.name)
    BY <2>1 DEF Get
  <2> QED BY <2>1, <2>2, GetsIntro
<1>2. ASSUME g.st = "looked"
      PROVE  /\ [g EXCEPT !.st = "unlocked"] = Got("unlocked", g.got)
             /\ [g EXCEPT !.st = "unlocked"] \in Gets
  <2>1. g.got \in Slots /\ g = Got(g.st, g.got)
    BY <1>2, GetShape
  <2>2. [g EXCEPT !.st = "unlocked"] = Got("unlocked", g.got)
    BY <2>1 DEF Got
  <2> QED BY <2>1, <2>2, GetsIntro
<1> QED BY <1>1, <1>2

-----------------------------------------------------------------------------
\* The goroutine, the ticker and Stop keep every variable in its type.
LEMMA LoopType ==
  ASSUME TypeOK,
         \/ TickFires \/ SelectTick \/ SelectStop \/ Gather \/ Announce \/ Acquire
         \/ CopyEntry \/ StopClose \/ StopReturn
  PROVE  TypeOK'
<1> USE DEF TypeOK
<1>1. CASE TickFires
  BY <1>1 DEF TickFires
<1>2. CASE SelectTick
  BY <1>2 DEF SelectTick
<1>3. CASE SelectStop
  BY <1>3 DEF SelectStop
<1>4. CASE Gather
  <2>1. PICK due \in SUBSET Polled : \E b \in [due -> Values] :
          /\ batch' = [n \in Polled |-> IF n \in due THEN b[n] ELSE Missing]
          /\ todo' = due
          /\ pc' = IF due = {} THEN "select" ELSE "lock"
    BY <1>4 DEF Gather
  <2>2. batch' \in [Polled -> Slots]
    BY <2>1 DEF Slots
  <2> QED BY <1>4, <2>1, <2>2 DEF Gather
<1>5. CASE Announce
  BY <1>5 DEF Announce
<1>6. CASE Acquire
  BY <1>6 DEF Acquire
<1>7. CASE CopyEntry
  <2>1. values' \in [Names -> Slots] /\ todo' \subseteq Polled
    BY <1>7 DEF CopyEntry, Names
  <2> QED BY <1>7, <2>1 DEF CopyEntry
<1>8. CASE StopClose
  BY <1>8 DEF StopClose
<1>9. CASE StopReturn
  BY <1>9 DEF StopReturn
<1> QED BY <1>1, <1>2, <1>3, <1>4, <1>5, <1>6, <1>7, <1>8, <1>9

\* Unlock and the steps of a get keep every variable in its type.
LEMMA GetType ==
  ASSUME TypeOK, Unlock \/ \E r \in Readers : GetCall(r) \/ GetStep(r)
  PROVE  TypeOK'
<1> USE DEF TypeOK
<1>1. CASE Unlock
  <2>1. rd' \in [Readers -> Gets]
    BY <1>1, GetMoves DEF Unlock
  <2> QED BY <1>1, <2>1 DEF Unlock
<1>2. ASSUME NEW r \in Readers, GetCall(r) \/ GetStep(r) PROVE TypeOK'
  <2>1. rd' \in [Readers -> Gets]
    <3>1. CASE GetCall(r)
      BY <3>1, GetsIntro DEF GetCall
    <3>2. CASE RLock(r)
      BY <3>2, GetMoves DEF RLock
    <3>3. CASE Lookup(r)
      <4>1. values[rd[r].name] \in Slots
        BY <3>3, GetShape DEF Lookup
      <4> QED BY <3>3, <4>1, GetsIntro DEF Lookup
    <3>4. CASE RUnlock(r)
      BY <3>4, GetMoves DEF RUnlock
    <3>5. CASE GetReturn(r)
      BY <3>5, GetsIntro DEF GetReturn
    <3> QED BY <1>2, <3>1, <3>2, <3>3, <3>4, <3>5 DEF GetStep
  <2>2. UNCHANGED <<pc, tickC, stopCh, doneCh, stopper, batch, todo, values, writer>>
    BY <1>2 DEF GetCall, GetStep, RLock, Lookup, RUnlock, GetReturn
  <2> QED BY <2>1, <2>2
<1> QED BY <1>1, <1>2

\* The initial states have the types.
LEMMA TypeInit == Init => TypeOK
<1>1. RIdle \in Gets
  BY GetsIntro
<1> SUFFICES ASSUME Init PROVE TypeOK
  OBVIOUS
<1>2. batch \in [Polled -> Slots] /\ values \in [Names -> Slots] /\ rd \in [Readers -> Gets]
  BY <1>1 DEF Init, Slots
<1>3. stopCh \in BOOLEAN /\ doneCh \in BOOLEAN
  BY DEF Init
<1>4. tickC \in 0..1 /\ pc = "select" /\ stopper = "idle" /\ writer = "none" /\ todo = {}
  BY DEF Init
<1> QED BY <1>2, <1>3, <1>4 DEF TypeOK

\* Every step of the goroutine, of Stop and of a get keeps the types.
LEMMA TypeStep == TypeOK /\ [Next]_vars => TypeOK'
<1> SUFFICES ASSUME TypeOK, [Next]_vars PROVE TypeOK'
  OBVIOUS
<1>1. CASE UNCHANGED vars
  BY <1>1 DEF TypeOK, vars
<1> QED BY <1>1, LoopType, GetType DEF Next, GoroutineStep

\* The goroutine, Stop, the ticker and every get keep their variables in their
\* types; what a get finds is a value the kernel returned or the mark of a
\* missing entry.
THEOREM TypeCorrect == Spec => []TypeOK
  BY TypeInit, TypeStep, PTL DEF Spec

-----------------------------------------------------------------------------
(***************************************************************************)
(* The inductive invariant: the lock discipline, and that a goroutine at   *)
(* putBatch has something to publish (tick skips an empty batch), without  *)
(* which Acquire would not be a step of the abstract store.                *)
(***************************************************************************)
LoopInv ==
    /\ TypeOK
    /\ LockDiscipline
    /\ pc = "lock" => todo # {}

\* Seen from a get, the lock is free for a reader exactly when no writer has
\* announced itself; a get inside the map therefore shuts the writer out.
LEMMA InvStep == LoopInv /\ [Next]_vars => LoopInv'
<1> SUFFICES ASSUME LoopInv, [Next]_vars PROVE LoopInv'
  OBVIOUS
<1> USE DEF LoopInv, LockDiscipline, Holding
<1>1. TypeOK /\ TypeOK'
  BY TypeStep
<1>2. CASE TickFires
  BY <1>1, <1>2 DEF TickFires
<1>3. CASE SelectTick
  BY <1>1, <1>3 DEF SelectTick
<1>4. CASE SelectStop
  BY <1>1, <1>4 DEF SelectStop
<1>5. CASE Gather
  <2>1. pc' = "select" \/ (pc' = "lock" /\ todo' # {})
    BY <1>5 DEF Gather
  <2> QED BY <1>1, <1>5, <2>1 DEF Gather
<1>6. CASE Announce
  BY <1>1, <1>6 DEF Announce
<1>7. CASE Acquire
  BY <1>1, <1>7 DEF Acquire
<1>8. CASE CopyEntry
  BY <1>1, <1>8 DEF CopyEntry
<1>9. CASE Unlock
  <2>1. \A r \in Readers : rd'[r].st # "blocked"
    <3> SUFFICES ASSUME NEW r \in Readers PROVE rd'[r].st # "blocked"
      OBVIOUS
    <3>1. CASE rd[r].st = "blocked"
      <4>1. rd'[r] = Get("locked", rd[r].name)
        BY <1>1, <1>9, <3>1, GetMoves DEF Unlock, TypeOK
      <4> QED BY <4>1 DEF Get
    <3>2. CASE rd[r].st # "blocked"
      BY <1>9, <3>2 DEF Unlock
    <3> QED BY <3>1, <3>2
  <2> QED BY <1>1, <1>9, <2>1 DEF Unlock
<1>10. ASSUME NEW r \in Readers, GetCall(r) \/ GetStep(r) PROVE LoopInv'
  <2>1. UNCHANGED <<pc, todo, writer>> /\ \A q \in Readers \ {r} : rd'[q] = rd[q]
    BY <1>1, <1>10 DEF GetCall, GetStep, RLock, Lookup, RUnlock, GetReturn, TypeOK
  <2>2. /\ rd'[r].st = "blocked" => writer # "none"
        /\ rd'[r].st = "locked" => writer = "none"
        /\ rd'[r].st = "looked" => rd[r].st = "locked"
    <3>0. rd \in [Readers -> Gets] /\ rd[r] \in Gets
      BY <1>1 DEF TypeOK
    <3>1. CASE GetCall(r)
      BY <3>0, <3>1 DEF GetCall, Get
    <3>2. CASE RLock(r)
      <4>1. rd'[r] = Get(IF writer = "none" THEN "locked" ELSE "blocked", rd[r].name)
        BY <3>0, <3>2, GetMoves DEF RLock
      <4> QED BY <4>1 DEF Get
    <3>3. CASE Lookup(r)
      BY <3>0, <3>3 DEF Lookup, Got
    <3>4. CASE RUnlock(r)
      <4>1. rd'[r] = Got("unlocked", rd[r].got)
        BY <3>0, <3>4, GetMoves DEF RUnlock
      <4> QED BY <4>1 DEF Got
    <3>5. CASE GetReturn(r)
      BY <3>0, <3>5 DEF GetReturn, RIdle
    <3> QED BY <1>10, <3>1, <3>2, <3>3, <3>4, <3>5 DEF GetStep
  <2> QED BY <1>1, <2>1, <2>2
<1>11. CASE StopClose
  BY <1>1, <1>11 DEF StopClose
<1>12. CASE StopReturn
  BY <1>1, <1>12 DEF StopReturn
<1>13. CASE UNCHANGED vars
  BY <1>1, <1>13 DEF vars
<1> QED BY <1>2, <1>3, <1>4, <1>5, <1>6, <1>7, <1>8, <1>9, <1>10, <1>11, <1>12, <1>13
        DEF Next, GoroutineStep

\* Nobody holds the lock at the start.
LEMMA InvInit == Init => LoopInv
<1> SUFFICES ASSUME Init PROVE LoopInv
  OBVIOUS
<1>1. TypeOK
  BY TypeInit
<1>2. \A r \in Readers : rd[r].st = "idle"
  BY DEF Init, RIdle
<1> QED BY <1>1, <1>2 DEF Init, LoopInv, LockDiscipline, Holding

\* The inductive invariant holds throughout.
LEMMA InvCorrect == Spec => []LoopInv
  BY InvInit, InvStep, PTL DEF Spec

\* For any number of handlers and names: no get is inside the map while putBatch
\* writes it, putBatch writes only under the lock, a get waits only for a writer
\* that has announced itself, and the goroutine never leaves with the lock.
THEOREM LockDisciplined == Spec => []LockDiscipline
  BY InvCorrect, PTL DEF LoopInv

-----------------------------------------------------------------------------
(***************************************************************************)
(* Refinement.  The abstract batch appears when putBatch takes the lock:   *)
(* from there on the names it has still to copy already show their new     *)
(* values, so the copying itself is invisible.                             *)
(***************************************************************************)

\* The refinement mapping, get by get.
LEMMA AbsCall ==
  ASSUME TypeOK, NEW r \in Readers
  PROVE  /\ rd[r].st = "idle" => absCall[r] = Abstract!Idle
         /\ rd[r].st \in {"called", "blocked", "locked"}
              => absCall[r] = Abstract!Asked(rd[r].name)
         /\ rd[r].st \in {"looked", "unlocked"}
              => absCall[r] = Abstract!Answered(rd[r].got)
<1>1. rd[r].st \in {"idle", "called", "blocked", "locked", "looked", "unlocked"}
  BY GetShape DEF TypeOK
<1> QED BY <1>1 DEF absCall, Abstract!Idle, Abstract!Asked, Abstract!Answered

\* The initial states are those of AtomicStore.
LEMMA RefineInit == Init => Abstract!Init
<1> SUFFICES ASSUME Init PROVE Abstract!Init
  OBVIOUS
<1>1. absValues = values /\ values \in [Names -> Slots]
  BY DEF Init, absValues
<1>2. absCall = [r \in Readers |-> Abstract!Idle]
  BY DEF Init, absCall, RIdle, Abstract!Idle
<1> QED BY <1>1, <1>2 DEF Abstract!Init

\* putBatch takes the lock: the whole batch appears.
LEMMA RefineAcquire ==
  ASSUME LoopInv, Acquire
  PROVE  Abstract!Publish
<1> USE DEF LoopInv, TypeOK
<1>1. todo \in (SUBSET Names) \ {{}}
  <2>1. todo \subseteq Names /\ todo # {}
    BY DEF Acquire, Names
  <2> QED BY <2>1
<1> DEFINE b == [n \in todo |-> batch[n]]
<1>2. b \in [todo -> Slots]
  OBVIOUS
<1>3. absValues' = [n \in Names |-> IF n \in todo THEN b[n] ELSE absValues[n]]
  BY DEF Acquire, absValues
<1>4. absCall' = absCall
  BY DEF Acquire, absCall
<1> QED BY <1>1, <1>2, <1>3, <1>4 DEF Abstract!Publish

\* Copying an entry and letting the lock go are invisible: waiting readers are
\* handed the lock, but they were asking before and are asking after.
LEMMA RefineHidden ==
  ASSUME LoopInv,
         \/ TickFires \/ SelectTick \/ SelectStop \/ Gather \/ Announce \/ CopyEntry \/ Unlock
         \/ StopClose \/ StopReturn \/ UNCHANGED vars
  PROVE  UNCHANGED <<absValues, absCall>>
<1> USE DEF LoopInv, TypeOK
<1>1. absValues' = absValues
  <2>1. CASE TickFires \/ SelectTick \/ SelectStop \/ Announce \/ StopClose \/ StopReturn
    BY <2>1 DEF absValues, TickFires, SelectTick, SelectStop, Announce, StopClose, StopReturn
  <2>2. CASE Gather
    <3>1. pc' \in {"select", "lock"}
      BY <2>2 DEF Gather
    <3> QED BY <2>2, <3>1 DEF absValues, Gather
  <2>3. CASE CopyEntry
    <3>1. PICK m \in todo : values' = [values EXCEPT ![m] = batch[m]] /\ todo' = todo \ {m}
      BY <2>3 DEF CopyEntry
    <3>2. \A n \in Names : (IF n \in todo' THEN batch[n] ELSE values'[n])
                              = IF n \in todo THEN batch[n] ELSE values[n]
      BY <3>1 DEF Names
    <3> QED BY <2>3, <3>2 DEF absValues, CopyEntry
  <2>4. CASE Unlock
    BY <2>4 DEF absValues, Unlock
  <2>5. CASE UNCHANGED vars
    BY <2>5 DEF absValues, vars
  <2> QED BY <2>1, <2>2, <2>3, <2>4, <2>5
<1>2. absCall' = absCall
  <2>1. CASE Unlock
    <3>1. TypeOK'
      BY <2>1, GetType
    <3>2. ASSUME NEW r \in Readers PROVE absCall'[r] = absCall[r]
      <4>1. CASE rd[r].st = "blocked"
        <5>1. rd'[r] = Get("locked", rd[r].name)
          BY <2>1, <4>1, GetMoves DEF Unlock
        <5> QED BY <4>1, <5>1 DEF absCall, Get
      <4>2. CASE rd[r].st # "blocked"
        BY <2>1, <4>2 DEF Unlock, absCall
      <4> QED BY <4>1, <4>2
    <3> QED BY <3>2 DEF absCall
  <2>2. CASE UNCHANGED rd
    BY <2>2 DEF absCall
  <2> QED BY <2>1, <2>2 DEF TickFires, SelectTick, SelectStop, Gather, Announce, CopyEntry,
             StopClose, StopReturn, vars
<1> QED BY <1>1, <1>2

\* A step of a get is a call, a lookup or a return of the abstract one, or
\* invisible; a lookup sees the abstract store because the writer is shut out.
LEMMA RefineGet ==
  ASSUME LoopInv, NEW r \in Readers, GetCall(r) \/ GetStep(r)
  PROVE  \/ Abstract!Ask(r) \/ Abstract!Look(r) \/ Abstract!Return(r)
         \/ UNCHANGED <<absValues, absCall>>
<1> USE DEF LoopInv
<1>1. TypeOK /\ TypeOK'
  BY GetType
<1>2. absValues' = absValues
  BY DEF absValues, GetCall, GetStep, RLock, Lookup, RUnlock, GetReturn
<1>3. rd \in [Readers -> Gets] /\ rd[r] \in Gets
  BY <1>1 DEF TypeOK
<1>4. \A a : rd' = [rd EXCEPT ![r] = rd'[r]] /\ absCall'[r] = a
              => absCall' = [absCall EXCEPT ![r] = a]
  BY <1>3 DEF absCall
<1>5. rd' = [rd EXCEPT ![r] = rd'[r]]
  BY <1>3 DEF GetCall, GetStep, RLock, Lookup, RUnlock, GetReturn
<1>6. absCall = [absCall EXCEPT ![r] = absCall[r]]
  BY DEF absCall
<1>7. CASE GetCall(r)
  <2>1. PICK n \in Names : rd'[r] = Get("called", n)
    BY <1>3, <1>7 DEF GetCall
  <2>2. absCall[r] = Abstract!Idle /\ absCall'[r] = Abstract!Asked(n)
    BY <1>1, <1>7, <2>1 DEF GetCall, Get, absCall, Abstract!Idle, Abstract!Asked
  <2> QED BY <1>2, <1>4, <1>5, <2>2 DEF Abstract!Ask, Abstract!Idle
<1>8. CASE RLock(r)
  <2>1. rd'[r] = Get(IF writer = "none" THEN "locked" ELSE "blocked", rd[r].name)
    BY <1>3, <1>8, GetMoves DEF RLock
  <2>2. absCall'[r] = absCall[r]
    BY <1>8, <2>1 DEF RLock, absCall, Get
  <2> QED BY <1>2, <1>4, <1>5, <1>6, <2>2
<1>9. CASE Lookup(r)
  <2>1. pc # "write"
    BY <1>9 DEF Lookup, LockDiscipline, Holding
  <2>2. rd[r].name \in Names
    BY <1>3, <1>9, GetShape DEF Lookup
  <2>3. absValues[rd[r].name] = values[rd[r].name]
    BY <2>1, <2>2 DEF absValues
  <2>4. rd'[r] = Got("looked", values[rd[r].name])
    BY <1>3, <1>9 DEF Lookup
  <2>5. absCall[r] = Abstract!Asked(rd[r].name)
    BY <1>1, <1>9, AbsCall DEF Lookup
  <2>6. absCall'[r] = Abstract!Answered(absValues[rd[r].name])
    BY <2>3, <2>4 DEF Got, absCall, Abstract!Answered
  <2> QED BY <1>2, <1>4, <1>5, <2>5, <2>6 DEF Abstract!Look, Abstract!Asked
<1>10. CASE RUnlock(r)
  <2>1. rd'[r] = Got("unlocked", rd[r].got)
    BY <1>3, <1>10, GetMoves DEF RUnlock
  <2>2. absCall'[r] = absCall[r]
    BY <1>10, <2>1 DEF RUnlock, absCall, Got
  <2> QED BY <1>2, <1>4, <1>5, <1>6, <2>2
<1>11. CASE GetReturn(r)
  <2>1. absCall[r] = Abstract!Answered(rd[r].got)
    BY <1>1, <1>11, AbsCall DEF GetReturn
  <2>2. absCall'[r] = Abstract!Idle
    BY <1>3, <1>11 DEF GetReturn, RIdle, absCall, Abstract!Idle
  <2> QED BY <1>2, <1>4, <1>5, <2>1, <2>2 DEF Abstract!Return, Abstract!Answered
<1> QED BY <1>7, <1>8, <1>9, <1>10, <1>11 DEF GetStep

\* Acquiring the lock is Publish, reading under it is Look; the rest is unseen.
LEMMA RefineStep == LoopInv /\ [Next]_vars => [Abstract!Next]_<<absValues, absCall>>
<1> SUFFICES ASSUME LoopInv, [Next]_vars
             PROVE  Abstract!Next \/ UNCHANGED <<absValues, absCall>>
  OBVIOUS
<1>1. CASE Acquire
  BY <1>1, RefineAcquire DEF Abstract!Next
<1>2. ASSUME NEW r \in Readers, GetCall(r) \/ GetStep(r)
      PROVE  Abstract!Next \/ UNCHANGED <<absValues, absCall>>
  BY <1>2, RefineGet DEF Abstract!Next
<1>3. CASE \/ TickFires \/ SelectTick \/ SelectStop \/ Gather \/ Announce \/ CopyEntry \/ Unlock
           \/ StopClose \/ StopReturn \/ UNCHANGED vars
  BY <1>3, RefineHidden
<1> QED BY <1>1, <1>2, <1>3 DEF Next, GoroutineStep

\* Whatever the handlers and the goroutine interleave, what the RPCs see is a
\* store in which a batch appears in one step and every get returns what the
\* store held at one instant of the call (the safety part of
\* ImplementsAtomicStore; that every get returns is left to TLC).
THEOREM StoreIsAtomic == Spec => Abstract!SafeSpec
<1>1. Spec => []LoopInv
  BY InvCorrect
<1> QED BY <1>1, RefineInit, RefineStep, PTL DEF Spec, Abstract!SafeSpec
=============================================================================
