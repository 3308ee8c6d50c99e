--------------------------- MODULE ReadPathProofs ---------------------------
(***************************************************************************)
(* Theorems about LazyIndex and ReadPath, for every registry, kernel and   *)
(* number of handlers.                                                     *)
(*                                                                         *)
(* If newPoller reads at least one name before it returns, its call of     *)
(* ByName builds the whole index, and every later call only reads it.      *)
(* Without that first read neither holds: the run of MCLazyIndex shows the *)
(* race.  readMetricLive uses the index the way LazyIndex says it is used, *)
(* and so inherits that.  What the kernel copies out decodes to what the   *)
(* kernel held, type by type; and an answer is made of what was decoded at *)
(* the instants of its reads.                                              *)
(***************************************************************************)
EXTENDS ReadPath, FoldProofs

-----------------------------------------------------------------------------
(* The index: LazyIndex. *)

(***************************************************************************)
(* The inductive invariant.  Until newPoller returns only Main is inside   *)
(* ByName, and the map it fills holds the names before position i; from    *)
(* then on nobody is on the path that makes or fills a map.                *)
(***************************************************************************)

\* The map is whole and nobody writes it.
Complete == knownByName = Main /\ entries[Main] = KnownNames /\ ~writing[Main]

\* What Main has filled in so far.
Filled == {Known[k] : k \in 1..(i[Main] - 1)}

MainInv ==
    /\ pc[Main] \in {"idle", "check", "make", "fill", "inserting", "lookup"}
    /\ knownByName = Nil \/ knownByName = Main
    /\ pc[Main] = "idle" => Complete \/ (knownByName = Nil /\ reads = Startup)
    /\ pc[Main] = "check" => Complete \/ knownByName = Nil
    /\ pc[Main] = "make" => knownByName = Nil
    /\ knownByName = Nil => entries[Main] = {} /\ ~writing[Main]
    /\ pc[Main] \in {"fill", "inserting"} =>
          /\ knownByName = Main /\ i[Main] \in 1..(Len(Known) + 1) /\ entries[Main] = Filled
          /\ writing[Main] <=> pc[Main] = "inserting"
    /\ pc[Main] = "inserting" => into[Main] = Main /\ i[Main] <= Len(Known)
    /\ pc[Main] = "lookup" => Complete

Args == KnownNames \cup Unknown \cup {Nil}

IndexType ==
    /\ entries \in [Threads -> SUBSET KnownNames] /\ writing \in [Threads -> BOOLEAN]
    /\ pc \in [Threads -> {"idle", "check", "make", "fill", "inserting", "lookup"}]
    /\ i \in [Threads -> Nat] /\ arg \in [Threads -> Args]
    /\ into \in [Threads -> Threads \cup {Nil}] /\ ret \in [Threads -> Args]
    /\ serving \in BOOLEAN /\ reads \in Seq(KnownNames)

IndexInv ==
    /\ IndexType /\ ~crashed /\ ByNameCorrect
    /\ ~serving => MainInv /\ \A w \in Workers : pc[w] = "idle" /\ arg[w] = Nil
    /\ serving => /\ Complete /\ pc[Main] = "idle" /\ reads = <<>>
                  /\ \A w \in Workers : pc[w] \in {"idle", "check", "lookup"}

-----------------------------------------------------------------------------
\* The names of the registry are the entries of Known.
LEMMA KnownPositions ==
  /\ Len(Known) \in Nat
  /\ KnownNames = {Known[k] : k \in 1..Len(Known)}
  /\ \A k \in 1..Len(Known) : Known[k] \in KnownNames
<1>1. Known \in Seq(KnownNames)
  BY IndexAssumption
<1>2. DOMAIN Known = 1..Len(Known) /\ Len(Known) \in Nat
  BY <1>1
<1> QED BY <1>1, <1>2 DEF KnownNames, Range

\* An empty index answers nothing, a whole one answers every name.
LEMMA IndexInit == Startup # <<>> /\ Init => IndexInv
<1> SUFFICES ASSUME Startup # <<>>, Init PROVE IndexInv
  OBVIOUS
<1>1. Main \in Threads /\ Workers \subseteq Threads
  BY DEF Threads
<1>2. IndexType
  BY IndexAssumption DEF Init, IndexType, Args
<1>3. ByNameCorrect
  BY DEF Init, ByNameCorrect
<1>4. MainInv /\ \A w \in Workers : pc[w] = "idle" /\ arg[w] = Nil
  BY <1>1 DEF Init, MainInv
<1> QED BY <1>2, <1>3, <1>4 DEF Init, IndexInv

\* newPoller calls ByName for one name after the other, and returns.
LEMMA StartupKeeps ==
  ASSUME Startup # <<>>, IndexInv, StartupCall \/ Serve
  PROVE  IndexInv'
<1> USE DEF IndexInv
<1>1. Main \in Threads /\ Workers \subseteq Threads /\ Main \notin Workers
  BY IndexAssumption DEF Threads
<1>2. CASE StartupCall
  <2>1. ~serving /\ MainInv /\ pc[Main] = "idle"
    BY <1>2 DEF StartupCall
  <2>2. UNCHANGED <<knownByName, entries, writing, i, into, ret, serving, crashed>>
    BY <1>2 DEF StartupCall
  <2>3. Head(reads) \in Args /\ Tail(reads) \in Seq(KnownNames)
    <3>1. reads # <<>> /\ reads \in Seq(KnownNames)
      BY <1>2 DEF StartupCall, IndexType
    <3> QED BY <3>1 DEF Args
  <2>4. /\ pc' = [pc EXCEPT ![Main] = "check"] /\ arg' = [arg EXCEPT ![Main] = Head(reads)]
        /\ reads' = Tail(reads) /\ reads # <<>>
    BY <1>2 DEF StartupCall, Enter
  <2>5. IndexType'
    BY <2>2, <2>3, <2>4 DEF IndexType
  <2>6. ByNameCorrect'
    BY <1>1, <2>2, <2>4 DEF ByNameCorrect, IndexType
  <2>7. MainInv'
    BY <1>1, <2>1, <2>2, <2>4 DEF MainInv, Complete, IndexType
  <2>8. \A w \in Workers : pc'[w] = "idle" /\ arg'[w] = Nil
    BY <1>1, <2>1, <2>4 DEF IndexType
  <2> QED BY <2>1, <2>2, <2>5, <2>6, <2>7, <2>8
<1>3. CASE Serve
  <2>1. ~serving /\ MainInv /\ pc[Main] = "idle" /\ reads = <<>> /\ serving' = TRUE
    BY <1>3 DEF Serve
  <2>2. UNCHANGED <<knownByName, entries, writing, pc, i, arg, into, ret, reads, crashed>>
    BY <1>3 DEF Serve
  <2>3. Complete
    BY <2>1 DEF MainInv
  <2>4. IndexType' /\ ByNameCorrect' /\ Complete'
    BY <2>1, <2>2, <2>3 DEF IndexType, ByNameCorrect, Complete
  <2> QED BY <2>1, <2>2, <2>4
<1> QED BY <1>2, <1>3

\* A call of Main inside New builds the index and looks its name up.
LEMMA BuildKeeps ==
  ASSUME IndexInv, ~serving,
         \/ Check(Main) \/ MakeMap(Main) \/ InsertBegin(Main) \/ InsertEnd(Main)
         \/ FillDone(Main) \/ Lookup(Main)
  PROVE  IndexInv'
<1> USE DEF IndexInv
<1>1. Main \in Threads /\ Workers \subseteq Threads /\ Main \notin Workers /\ Main # Nil
  BY IndexAssumption DEF Threads
<1>2. MainInv /\ IndexType
  OBVIOUS
<1>3. UNCHANGED <<arg, reads, serving>>
  BY DEF Check, MakeMap, InsertBegin, InsertEnd, FillDone, Lookup
<1>4. \A u \in Threads \ {Main} : pc'[u] = pc[u] /\ ret'[u] = ret[u]
  BY <1>2 DEF IndexType, Check, MakeMap, InsertBegin, InsertEnd, FillDone, Lookup
<1>5. \A w \in Workers : pc'[w] = "idle" /\ arg'[w] = Nil
  BY <1>1, <1>3, <1>4
<1>6. ASSUME MainInv', IndexType', ~crashed',
             pc'[Main] = "idle" /\ arg[Main] # Nil =>
                ret'[Main] = IF arg[Main] \in KnownNames THEN arg[Main] ELSE Nil
      PROVE  IndexInv'
  <2>1. ByNameCorrect'
    BY <1>1, <1>3, <1>4, <1>6 DEF ByNameCorrect
  <2> QED BY <1>3, <1>5, <1>6, <2>1
<1>7. CASE Check(Main)
  <2>1. /\ pc' = [pc EXCEPT ![Main] = IF knownByName = Nil THEN "make" ELSE "lookup"]
        /\ pc[Main] = "check"
        /\ UNCHANGED <<knownByName, entries, writing, i, into, ret, crashed>>
    BY <1>7 DEF Check
  <2>2. pc'[Main] = IF knownByName = Nil THEN "make" ELSE "lookup"
    BY <1>1, <1>2, <2>1 DEF IndexType
  <2>3. IndexType'
    BY <1>2, <1>3, <2>1 DEF IndexType
  <2>4. MainInv'
    BY <1>1, <1>2, <1>3, <2>1, <2>2 DEF MainInv, Complete
  <2> QED BY <1>6, <2>1, <2>2, <2>3, <2>4
<1>8. CASE MakeMap(Main)
  <2>1. /\ pc' = [pc EXCEPT ![Main] = "fill"] /\ knownByName' = Main /\ i' = [i EXCEPT ![Main] = 1]
        /\ pc[Main] = "make" /\ UNCHANGED <<entries, writing, into, ret, crashed>>
    BY <1>8 DEF MakeMap
  <2>2. pc'[Main] = "fill" /\ i'[Main] = 1
    BY <1>1, <1>2, <2>1 DEF IndexType
  <2>3. IndexType'
    BY <1>2, <1>3, <2>1 DEF IndexType
  <2>4. entries'[Main] = {} /\ ~writing'[Main] /\ Filled' = {}
    BY <1>2, <2>1, <2>2 DEF MainInv, Filled
  <2>5. i'[Main] \in 1..(Len(Known) + 1)
    BY <2>2, KnownPositions
  <2>6. MainInv'
    BY <1>1, <2>1, <2>2, <2>4, <2>5 DEF MainInv
  <2> QED BY <1>6, <2>1, <2>2, <2>3, <2>6
<1>9. CASE InsertBegin(Main)
  <2>1. pc[Main] = "fill" /\ knownByName = Main /\ ~writing[Main] /\ i[Main] <= Len(Known)
    BY <1>2, <1>9 DEF InsertBegin, MainInv
  <2>2. /\ writing' = [writing EXCEPT ![Main] = TRUE] /\ into' = [into EXCEPT ![Main] = Main]
        /\ pc' = [pc EXCEPT ![Main] = "inserting"] /\ UNCHANGED <<knownByName, entries, i, ret, crashed>>
    BY <1>9, <2>1 DEF InsertBegin
  <2>3. pc'[Main] = "inserting" /\ into'[Main] = Main /\ writing'[Main]
    BY <1>1, <1>2, <2>2 DEF IndexType
  <2>4. IndexType'
    BY <1>1, <1>2, <1>3, <2>2 DEF IndexType
  <2>5. MainInv'
    BY <1>1, <1>2, <2>1, <2>2, <2>3 DEF MainInv, Filled
  <2> QED BY <1>6, <2>2, <2>3, <2>4, <2>5
<1>10. CASE InsertEnd(Main)
  <2>1. /\ pc[Main] = "inserting" /\ into[Main] = Main /\ knownByName = Main
        /\ i[Main] \in 1..Len(Known) /\ entries[Main] = Filled
    BY <1>2, <1>10, KnownPositions DEF InsertEnd, MainInv
  <2>2. /\ entries' = [entries EXCEPT ![Main] = entries[Main] \cup {Known[i[Main]]}]
        /\ writing' = [writing EXCEPT ![Main] = FALSE] /\ i' = [i EXCEPT ![Main] = i[Main] + 1]
        /\ pc' = [pc EXCEPT ![Main] = "fill"] /\ UNCHANGED <<knownByName, into, ret, crashed>>
    BY <1>10, <2>1 DEF InsertEnd
  <2>3. /\ pc'[Main] = "fill" /\ ~writing'[Main] /\ i'[Main] = i[Main] + 1
        /\ entries'[Main] = entries[Main] \cup {Known[i[Main]]}
    BY <1>1, <1>2, <2>2 DEF IndexType
  <2>4. IndexType'
    BY <1>1, <1>2, <1>3, <2>1, <2>2, KnownPositions DEF IndexType
  <2>5. entries'[Main] = Filled'
    BY <2>1, <2>3, KnownPositions DEF Filled
  <2>6. i'[Main] \in 1..(Len(Known) + 1)
    BY <2>1, <2>3, KnownPositions
  <2>7. MainInv'
    BY <1>1, <2>1, <2>2, <2>3, <2>5, <2>6 DEF MainInv
  <2> QED BY <1>6, <2>2, <2>3, <2>4, <2>7
<1>11. CASE FillDone(Main)
  <2>1. /\ pc[Main] = "fill" /\ knownByName = Main /\ ~writing[Main]
        /\ i[Main] = Len(Known) + 1 /\ entries[Main] = Filled
    BY <1>2, <1>11, KnownPositions DEF FillDone, MainInv
  <2>2. /\ pc' = [pc EXCEPT ![Main] = "lookup"]
        /\ UNCHANGED <<knownByName, entries, writing, i, into, ret, crashed>>
    BY <1>11 DEF FillDone
  <2>3. pc'[Main] = "lookup"
    BY <1>1, <1>2, <2>2 DEF IndexType
  <2>4. IndexType'
    BY <1>2, <1>3, <2>2 DEF IndexType
  <2>5. Complete'
    <3>1. (i[Main] - 1) = Len(Known)
      BY <2>1, KnownPositions
    <3> QED BY <2>1, <2>2, <3>1, KnownPositions DEF Complete, Filled
  <2>6. MainInv'
    BY <1>1, <2>1, <2>2, <2>3, <2>5 DEF MainInv
  <2> QED BY <1>6, <2>2, <2>3, <2>4, <2>6
<1>12. CASE Lookup(Main)
  <2>1. pc[Main] = "lookup" /\ Complete
    BY <1>2, <1>12 DEF Lookup, MainInv
  <2>2. /\ ret' = [ret EXCEPT ![Main] = IF arg[Main] \in KnownNames THEN arg[Main] ELSE Nil]
        /\ pc' = [pc EXCEPT ![Main] = "idle"]
        /\ UNCHANGED <<knownByName, entries, writing, i, into, crashed>>
    BY <1>12, <2>1 DEF Lookup, Complete
  <2>3. pc'[Main] = "idle" /\ ret'[Main] = IF arg[Main] \in KnownNames THEN arg[Main] ELSE Nil
    BY <1>1, <1>2, <2>2 DEF IndexType
  <2>4. IndexType'
    BY <1>1, <1>2, <1>3, <2>2 DEF IndexType, Args
  <2>5. Complete' /\ MainInv'
    BY <1>1, <2>1, <2>2, <2>3 DEF MainInv, Complete
  <2> QED BY <1>6, <2>2, <2>3, <2>4, <2>5
<1> QED BY <1>7, <1>8, <1>9, <1>10, <1>11, <1>12

\* While serving, a call checks, finds the index there and looks its name up: no
\* other step of ByName is possible.
LEMMA ServeKeeps ==
  ASSUME IndexInv, serving, NEW t \in Threads,
         \/ (t \in Workers /\ Call(t))
         \/ Check(t) \/ MakeMap(t) \/ InsertBegin(t) \/ InsertEnd(t) \/ FillDone(t) \/ Lookup(t)
  PROVE  IndexInv' /\ UNCHANGED <<knownByName, entries, writing>>
<1> USE DEF IndexInv
<1>1. /\ Main \in Threads /\ Threads = Workers \cup {Main} /\ Main # Nil /\ Main \notin Workers
      /\ IndexType /\ Complete /\ pc[Main] = "idle" /\ pc[t] \in {"idle", "check", "lookup"}
  BY IndexAssumption DEF Threads
<1>2. (t \in Workers /\ Call(t)) \/ Check(t) \/ Lookup(t)
  BY <1>1 DEF MakeMap, InsertBegin, InsertEnd, FillDone
<1>3. t \in Workers /\ UNCHANGED <<knownByName, entries, writing, i, into, reads, serving, crashed>>
  BY <1>1, <1>2 DEF Call, Check, Lookup, Complete
<1>4. /\ pc'[t] \in {"idle", "check", "lookup"} /\ pc' = [pc EXCEPT ![t] = pc'[t]]
      /\ arg' \in [Threads -> Args] /\ ret' \in [Threads -> Args]
      /\ \A u \in Threads \ {t} : arg'[u] = arg[u] /\ ret'[u] = ret[u]
      /\ pc'[t] = "idle" => ret'[t] = IF arg'[t] \in KnownNames THEN arg'[t] ELSE Nil
  <2>1. CASE Call(t)
    <3>1. PICK n \in KnownNames \cup Unknown :
             pc' = [pc EXCEPT ![t] = "check"] /\ arg' = [arg EXCEPT ![t] = n] /\ ret' = ret
      BY <2>1 DEF Call, Enter
    <3> QED BY <1>1, <3>1 DEF IndexType, Args
  <2>2. CASE Check(t)
    <3>1. pc' = [pc EXCEPT ![t] = "lookup"] /\ UNCHANGED <<arg, ret>>
      BY <1>1, <2>2 DEF Check, Complete
    <3> QED BY <1>1, <3>1 DEF IndexType
  <2>3. CASE Lookup(t)
    BY <1>1, <2>3 DEF Lookup, IndexType, Complete, Args
  <2> QED BY <1>2, <2>1, <2>2, <2>3
<1>5. pc'[Main] = "idle" /\ \A u \in Threads \ {t} : pc'[u] = pc[u]
  BY <1>1, <1>3, <1>4 DEF IndexType
<1>6. IndexType'
  BY <1>1, <1>3, <1>4 DEF IndexType
<1>7. ByNameCorrect'
  BY <1>1, <1>4, <1>5 DEF ByNameCorrect
<1>8. Complete'
  BY <1>1, <1>3 DEF Complete
<1> QED BY <1>1, <1>3, <1>4, <1>5, <1>6, <1>7, <1>8

\* A worker is idle until newPoller has returned.
LEMMA IndexInvStep == Startup # <<>> /\ IndexInv /\ [Next]_vars => IndexInv'
<1> SUFFICES ASSUME Startup # <<>>, IndexInv, [Next]_vars PROVE IndexInv'
  OBVIOUS
<1>1. CASE UNCHANGED vars
  BY <1>1 DEF vars, IndexInv, IndexType, ByNameCorrect, MainInv, Complete, Filled
<1>2. CASE StartupCall \/ Serve
  BY <1>2, StartupKeeps
<1>3. ASSUME NEW t \in Workers, Call(t) PROVE IndexInv'
  BY <1>3, ServeKeeps DEF Call, Threads
<1>4. ASSUME NEW t \in Threads,
             \/ Check(t) \/ MakeMap(t) \/ InsertBegin(t) \/ InsertEnd(t) \/ FillDone(t) \/ Lookup(t)
      PROVE  IndexInv'
  <2>1. CASE serving
    BY <1>4, <2>1, ServeKeeps
  <2>2. CASE ~serving
    <3>1. t = Main
      BY <1>4, <2>2 DEF IndexInv, Threads, Check, MakeMap, InsertBegin, InsertEnd, FillDone, Lookup
    <3> QED BY <1>4, <2>2, <3>1, BuildKeeps
  <2> QED BY <2>1, <2>2
<1> QED BY <1>1, <1>2, <1>3, <1>4 DEF Next

\* The index is filled by newPoller's first read, before any handler exists.
LEMMA IndexInvCorrect ==
  ASSUME Startup # <<>>
  PROVE  Spec => []IndexInv
<1>1. Init => IndexInv
  BY IndexInit
<1>2. IndexInv /\ [Next]_vars => IndexInv'
  BY IndexInvStep
<1> QED BY <1>1, <1>2, PTL DEF Spec

\* Whatever the number of handlers: if newPoller reads a name before it returns,
\* ByName never gives a wrong answer and no goroutine meets a map being written.
THEOREM ByNameIsCorrect ==
  ASSUME Startup # <<>>
  PROVE  Spec => [](ByNameCorrect /\ ~crashed)
<1>1. IndexInv => ByNameCorrect /\ ~crashed
  BY DEF IndexInv
<1> QED BY <1>1, IndexInvCorrect, PTL

\* ... and from the return of newPoller on the index is only read.
THEOREM IndexIsFrozen ==
  ASSUME Startup # <<>>
  PROVE  Spec => IndexFrozen
<1>1. IndexInv /\ [Next]_vars => [serving => UNCHANGED <<knownByName, entries, writing>>]_vars
  <2> SUFFICES ASSUME IndexInv, Next, serving PROVE UNCHANGED <<knownByName, entries, writing>>
    OBVIOUS
  <2>1. CASE StartupCall \/ Serve
    BY <2>1 DEF StartupCall, Serve
  <2>2. ASSUME NEW t \in Workers, Call(t) PROVE UNCHANGED <<knownByName, entries, writing>>
    BY <2>2 DEF Call
  <2>3. ASSUME NEW t \in Threads,
               \/ Check(t) \/ MakeMap(t) \/ InsertBegin(t) \/ InsertEnd(t) \/ FillDone(t) \/ Lookup(t)
        PROVE  UNCHANGED <<knownByName, entries, writing>>
    BY <2>3, ServeKeeps
  <2> QED BY <2>1, <2>2, <2>3 DEF Next
<1> QED BY <1>1, IndexInvCorrect, PTL DEF Spec, IndexFrozen

-----------------------------------------------------------------------------
(* The index as the read path uses it. *)

\* A step of readMetricLive or of the kernel is a step of ByName and its callers,
\* or leaves the index and every call of it alone.
LEMMA RStepIsStep == [RNext]_allVars => [Next]_vars
<1> SUFFICES ASSUME [RNext]_allVars PROVE Next \/ UNCHANGED vars
  OBVIOUS
<1>1. CASE UNCHANGED allVars
  BY <1>1 DEF allVars
<1>2. CASE RNext
  <2>1. ~crashed
    BY <1>2 DEF RNext
  <2>2. CASE KernelChange \/ Advance \/ StepClock
    BY <2>2 DEF KernelChange, Advance, StepClock, KernelStep
  <2>3. CASE NewReads \/ NewReturns
    BY <2>1, <2>3 DEF NewReads, NewReturns, Next
  <2>4. ASSUME NEW t \in Workers, Ask(t) PROVE Next
    BY <2>1, <2>4 DEF Ask, Next
  <2>5. ASSUME NEW t \in Threads, IndexStep(t) \/ LookedUp(t) PROVE Next
    BY <2>1, <2>5 DEF IndexStep, LookedUp, Next
  <2>6. ASSUME NEW t \in Threads, Read(t) \/ ReadEnomem(t) \/ ReadClock(t) PROVE UNCHANGED vars
    BY <2>6 DEF Read, ReadEnomem, ReadClock
  <2> QED BY <1>2, <2>2, <2>3, <2>4, <2>5, <2>6 DEF RNext
<1> QED BY <1>1, <1>2

\* The read path uses the index as LazyIndex has it.
LEMMA UsesIndex == RSpec => Spec
<1>1. RInit => Init
  BY DEF RInit
<1> QED BY <1>1, RStepIsStep, PTL DEF RSpec, Spec

\* In the whole read path: once newPoller, which has read something, has
\* returned, no read of a metric ever writes the index again.
THEOREM ReadsKeepIndex ==
  ASSUME Startup # <<>>
  PROVE  RSpec => IndexFrozen
<1>1. Spec => IndexFrozen
  BY IndexIsFrozen
<1> QED BY <1>1, UsesIndex, PTL

\* ... and no read is answered as the raw bytes of an unknown metric because the
\* index was not ready: ByName is right for every name, at every moment.
THEOREM ReadsAreTyped ==
  ASSUME Startup # <<>>
  PROVE  RSpec => [](ByNameCorrect /\ ~crashed)
<1>1. Spec => [](ByNameCorrect /\ ~crashed)
  BY ByNameIsCorrect
<1> QED BY <1>1, UsesIndex, PTL

-----------------------------------------------------------------------------
(* Decoding. *)

\* Division with remainder.
LEMMA Division ==
  ASSUME NEW x \in Int, NEW b \in Nat \ {0}
  PROVE  /\ x \div b \in Int /\ x % b \in 0 .. b - 1
         /\ x = b * (x \div b) + (x % b)
OBVIOUS

\* A number below b times c has a quotient below c; and so from below.
LEMMA QuotientLess ==
  ASSUME NEW x \in Int, NEW b \in Nat \ {0}, NEW c \in Int
  PROVE  /\ x < b * c => x \div b < c
         /\ x >= b * c => x \div b >= c
<1> DEFINE q == x \div b
<1>1. q \in Int /\ x = b * q + (x % b) /\ x % b \in 0 .. b - 1
  BY Division
<1> HIDE DEF q
<1>2. ASSUME x < b * c, q >= c PROVE FALSE
  <2>1. b * q >= b * c
    BY <1>1, <1>2
  <2> QED BY <1>1, <1>2, <2>1
<1>3. ASSUME x >= b * c, q < c PROVE FALSE
  <2>1. q + 1 <= c
    BY <1>1, <1>3
  <2>2. b * (q + 1) <= b * c
    BY <1>1, <2>1
  <2>3. b * (q + 1) = b * q + b
    BY <1>1
  <2> QED BY <1>1, <1>3, <2>2, <2>3
<1> QED BY <1>1, <1>2, <1>3 DEF q

\* Division is monotone.
LEMMA QuotientMonotone ==
  ASSUME NEW x \in Int, NEW y \in Int, x <= y, NEW b \in Nat \ {0}
  PROVE  x \div b <= y \div b
<1>1. x \div b \in Int /\ y \div b \in Int /\ x = b * (x \div b) + (x % b) /\ x % b \in 0 .. b - 1
  BY Division
<1>2. y >= b * (x \div b)
  BY <1>1
<1> QED BY <1>1, <1>2, QuotientLess

\* The values of a word and of two words, whatever the base of a byte is.
LEMMA WordFacts ==
  /\ Base \in Nat /\ Base > 1
  /\ Word \in Nat /\ Word > 0
  /\ \A w \in {4, 8} : Values(w) \in Nat /\ Values(w) > 0 /\ Values(w) = 2 * (Values(w) \div 2)
  /\ Values(4) = Word /\ Values(8) = Word * Word
<1>1. Base \in Nat /\ Base > 1 /\ Base % 2 = 0
  BY BaseAssumption
<1>2. PICK c \in Nat : Base = 2 * c
  BY <1>1
<1>3. PICK d \in Nat : d = Base * Base * Base
  BY <1>1
<1>4. Word = 2 * (c * d) /\ c * d \in Nat
  BY <1>1, <1>2, <1>3 DEF Word
<1>5. Word \in Nat /\ Word > 0
  <2>1. \A x \in Nat : x > 0 => x * Base \in Nat /\ x * Base > 0
    BY <1>1
  <2>2. Base * Base \in Nat /\ Base * Base > 0
    BY <1>1
  <2>3. Base * Base * Base \in Nat /\ Base * Base * Base > 0
    BY <2>1, <2>2
  <2> QED BY <2>1, <2>3 DEF Word
<1>6. PICK e \in Nat : Word = 2 * e
  BY <1>4
<1>7. Values(4) = Word /\ Values(8) = Word * Word
  BY DEF Values
<1> HIDE DEF Word
<1>8. Word * Word = 2 * (e * Word) /\ e * Word \in Nat /\ Word * Word > 0
  BY <1>5, <1>6
<1>9. \A x \in Nat : (2 * x) \div 2 = x
  OBVIOUS
<1>10. \A x \in Nat : 2 * ((2 * x) \div 2) = 2 * x
  BY <1>9
<1>11. Word = 2 * (Word \div 2) /\ Word * Word = 2 * ((Word * Word) \div 2)
  BY <1>6, <1>8, <1>10
<1> QED BY <1>1, <1>5, <1>7, <1>8, <1>11

\* The four bytes of a word, put together again, are the word: up to its wrap-around.
LEMMA BytesBack ==
  ASSUME NEW v \in Int
  PROVE  LET u == ByteOf(v, 0) + Base * (ByteOf(v, 1) + Base * (ByteOf(v, 2) + Base * ByteOf(v, 3)))
         IN  /\ \A k \in 0..3 : ByteOf(v, k) \in 0 .. Base - 1
             /\ v \in 0 .. Word - 1 => u = v
             /\ v \in -Word .. -1 => u = v + Word
<1> DEFINE v1 == v \div Base
           v2 == v1 \div Base
           v3 == v2 \div Base
           v4 == v3 \div Base
           b0 == v % Base
           b1 == v1 % Base
           b2 == v2 % Base
           b3 == v3 % Base
<1>1. Base \in Nat \ {0}
  BY WordFacts
<1>2. v1 \in Int /\ v2 \in Int /\ v3 \in Int /\ v4 \in Int
  BY <1>1, Division
<1>3. b0 \in 0 .. Base - 1 /\ b1 \in 0 .. Base - 1 /\ b2 \in 0 .. Base - 1 /\ b3 \in 0 .. Base - 1
  BY <1>1, <1>2, Division
<1>4. /\ v = Base * v1 + b0 /\ v1 = Base * v2 + b1
      /\ v2 = Base * v3 + b2 /\ v3 = Base * v4 + b3
  BY <1>1, <1>2, Division
<1>5. ByteOf(v, 0) = b0 /\ ByteOf(v, 1) = b1 /\ ByteOf(v, 2) = b2 /\ ByteOf(v, 3) = b3
  BY DEF ByteOf
<1> DEFINE p2 == Base * Base
           p3 == p2 * Base
           u == b0 + Base * (b1 + Base * (b2 + Base * b3))
<1>6. Word = p3 * Base /\ p2 \in Nat /\ p3 \in Nat
  BY <1>1 DEF Word
<1> HIDE DEF v1, v2, v3, v4, b0, b1, b2, b3
<1>7. v = u + Word * v4
  <2>1. b2 + Base * b3 = v2 - p2 * v4
    BY <1>1, <1>2, <1>3, <1>4
  <2>2. b1 + Base * (b2 + Base * b3) = v1 - p3 * v4
    <3>1. Base * (v2 - p2 * v4) = Base * v2 - p3 * v4
      BY <1>1, <1>2
    <3> QED BY <1>1, <1>2, <1>3, <1>4, <1>6, <2>1, <3>1
  <2>3. Base * (v1 - p3 * v4) = Base * v1 - Word * v4
    BY <1>1, <1>2, <1>6
  <2> QED BY <1>1, <1>2, <1>3, <1>4, <1>6, <2>2, <2>3
<1> HIDE DEF p2, p3, u
<1>8. ASSUME v < Word PROVE v4 < 1
  <2>1. Base * p3 = Word /\ Base * p2 = p3 /\ Base * Base = p2
    BY <1>1, <1>6 DEF p2, p3
  <2>2. v1 < p3
    BY <1>1, <1>6, <1>8, <2>1, QuotientLess DEF v1
  <2>3. v2 < p2
    BY <1>1, <1>2, <1>6, <2>1, <2>2, QuotientLess DEF v2
  <2>4. v3 < Base
    BY <1>1, <1>2, <1>6, <2>1, <2>3, QuotientLess DEF v3
  <2> QED BY <1>1, <1>2, <2>4, QuotientLess DEF v4
<1>9. ASSUME NEW s \in {-1, 0}, v >= Word * s PROVE v4 >= s
  <2>1. Base * (p3 * s) = Word * s /\ Base * (p2 * s) = p3 * s /\ Base * (Base * s) = p2 * s
    <3>1. CASE s = 0
      BY <1>1, <1>6, <3>1
    <3>2. CASE s = -1
      BY <1>1, <1>6, <3>2 DEF p2, p3
    <3> QED BY <3>1, <3>2
  <2>2. p3 * s \in Int /\ p2 * s \in Int /\ Base * s \in Int
    BY <1>1, <1>6
  <2>3. v1 >= p3 * s
    BY <1>1, <1>9, <2>1, <2>2, QuotientLess DEF v1
  <2>4. v2 >= p2 * s
    BY <1>1, <1>2, <2>1, <2>2, <2>3, QuotientLess DEF v2
  <2>5. v3 >= Base * s
    BY <1>1, <1>2, <2>1, <2>2, <2>4, QuotientLess DEF v3
  <2> QED BY <1>1, <1>2, <2>2, <2>5, QuotientLess DEF v4
<1>10. ASSUME v < 0 PROVE v4 < 0
  <2>1. Base * 0 = 0
    BY <1>1
  <2>2. v1 < 0
    BY <1>1, <1>10, <2>1, QuotientLess DEF v1
  <2>3. v2 < 0
    BY <1>1, <1>2, <2>1, <2>2, QuotientLess DEF v2
  <2>4. v3 < 0
    BY <1>1, <1>2, <2>1, <2>3, QuotientLess DEF v3
  <2> QED BY <1>1, <1>2, <2>1, <2>4, QuotientLess DEF v4
<1>11. u \in Int /\ Word \in Nat
  BY <1>1, <1>3, WordFacts DEF u
<1>12. v \in 0 .. Word - 1 => u = v
  <2> SUFFICES ASSUME v \in 0 .. Word - 1 PROVE u = v
    OBVIOUS
  <2>1. v4 < 1 /\ v4 >= 0
    BY <1>8, <1>9, <1>11
  <2>2. v4 = 0
    BY <1>2, <2>1
  <2> QED BY <1>7, <1>11, <2>2
<1>13. v \in -Word .. -1 => u = v + Word
  <2> SUFFICES ASSUME v \in -Word .. -1 PROVE u = v + Word
    OBVIOUS
  <2>1. v4 < 0 /\ v4 >= -1
    BY <1>9, <1>10, <1>11
  <2>2. v4 = -1
    BY <1>2, <2>1
  <2> QED BY <1>7, <1>11, <2>2
<1> QED BY <1>3, <1>5, <1>12, <1>13 DEF u

\* A number read back without its sign.
Wrap(v, w) == IF v < 0 THEN v + Values(w) ELSE v
InWidth(v, w) == v \in -Values(w) .. Values(w) - 1

\* The kernel writes four bytes for every word.
LEMMA BytesLength ==
  ASSUME NEW ws \in Seq(Int)
  PROVE  /\ BytesOf(ws) \in [1 .. 4 * Len(ws) -> 0 .. Base - 1]
         /\ BytesOf(ws) \in Seq(0 .. Base - 1) /\ Len(BytesOf(ws)) = 4 * Len(ws)
<1>1. PICK n \in Nat : n = Len(ws)
  OBVIOUS
<1>2. \A k \in 1 .. n : ws[k] \in Int
  BY <1>1
<1>3. ASSUME NEW k \in 1 .. 4 * n
      PROVE  ByteOf(ws[(k - 1) \div 4 + 1], (k - 1) % 4) \in 0 .. Base - 1
  <2>1. (k - 1) \div 4 + 1 \in 1 .. n /\ (k - 1) % 4 \in 0 .. 3
    OBVIOUS
  <2> QED BY <1>2, <2>1, BytesBack
<1>4. BytesOf(ws) \in [1 .. 4 * n -> 0 .. Base - 1]
  BY <1>1, <1>3 DEF BytesOf
<1>5. PICK m \in Nat : m = 4 * n
  OBVIOUS
<1>6. BytesOf(ws) \in [1 .. m -> 0 .. Base - 1]
  BY <1>4, <1>5
<1>7. BytesOf(ws) \in Seq(0 .. Base - 1) /\ Len(BytesOf(ws)) = m
  <2>1. ASSUME NEW S, NEW f \in [1 .. m -> S] PROVE f \in Seq(S) /\ Len(f) = m
    OBVIOUS
  <2> QED BY <1>6, <2>1, Zenon
<1> QED BY <1>1, <1>4, <1>5, <1>7

\* Uint32 at a word's offset is the word.
LEMMA WordBack ==
  ASSUME NEW ws \in Seq(Int), NEW j \in Nat, j < Len(ws), InWidth(ws[j + 1], 4)
  PROVE  Uint32(BytesOf(ws), 4 * j) = Wrap(ws[j + 1], 4)
<1> DEFINE v == ws[j + 1]
           raw == BytesOf(ws)
<1>1. PICK n \in Nat : n = Len(ws) /\ j \in 0 .. n - 1
  OBVIOUS
<1>2. v \in Int
  BY <1>1
<1>3. ASSUME NEW k \in 0 .. 3 PROVE raw[4 * j + k + 1] = ByteOf(v, k)
  <2>1. /\ 4 * j + k + 1 \in 1 .. 4 * n
        /\ ((4 * j + k + 1) - 1) \div 4 + 1 = j + 1 /\ ((4 * j + k + 1) - 1) % 4 = k
    BY <1>1
  <2> QED BY <1>1, <2>1, Zenon DEF BytesOf
<1>4. raw[4 * j + 1] = ByteOf(v, 0)
  <2>1. 4 * j + 0 + 1 = 4 * j + 1
    OBVIOUS
  <2> QED BY <1>3, <2>1
<1>5. raw[4 * j + 2] = ByteOf(v, 1)
  <2>1. 4 * j + 1 + 1 = 4 * j + 2
    OBVIOUS
  <2> QED BY <1>3, <2>1
<1>6. raw[4 * j + 3] = ByteOf(v, 2)
  <2>1. 4 * j + 2 + 1 = 4 * j + 3
    OBVIOUS
  <2> QED BY <1>3, <2>1
<1>7. raw[4 * j + 4] = ByteOf(v, 3)
  <2>1. 4 * j + 3 + 1 = 4 * j + 4
    OBVIOUS
  <2> QED BY <1>3, <2>1
<1>8. Uint32(raw, 4 * j)
        = ByteOf(v, 0) + Base * (ByteOf(v, 1) + Base * (ByteOf(v, 2) + Base * ByteOf(v, 3)))
  BY <1>4, <1>5, <1>6, <1>7 DEF Uint32
<1>9. Word \in Nat /\ Values(4) = Word
  BY WordFacts
<1>10. v \in 0 .. Word - 1 \/ v \in -Word .. -1
  BY <1>2, <1>9 DEF InWidth
<1> HIDE DEF v, raw
<1>11. Uint32(raw, 4 * j) = IF v < 0 THEN v + Word ELSE v
  <2>1. v \in 0 .. Word - 1 => Uint32(raw, 4 * j) = v
    BY <1>2, <1>8, BytesBack
  <2>2. v \in -Word .. -1 => Uint32(raw, 4 * j) = v + Word
    BY <1>2, <1>8, BytesBack
  <2> QED BY <1>2, <1>9, <1>10, <2>1, <2>2
<1> QED BY <1>9, <1>11 DEF Wrap, v, raw

\* A number of 8 bytes is stored as its two halves.
LEMMA Halves ==
  ASSUME NEW v \in Int, InWidth(v, 8)
  PROVE  /\ Low(v) \in Int /\ High(v) \in Int
         /\ InWidth(Low(v), 4) /\ InWidth(High(v), 4)
         /\ Wrap(Low(v), 4) + Word * Wrap(High(v), 4) = Wrap(v, 8)
<1>1. Word \in Nat \ {0} /\ Values(4) = Word /\ Values(8) = Word * Word
  BY WordFacts
<1>2. /\ High(v) \in Int /\ Low(v) \in 0 .. Word - 1
      /\ v = Word * High(v) + Low(v)
  BY <1>1, Division DEF High, Low
<1>3. v >= Word * (-Word) /\ v < Word * Word
  BY <1>1 DEF InWidth
<1>4. High(v) < Word /\ High(v) >= -Word
  BY <1>1, <1>3, QuotientLess DEF High
<1>5. v < 0 <=> High(v) < 0
  <2>1. Word * 0 = 0
    BY <1>1
  <2> QED BY <1>1, <1>2, <2>1, QuotientLess DEF High
<1>6. Wrap(Low(v), 4) = Low(v) /\ Low(v) \in Int /\ InWidth(Low(v), 4) /\ InWidth(High(v), 4)
  BY <1>1, <1>2, <1>4 DEF Wrap, InWidth
<1>7. CASE v < 0
  <2>1. Wrap(High(v), 4) = High(v) + Word /\ Wrap(v, 8) = v + Word * Word
    BY <1>1, <1>5, <1>7 DEF Wrap
  <2>2. Word * (High(v) + Word) = Word * High(v) + Word * Word
    BY <1>1, <1>2
  <2>3. Wrap(Low(v), 4) + Word * Wrap(High(v), 4) = Wrap(v, 8)
    BY <1>1, <1>2, <1>6, <2>1, <2>2
  <2> QED BY <1>2, <1>6, <2>3
<1>8. CASE v >= 0
  <2>1. Wrap(High(v), 4) = High(v) /\ Wrap(v, 8) = v
    BY <1>1, <1>2, <1>5, <1>8 DEF Wrap
  <2>3. Wrap(Low(v), 4) + Word * Wrap(High(v), 4) = Wrap(v, 8)
    BY <1>1, <1>2, <1>6, <2>1
  <2> QED BY <1>2, <1>6, <2>3
<1> QED BY <1>7, <1>8

\* Uint64 of the bytes of the two halves of a number is the number, without its sign.
LEMMA LongBack ==
  ASSUME NEW ws \in Seq(Int), NEW j \in Nat, j + 1 < Len(ws), NEW v \in Int, InWidth(v, 8),
         ws[j + 1] = Low(v), ws[j + 2] = High(v)
  PROVE  Uint64(BytesOf(ws), 4 * j) = Wrap(v, 8)
<1>1. Len(ws) \in Nat
  OBVIOUS
<1>2. InWidth(ws[j + 1], 4) /\ InWidth(ws[(j + 1) + 1], 4)
  BY Halves
<1>3. Uint32(BytesOf(ws), 4 * j) = Wrap(Low(v), 4)
  <2>1. j < Len(ws)
    BY <1>1
  <2> QED BY <1>2, <2>1, WordBack
<1>4. Uint32(BytesOf(ws), 4 * (j + 1)) = Wrap(High(v), 4)
  <2>1. j + 1 \in Nat /\ (j + 1) + 1 = j + 2
    OBVIOUS
  <2> QED BY <1>2, <2>1, WordBack
<1>5. 4 * (j + 1) = 4 * j + 4
  OBVIOUS
<1> QED BY <1>3, <1>4, <1>5, Halves DEF Uint64

\* Without a sign what is read back is the number; with one, Go's conversion
\* restores it.
LEMMA SignBack ==
  ASSUME NEW w \in {4, 8}
  PROVE  /\ \A v \in Unsigned(w) : v \in Int /\ InWidth(v, w) /\ Wrap(v, w) = v
         /\ \A v \in NonNegative(w) : v \in Unsigned(w) /\ Signed(v, w) = v
         /\ \A v \in Integer(w) : v \in Int /\ InWidth(v, w) /\ Signed(Wrap(v, w), w) = v
<1> DEFINE m == Values(w)
           h == Values(w) \div 2
<1>1. m \in Nat /\ m > 0 /\ m = 2 * h /\ h \in Int
  BY WordFacts
<1>2. \A u \in 0 .. m - 1 : u % m = u
  <2> SUFFICES ASSUME NEW u \in 0 .. m - 1 PROVE u % m = u
    OBVIOUS
  <2>0. m \in Nat \ {0} /\ u \in Int
    BY <1>1
  <2> HIDE DEF m
  <2>1. /\ u \div m \in Int /\ u % m \in 0 .. m - 1 /\ u = m * (u \div m) + (u % m)
    BY <2>0, Division
  <2>2. u \div m < 1 /\ u \div m >= 0
    BY <1>1, QuotientLess
  <2>3. u \div m = 0
    BY <2>1, <2>2
  <2> QED BY <1>1, <2>1, <2>3
<1> HIDE DEF m, h
<1>3. \A v \in 0 .. m - 1 : Signed(v, w) = IF v < h THEN v ELSE v - m
  BY <1>2 DEF Signed, m, h
<1>4. \A v \in 0 .. m - 1 : v \in Int /\ InWidth(v, w) /\ Wrap(v, w) = v
  BY <1>1 DEF InWidth, Wrap, m
<1>5. \A v \in 0 .. h - 1 : v \in 0 .. m - 1 /\ Signed(v, w) = v
  BY <1>1, <1>3
<1>6. ASSUME NEW v \in -h .. h - 1 PROVE v \in Int /\ InWidth(v, w) /\ Signed(Wrap(v, w), w) = v
  <2>1. v \in Int /\ InWidth(v, w)
    BY <1>1 DEF InWidth, m
  <2>2. CASE v < 0
    <3>1. Wrap(v, w) = v + m
      BY <2>2 DEF Wrap, m
    <3>2. v + m \in 0 .. m - 1 /\ ~(v + m < h)
      BY <1>1, <2>2
    <3> QED BY <1>1, <1>3, <2>1, <3>1, <3>2
  <2>3. CASE v >= 0
    BY <1>1, <1>4, <1>5, <2>1, <2>3
  <2> QED BY <2>1, <2>2, <2>3
<1> QED BY <1>4, <1>5, <1>6 DEF Unsigned, NonNegative, Integer, m, h

\* What an object's bytes decode to, in its own type.
Decodes(obj) == Getter(obj.ctype, RawOf(obj)) = Ok(Meaning(obj))

\* GetInt32, GetUint32, GetInt64 and GetUint64 return the number the kernel holds.
LEMMA NumberDecodes ==
  ASSUME NEW obj, WellFormed(obj), obj.ctype \in {"int32", "uint32", "int64", "uint64"}
  PROVE  Decodes(obj)
<1> DEFINE v == obj.vals
           ws == Words(obj.ctype, v)
           raw == BytesOf(ws)
<1>0. v \in Members(obj.ctype) /\ RawOf(obj) = raw /\ Meaning(obj) = v[1]
  BY DEF WellFormed, RawOf, CopyOut, Meaning
<1>1. CASE obj.ctype = "int32"
  <2>1. v = <<v[1]>> /\ v[1] \in Integer(4) /\ ws = <<v[1]>>
    BY <1>0, <1>1 DEF Members, Words
  <2>2. v[1] \in Int /\ InWidth(v[1], 4) /\ Signed(Wrap(v[1], 4), 4) = v[1]
    BY <2>1, SignBack
  <2>3. ws \in Seq(Int) /\ Len(ws) = 1 /\ ws[0 + 1] = v[1]
    BY <2>1, <2>2
  <2> HIDE DEF ws, raw
  <2>4. Uint32(raw, 0) = Wrap(v[1], 4) /\ Len(raw) = 4
    <3>1. Uint32(raw, 4 * 0) = Wrap(v[1], 4)
      BY <2>2, <2>3, WordBack DEF raw
    <3>2. Len(raw) = 4 * 1
      BY <2>3, BytesLength DEF raw
    <3> QED BY <3>1, <3>2
  <2> QED BY <1>0, <1>1, <2>2, <2>4 DEF Decodes, Getter, GetInt32, OfWidth
<1>2. CASE obj.ctype = "uint32"
  <2>1. v = <<v[1]>> /\ v[1] \in Unsigned(4) /\ ws = <<v[1]>>
    BY <1>0, <1>2 DEF Members, Words
  <2>2. v[1] \in Int /\ InWidth(v[1], 4) /\ Wrap(v[1], 4) = v[1]
    BY <2>1, SignBack
  <2>3. ws \in Seq(Int) /\ Len(ws) = 1 /\ ws[0 + 1] = v[1]
    BY <2>1, <2>2
  <2> HIDE DEF ws, raw
  <2>4. Uint32(raw, 0) = v[1] /\ Len(raw) = 4
    <3>1. Uint32(raw, 4 * 0) = Wrap(v[1], 4)
      BY <2>2, <2>3, WordBack DEF raw
    <3>2. Len(raw) = 4 * 1
      BY <2>3, BytesLength DEF raw
    <3> QED BY <2>2, <3>1, <3>2
  <2> QED BY <1>0, <1>2, <2>4 DEF Decodes, Getter, GetUint32, OfWidth
<1>3. CASE obj.ctype = "int64"
  <2>1. v = <<v[1]>> /\ v[1] \in Integer(8) /\ ws = <<Low(v[1]), High(v[1])>>
    BY <1>0, <1>3 DEF Members, Words
  <2>2. v[1] \in Int /\ InWidth(v[1], 8) /\ Signed(Wrap(v[1], 8), 8) = v[1]
    BY <2>1, SignBack
  <2>3. ws \in Seq(Int) /\ Len(ws) = 2 /\ ws[0 + 1] = Low(v[1]) /\ ws[0 + 2] = High(v[1])
    BY <2>1, <2>2, Halves
  <2> HIDE DEF ws, raw
  <2>4. Uint64(raw, 0) = Wrap(v[1], 8) /\ Len(raw) = 8
    <3>1. Uint64(raw, 4 * 0) = Wrap(v[1], 8)
      <4>1. 0 + 1 < Len(ws) /\ 0 \in Nat
        BY <2>3
      <4> HIDE DEF v
      <4> QED BY <2>2, <2>3, <4>1, LongBack DEF raw
    <3>2. Len(raw) = 4 * 2
      BY <2>3, BytesLength DEF raw
    <3> QED BY <3>1, <3>2
  <2> QED BY <1>0, <1>3, <2>2, <2>4 DEF Decodes, Getter, GetInt64, OfWidth
<1>4. CASE obj.ctype = "uint64"
  <2>1. v = <<v[1]>> /\ v[1] \in Unsigned(8) /\ ws = <<Low(v[1]), High(v[1])>>
    BY <1>0, <1>4 DEF Members, Words
  <2>2. v[1] \in Int /\ InWidth(v[1], 8) /\ Wrap(v[1], 8) = v[1]
    BY <2>1, SignBack
  <2>3. ws \in Seq(Int) /\ Len(ws) = 2 /\ ws[0 + 1] = Low(v[1]) /\ ws[0 + 2] = High(v[1])
    BY <2>1, <2>2, Halves
  <2> HIDE DEF ws, raw
  <2>4. Uint64(raw, 0) = v[1] /\ Len(raw) = 8
    <3>1. Uint64(raw, 4 * 0) = Wrap(v[1], 8)
      <4>1. 0 + 1 < Len(ws) /\ 0 \in Nat
        BY <2>3
      <4> HIDE DEF v
      <4> QED BY <2>2, <2>3, <4>1, LongBack DEF raw
    <3>2. Len(raw) = 4 * 2
      BY <2>3, BytesLength DEF raw
    <3> QED BY <2>2, <3>1, <3>2
  <2> QED BY <1>0, <1>4, <2>4 DEF Decodes, Getter, GetUint64, OfWidth
<1> QED BY <1>1, <1>2, <1>3, <1>4

\* GetTimeval returns the seconds and microseconds the kernel holds.
LEMMA TimevalDecodes ==
  ASSUME NEW obj, WellFormed(obj), obj.ctype = "timeval"
  PROVE  Decodes(obj)
<1> DEFINE v == obj.vals
           ws == Words(obj.ctype, v)
           raw == BytesOf(ws)
<1>0. v \in Members(obj.ctype) /\ RawOf(obj) = raw /\ Meaning(obj) = [Sec |-> v[1], Usec |-> v[2]]
  BY DEF WellFormed, RawOf, CopyOut, Meaning
<1>1. /\ v[1] \in NonNegative(8) /\ v[2] \in NonNegative(8)
      /\ ws = <<Low(v[1]), High(v[1]), Low(v[2]), High(v[2])>>
  BY <1>0 DEF Members, Words
<1>2. \A k \in {1, 2} : v[k] \in Int /\ InWidth(v[k], 8) /\ Wrap(v[k], 8) = v[k]
  BY <1>1, SignBack
<1>3. \A k \in {1, 2} : Low(v[k]) \in Int /\ High(v[k]) \in Int
  BY <1>2, Halves
<1>4. /\ ws \in Seq(Int) /\ Len(ws) = 4
      /\ ws[0 + 1] = Low(v[1]) /\ ws[0 + 2] = High(v[1])
      /\ ws[2 + 1] = Low(v[2]) /\ ws[2 + 2] = High(v[2])
  <2>1. ASSUME NEW a \in Int, NEW b \in Int, NEW c \in Int, NEW d \in Int
        PROVE  /\ <<a, b, c, d>> \in Seq(Int) /\ Len(<<a, b, c, d>>) = 4
    OBVIOUS
  <2>2. ws \in Seq(Int) /\ Len(ws) = 4
    <3>1. Low(v[1]) \in Int /\ High(v[1]) \in Int /\ Low(v[2]) \in Int /\ High(v[2]) \in Int
      BY <1>3
    <3>2. /\ <<Low(v[1]), High(v[1]), Low(v[2]), High(v[2])>> \in Seq(Int)
          /\ Len(<<Low(v[1]), High(v[1]), Low(v[2]), High(v[2])>>) = 4
      BY <2>1, <3>1, Zenon
    <3> QED BY <1>1, <3>2
  <2>3. ws[1] = Low(v[1]) /\ ws[2] = High(v[1]) /\ ws[3] = Low(v[2]) /\ ws[4] = High(v[2])
    BY <1>1
  <2> HIDE DEF ws, v
  <2> QED BY <2>2, <2>3
<1> HIDE DEF v, ws, raw
<1>5. Uint64(raw, 4 * 0) = v[1] /\ Uint64(raw, 4 * 2) = v[2]
  <2>1. 0 \in Nat /\ 2 \in Nat /\ 0 + 1 < Len(ws) /\ 2 + 1 < Len(ws)
    BY <1>4
  <2>2. Uint64(raw, 4 * 0) = Wrap(v[1], 8)
    BY <1>2, <1>4, <2>1, LongBack DEF raw
  <2>3. Uint64(raw, 4 * 2) = Wrap(v[2], 8)
    BY <1>2, <1>4, <2>1, LongBack DEF raw
  <2> QED BY <1>2, <2>2, <2>3
<1>6. Uint64(raw, 0) = v[1] /\ Uint64(raw, 8) = v[2]
  BY <1>5
<1>7. Len(raw) = 16
  <2>1. Len(raw) = 4 * 4
    BY <1>4, BytesLength DEF raw
  <2> QED BY <2>1
<1> QED BY <1>0, <1>6, <1>7 DEF Decodes, Getter, GetTimeval, OfWidth

\* GetLoadavg returns the three averages with the scale, or 2048 for a scale of zero.
LEMMA LoadavgDecodes ==
  ASSUME NEW obj, WellFormed(obj), obj.ctype = "loadavg"
  PROVE  Decodes(obj)
<1> DEFINE v == obj.vals
           ws == Words(obj.ctype, v)
           raw == BytesOf(ws)
           scale(f) == IF f = 0 THEN 2048 ELSE f
<1>0. /\ v \in Members(obj.ctype) /\ RawOf(obj) = raw
      /\ Meaning(obj) = [Load1 |-> <<v[1], scale(v[4])>>, Load5 |-> <<v[2], scale(v[4])>>,
                         Load15 |-> <<v[3], scale(v[4])>>]
  BY DEF WellFormed, RawOf, CopyOut, Meaning
<1>1. /\ v[1] \in Unsigned(4) /\ v[2] \in Unsigned(4) /\ v[3] \in Unsigned(4) /\ v[4] \in Unsigned(8)
      /\ ws = <<v[1], v[2], v[3], 0, Low(v[4]), High(v[4])>>
  BY <1>0 DEF Members, Words
<1>2. \A k \in {1, 2, 3} : v[k] \in Int /\ InWidth(v[k], 4) /\ Wrap(v[k], 4) = v[k]
  BY <1>1, SignBack
<1>3. v[4] \in Int /\ InWidth(v[4], 8) /\ Wrap(v[4], 8) = v[4]
  BY <1>1, SignBack
<1>4. Low(v[4]) \in Int /\ High(v[4]) \in Int
  BY <1>3, Halves
<1>5. /\ ws \in Seq(Int) /\ Len(ws) = 6
      /\ ws[0 + 1] = v[1] /\ ws[1 + 1] = v[2] /\ ws[2 + 1] = v[3]
      /\ ws[4 + 1] = Low(v[4]) /\ ws[4 + 2] = High(v[4])
  <2>1. ASSUME NEW a \in Int, NEW b \in Int, NEW c \in Int, NEW d \in Int, NEW e \in Int, NEW f \in Int
        PROVE  /\ <<a, b, c, d, e, f>> \in Seq(Int) /\ Len(<<a, b, c, d, e, f>>) = 6
    OBVIOUS
  <2>2. ws \in Seq(Int) /\ Len(ws) = 6
    <3>1. v[1] \in Int /\ v[2] \in Int /\ v[3] \in Int /\ 0 \in Int
      BY <1>1, <1>2, <1>4
    <3>2. Low(v[4]) \in Int /\ High(v[4]) \in Int
      BY <1>1, <1>2, <1>4
    <3> HIDE DEF v
    <3>3. <<v[1], v[2], v[3], 0, Low(v[4]), High(v[4])>> \in Seq(Int) /\ Len(<<v[1], v[2], v[3], 0, Low(v[4]), High(v[4])>>) = 6
      BY <2>1, <3>1, <3>2, Zenon
    <3> QED BY <1>1, <3>3, Zenon
  <2>3. ws[1] = v[1] /\ ws[2] = v[2] /\ ws[3] = v[3] /\ ws[5] = Low(v[4]) /\ ws[6] = High(v[4])
    BY <1>1
  <2> HIDE DEF ws, v
  <2> QED BY <2>2, <2>3
<1> HIDE DEF v, ws, raw
<1>6. \A j \in {0, 1, 2} : Uint32(raw, 4 * j) = v[j + 1]
  <2>1. ASSUME NEW j \in {0, 1, 2} PROVE Uint32(raw, 4 * j) = v[j + 1]
    <3>1. j \in Nat /\ j < Len(ws) /\ ws[j + 1] = v[j + 1] /\ j + 1 \in {1, 2, 3}
      BY <1>5
    <3> QED BY <1>2, <1>5, <3>1, WordBack DEF raw
  <2> QED BY <2>1
<1>7. Uint64(raw, 4 * 4) = v[4]
  <2>1. 4 \in Nat /\ 4 + 1 < Len(ws)
    BY <1>5
  <2> QED BY <1>3, <1>5, <2>1, LongBack DEF raw
<1>8. /\ Uint32(raw, 0) = v[1] /\ Uint32(raw, 4) = v[2] /\ Uint32(raw, 8) = v[3]
      /\ Uint64(raw, 16) = v[4]
  <2>1. Uint32(raw, 4 * 0) = v[0 + 1] /\ Uint32(raw, 4 * 1) = v[1 + 1] /\ Uint32(raw, 4 * 2) = v[2 + 1]
    BY <1>6
  <2> QED BY <1>7, <2>1
<1>9. Len(raw) = 24
  <2>1. Len(raw) = 4 * 6
    BY <1>5, BytesLength DEF raw
  <2> QED BY <2>1
<1>10. GetLoadavg(raw) = Ok([Load1 |-> <<v[1], scale(v[4])>>, Load5 |-> <<v[2], scale(v[4])>>,
                             Load15 |-> <<v[3], scale(v[4])>>])
  BY <1>8, <1>9 DEF GetLoadavg, OfWidth
<1> QED BY <1>0, <1>10 DEF Decodes, Getter

\* GetSwapUsage returns the sizes and the flags the kernel holds.
LEMMA SwapDecodes ==
  ASSUME NEW obj, WellFormed(obj), obj.ctype = "swap"
  PROVE  Decodes(obj)
<1> DEFINE v == obj.vals
           ws == Words(obj.ctype, v)
           raw == BytesOf(ws)
<1>0. /\ v \in Members(obj.ctype) /\ RawOf(obj) = raw
      /\ Meaning(obj) = [Total |-> v[1], Avail |-> v[2], Used |-> v[3], Flags |-> v[4] + v[5] * Word]
  BY DEF WellFormed, RawOf, CopyOut, Meaning
<1>1. /\ v[1] \in Unsigned(8) /\ v[2] \in Unsigned(8) /\ v[3] \in Unsigned(8)
      /\ v[4] \in Unsigned(4) /\ v[5] \in Unsigned(4)
      /\ ws = <<Low(v[1]), High(v[1]), Low(v[2]), High(v[2]), Low(v[3]), High(v[3]), v[4], v[5]>>
  BY <1>0 DEF Members, Words
<1>2. \A k \in {1, 2, 3} : v[k] \in Int /\ InWidth(v[k], 8) /\ Wrap(v[k], 8) = v[k]
  BY <1>1, SignBack
<1>3. \A k \in {4, 5} : v[k] \in Int /\ InWidth(v[k], 4) /\ Wrap(v[k], 4) = v[k]
  BY <1>1, SignBack
<1>4. \A k \in {1, 2, 3} : Low(v[k]) \in Int /\ High(v[k]) \in Int
  BY <1>2, Halves
<1>5. /\ ws \in Seq(Int) /\ Len(ws) = 8
      /\ ws[0 + 1] = Low(v[1]) /\ ws[0 + 2] = High(v[1])
      /\ ws[2 + 1] = Low(v[2]) /\ ws[2 + 2] = High(v[2])
      /\ ws[4 + 1] = Low(v[3]) /\ ws[4 + 2] = High(v[3])
      /\ ws[6 + 1] = v[4] /\ ws[7 + 1] = v[5]
  <2>1. ASSUME NEW a \in Int, NEW b \in Int, NEW c \in Int, NEW d \in Int, NEW e \in Int, NEW f \in Int, NEW g \in Int, NEW h \in Int
        PROVE  /\ <<a, b, c, d, e, f, g, h>> \in Seq(Int) /\ Len(<<a, b, c, d, e, f, g, h>>) = 8
    OBVIOUS
  <2>2. ws \in Seq(Int) /\ Len(ws) = 8
    <3>1. Low(v[1]) \in Int /\ High(v[1]) \in Int /\ Low(v[2]) \in Int /\ High(v[2]) \in Int
      BY <1>1, <1>3, <1>4
    <3>2. Low(v[3]) \in Int /\ High(v[3]) \in Int /\ v[4] \in Int /\ v[5] \in Int
      BY <1>1, <1>3, <1>4
    <3> HIDE DEF v
    <3>3. <<Low(v[1]), High(v[1]), Low(v[2]), High(v[2]), Low(v[3]), High(v[3]), v[4], v[5]>> \in Seq(Int) /\ Len(<<Low(v[1]), High(v[1]), Low(v[2]), High(v[2]), Low(v[3]), High(v[3]), v[4], v[5]>>) = 8
      BY <2>1, <3>1, <3>2, Zenon
    <3> QED BY <1>1, <3>3, Zenon
  <2>3. /\ ws[1] = Low(v[1]) /\ ws[2] = High(v[1]) /\ ws[3] = Low(v[2]) /\ ws[4] = High(v[2])
        /\ ws[5] = Low(v[3]) /\ ws[6] = High(v[3]) /\ ws[7] = v[4] /\ ws[8] = v[5]
    BY <1>1
  <2> HIDE DEF ws, v
  <2> QED BY <2>2, <2>3
<1> HIDE DEF v, ws, raw
<1>6. Uint64(raw, 4 * 0) = v[1] /\ Uint64(raw, 4 * 2) = v[2] /\ Uint64(raw, 4 * 4) = v[3]
  <2>1. 0 \in Nat /\ 2 \in Nat /\ 4 \in Nat /\ 0 + 1 < Len(ws) /\ 2 + 1 < Len(ws) /\ 4 + 1 < Len(ws)
    BY <1>5
  <2>2. Uint64(raw, 4 * 0) = Wrap(v[1], 8)
    BY <1>2, <1>5, <2>1, LongBack DEF raw
  <2>3. Uint64(raw, 4 * 2) = Wrap(v[2], 8)
    BY <1>2, <1>5, <2>1, LongBack DEF raw
  <2>4. Uint64(raw, 4 * 4) = Wrap(v[3], 8)
    BY <1>2, <1>5, <2>1, LongBack DEF raw
  <2> QED BY <1>2, <2>2, <2>3, <2>4
<1>7. Uint32(raw, 4 * 6) = v[4] /\ Uint32(raw, 4 * 7) = v[5]
  <2>1. 6 \in Nat /\ 7 \in Nat /\ 6 < Len(ws) /\ 7 < Len(ws)
    BY <1>5
  <2> QED BY <1>3, <1>5, <2>1, WordBack DEF raw
<1>8. Uint64(raw, 0) = v[1] /\ Uint64(raw, 8) = v[2] /\ Uint64(raw, 16) = v[3]
  BY <1>6
<1>9. Uint64(raw, 24) = v[4] + v[5] * Word
  <2>1. Uint32(raw, 24) = v[4] /\ Uint32(raw, 24 + 4) = v[5]
    BY <1>7
  <2>2. Word * v[5] = v[5] * Word
    BY <1>3, WordFacts
  <2> QED BY <2>1, <2>2 DEF Uint64
<1>10. Len(raw) = 32
  <2>1. Len(raw) = 4 * 8
    BY <1>5, BytesLength DEF raw
  <2> QED BY <2>1
<1> QED BY <1>0, <1>8, <1>9, <1>10 DEF Decodes, Getter, GetSwapUsage, OfWidth

\* GetClockinfo returns the five members the kernel holds.
LEMMA ClockDecodes ==
  ASSUME NEW obj, WellFormed(obj), obj.ctype = "clock"
  PROVE  Decodes(obj)
<1> DEFINE v == obj.vals
           raw == BytesOf(v)
<1>0. /\ v \in Members(obj.ctype) /\ RawOf(obj) = raw
      /\ Meaning(obj) = [Hz |-> v[1], Tick |-> v[2], Spare |-> v[3], Profhz |-> v[4], Stathz |-> v[5]]
  BY DEF WellFormed, RawOf, CopyOut, Meaning, Words
<1>1. /\ v = <<v[1], v[2], v[3], v[4], v[5]>>
      /\ \A k \in 1 .. 5 : v[k] \in Integer(4)
  BY <1>0 DEF Members
<1>2. \A k \in 1 .. 5 : v[k] \in Int /\ InWidth(v[k], 4) /\ Signed(Wrap(v[k], 4), 4) = v[k]
  BY <1>1, SignBack
<1>3. v \in Seq(Int) /\ Len(v) = 5
  <2>1. ASSUME NEW a \in Int, NEW b \in Int, NEW c \in Int, NEW d \in Int, NEW e \in Int
        PROVE  /\ <<a, b, c, d, e>> \in Seq(Int) /\ Len(<<a, b, c, d, e>>) = 5
    OBVIOUS
  <2>2. v[1] \in Int /\ v[2] \in Int /\ v[3] \in Int /\ v[4] \in Int /\ v[5] \in Int
    BY <1>2
  <2> HIDE DEF v
  <2>3. <<v[1], v[2], v[3], v[4], v[5]>> \in Seq(Int) /\ Len(<<v[1], v[2], v[3], v[4], v[5]>>) = 5
    BY <2>1, <2>2
  <2> QED BY <1>1, <2>3, Zenon
<1> HIDE DEF v, raw
<1>4. ASSUME NEW j \in 0 .. 4 PROVE Signed(Uint32(raw, 4 * j), 4) = v[j + 1]
  <2>1. j \in Nat /\ j < Len(v) /\ j + 1 \in 1 .. 5
    BY <1>3
  <2>2. Uint32(raw, 4 * j) = Wrap(v[j + 1], 4)
    BY <1>2, <1>3, <2>1, WordBack DEF raw
  <2> QED BY <1>2, <2>1, <2>2
<1>5. /\ Signed(Uint32(raw, 0), 4) = v[1] /\ Signed(Uint32(raw, 4), 4) = v[2]
      /\ Signed(Uint32(raw, 8), 4) = v[3] /\ Signed(Uint32(raw, 12), 4) = v[4]
      /\ Signed(Uint32(raw, 16), 4) = v[5]
  <2>1. /\ Signed(Uint32(raw, 4 * 0), 4) = v[0 + 1] /\ Signed(Uint32(raw, 4 * 1), 4) = v[1 + 1]
        /\ Signed(Uint32(raw, 4 * 2), 4) = v[2 + 1] /\ Signed(Uint32(raw, 4 * 3), 4) = v[3 + 1]
        /\ Signed(Uint32(raw, 4 * 4), 4) = v[4 + 1]
    BY <1>4
  <2> QED BY <2>1
<1>6. Len(raw) = 20
  <2>1. Len(raw) = 4 * 5
    BY <1>3, BytesLength DEF raw
  <2> QED BY <2>1
<1> QED BY <1>0, <1>5, <1>6 DEF Decodes, Getter, GetClockinfo, OfWidth

\* One trailing NUL is all the NULs there are.
LEMMA TextDecodes ==
  ASSUME NEW obj, WellFormed(obj), obj.ctype \in {"string", "raw"}
  PROVE  Decodes(obj)
<1> DEFINE v == obj.vals
<1>0. v \in Seq(0 .. Base - 1) /\ RawOf(obj) = v
  BY DEF WellFormed, Members, RawOf, CopyOut
<1>1. CASE obj.ctype = "raw"
  BY <1>0, <1>1 DEF Decodes, Getter, Meaning
<1>2. CASE obj.ctype = "string"
  <2>1. v # << >> /\ v[Len(v)] = 0 /\ \A k \in 1 .. Len(v) - 1 : v[k] # 0
    BY <1>2 DEF WellFormed
  <2>2. Meaning(obj) = SubSeq(v, 1, Min({k \in DOMAIN v : v[k] = 0}) - 1)
    BY <1>2 DEF Meaning
  <2> HIDE DEF v
  <2>3. Len(v) \in Nat \ {0} /\ DOMAIN v = 1 .. Len(v)
    BY <1>0, <2>1
  <2> DEFINE S == {k \in DOMAIN v : v[k] = 0}
  <2>4. S = {Len(v)}
    BY <2>1, <2>3
  <2>5. Min(S) = Len(v)
    <3>1. S \subseteq Nat /\ S # {}
      BY <2>3, <2>4
    <3> HIDE DEF S
    <3>2. Min(S) \in S
      BY <3>1, MinFacts
    <3> QED BY <2>4, <3>2
  <2>6. Front(v) = SubSeq(v, 1, Len(v) - 1) /\ Last(v) = 0
    BY <2>1 DEF Front, Last
  <2> HIDE DEF S
  <2>7. Meaning(obj) = Front(v)
    BY <2>2, <2>5, <2>6 DEF S
  <2>8. GetString(v) = Ok(Front(v))
    BY <2>1, <2>6 DEF GetString
  <2> QED BY <1>0, <1>2, <2>7, <2>8 DEF Decodes, Getter, v
<1> QED BY <1>1, <1>2

\* Every getter returns what the kernel's object says, of every well-formed object.
THEOREM GettersDecode ==
  ASSUME NEW obj, WellFormed(obj), obj.ctype \in Types
  PROVE  Getter(obj.ctype, RawOf(obj)) = Ok(Meaning(obj))
<1>1. Decodes(obj)
  BY NumberDecodes, TimevalDecodes, LoadavgDecodes, SwapDecodes, ClockDecodes, TextDecodes DEF Types
<1> QED BY <1>1 DEF Decodes

-----------------------------------------------------------------------------
(* The kernel's history. *)

\* A sequence, of whatever it holds.
IsSeq(s) == Len(s) \in Nat /\ s = [k \in 1..Len(s) |-> s[k]]

\* What Append does to a sequence, of whatever it holds.
LEMMA AppendFacts ==
  ASSUME NEW s, IsSeq(s), NEW v
  PROVE  /\ IsSeq(Append(s, v)) /\ Len(Append(s, v)) = Len(s) + 1
         /\ \A k \in 1..Len(s) : Append(s, v)[k] = s[k]
         /\ Append(s, v)[Len(s) + 1] = v
<1> DEFINE S == {s[k] : k \in 1..Len(s)} \cup {v}
<1>1. PICK n \in Nat : n = Len(s) /\ s = [k \in 1..n |-> s[k]]
  BY DEF IsSeq
<1>2. s \in [1..n -> S] /\ v \in S
  BY <1>1
<1> HIDE DEF S
<1>3. s \in Seq(S)
  BY <1>2
<1>4. Append(s, v) \in Seq(S) /\ Len(Append(s, v)) = n + 1
  BY <1>1, <1>2, <1>3
<1>5. \A k \in 1..n : Append(s, v)[k] = s[k]
  BY <1>1, <1>2, <1>3
<1>6. Append(s, v)[n + 1] = v
  BY <1>1, <1>2, <1>3
<1>7. IsSeq(Append(s, v))
  <2>1. ASSUME NEW q \in Seq(S) PROVE IsSeq(q)
    BY DEF IsSeq
  <2> QED BY <1>4, <2>1
<1> QED BY <1>1, <1>4, <1>5, <1>6, <1>7

Uptime(k) == k.now - BootTicks(k)

\* Since the start the kernel was in good order, and its uptime never fell.
HistInv(h) ==
    /\ IsSeq(h) /\ Len(h) >= 1
    /\ \A j \in 1..Len(h) : Healthy(h[j])
    /\ \A a, b \in 1..Len(h) : a <= b => Uptime(h[a]) <= Uptime(h[b])

\* The boot time of a healthy kernel can be read.
LEMMA BootFacts ==
  ASSUME NEW k, Healthy(k)
  PROVE  LET boot == k.obj["kern.boottime"]
         IN  /\ boot # Gone /\ WellFormed(boot) /\ boot.ctype = "timeval"
             /\ boot.vals[1] \in NonNegative(8) /\ boot.vals[2] \in NonNegative(8)
             /\ BootTicks(k) \in Int /\ Uptime(k) \in Int /\ k.now \in Int
             /\ "kern.boottime" \in DOMAIN k.obj
<1> DEFINE boot == k.obj["kern.boottime"]
           m == "computed.uptime_seconds"
           op == Op("kern.boottime", "timeval")
<1>1. m \in Computed /\ Operands[m] = <<op>>
  BY DEF Computed, Operands
<1>2. op \in Range(Operands[m]) /\ op.name = "kern.boottime" /\ op.type = "timeval"
  BY <1>1 DEF Range, Op
<1>3. "kern.boottime" \in ReadNames
  BY <1>1, <1>2 DEF ReadNames, OperandNames
<1>4. "kern.boottime" \in DOMAIN k.obj /\ boot # Gone /\ k.now \in Int
  BY <1>3 DEF Healthy
<1>5. WellFormed(boot) /\ boot.ctype = "timeval"
  <2>1. Proper("kern.boottime", boot)
    BY <1>4 DEF Healthy
  <2> QED BY <1>1, <1>2, <1>4, <2>1 DEF Proper
<1>6. boot.vals[1] \in NonNegative(8) /\ boot.vals[2] \in NonNegative(8)
  BY <1>5 DEF WellFormed, Members
<1>7. boot.vals[1] \in Int /\ boot.vals[2] \in Int
  <2>1. NonNegative(8) \subseteq Int
    BY DEF NonNegative
  <2> QED BY <1>6, <2>1
<1> HIDE DEF boot
<1>8. BootTicks(k) \in Int
  <2>1. PerSec \in Nat
    BY ReadPathAssumption
  <2> QED BY <1>7, <2>1 DEF BootTicks, boot
<1> QED BY <1>4, <1>5, <1>6, <1>8 DEF Uptime, boot

\* What the kernel adds to its history.
LEMMA HistGrows ==
  ASSUME NEW h, HistInv(h), NEW k, Healthy(k), Uptime(h[Len(h)]) <= Uptime(k)
  PROVE  HistInv(Append(h, k))
<1> DEFINE q == Append(h, k)
<1>1. PICK n \in Nat : n = Len(h) /\ n >= 1
  BY DEF HistInv, IsSeq
<1>2. /\ IsSeq(q) /\ Len(q) = n + 1 /\ q[n + 1] = k
      /\ \A j \in 1..n : q[j] = h[j]
  BY <1>1, AppendFacts DEF HistInv
<1> HIDE DEF q
<1>3. \A j \in 1..(n + 1) : Healthy(q[j])
  <2> SUFFICES ASSUME NEW j \in 1..(n + 1) PROVE Healthy(q[j])
    OBVIOUS
  <2>1. j \in 1..n \/ j = n + 1
    OBVIOUS
  <2> QED BY <1>1, <1>2, <2>1 DEF HistInv
<1>4. ASSUME NEW a \in 1..(n + 1), NEW b \in 1..(n + 1), a <= b PROVE Uptime(q[a]) <= Uptime(q[b])
  <2>1. Uptime(q[a]) \in Int /\ Uptime(q[b]) \in Int /\ Uptime(q[n]) \in Int
    BY <1>1, <1>3, BootFacts
  <2>2. CASE b \in 1..n
    BY <1>1, <1>2, <1>4, <2>2 DEF HistInv
  <2>3. CASE b = n + 1 /\ a \in 1..n
    <3>1. Uptime(q[a]) <= Uptime(q[n])
      BY <1>1, <1>2, <2>3 DEF HistInv
    <3>2. Uptime(q[n]) <= Uptime(q[b])
      BY <1>1, <1>2, <2>3
    <3> QED BY <2>1, <3>1, <3>2
  <2>4. CASE b = n + 1 /\ a = n + 1
    BY <2>1, <2>4
  <2> QED BY <1>4, <2>2, <2>3, <2>4
<1> QED BY <1>1, <1>2, <1>3, <1>4 DEF HistInv, q

\* The kernel changes some objects at once, its time passes, or its clock is set.
LEMMA KernelKeeps ==
  ASSUME HistInv(hist), KernelChange \/ Advance \/ StepClock
  PROVE  /\ HistInv(hist') /\ UNCHANGED <<vars, phase, at, got, resp>>
         /\ \E k : hist' = Append(hist, k)
<1>1. Len(hist) \in Nat /\ Len(hist) >= 1 /\ Kernel = hist[Len(hist)] /\ Healthy(Kernel)
  BY DEF HistInv, IsSeq, Kernel, Last
<1>2. UNCHANGED <<vars, phase, at, got, resp>>
  BY DEF KernelChange, Advance, StepClock, KernelStep
<1>3. ASSUME NEW now \in Int, NEW obj, KernelStep(now, obj), Healthy([now |-> now, obj |-> obj]),
             Uptime(Kernel) <= Uptime([now |-> now, obj |-> obj])
      PROVE  HistInv(hist') /\ \E k : hist' = Append(hist, k)
  <2>1. hist' = Append(hist, [now |-> now, obj |-> obj])
    BY <1>3 DEF KernelStep
  <2> QED BY <1>1, <1>3, <2>1, HistGrows
<1> DEFINE bt == "kern.boottime"
<1>4. /\ Kernel.now \in Int /\ bt \in DOMAIN Kernel.obj /\ ReadNames \subseteq DOMAIN Kernel.obj
      /\ \A n \in DOMAIN Kernel.obj : Proper(n, Kernel.obj[n])
      /\ Sane(Kernel.obj) /\ Kernel.obj[bt] # Gone /\ BootTicks(Kernel) \in Int
  BY <1>1, BootFacts DEF Healthy
<1>5. ASSUME NEW now \in Int, NEW obj
      PROVE  [now |-> now, obj |-> obj].now = now /\ [now |-> now, obj |-> obj].obj = obj
  OBVIOUS
<1>6. CASE KernelChange
  <2>1. PICK m \in Moves : Sane(Changed(m)) /\ KernelStep(Kernel.now, Changed(m))
    BY <1>6 DEF KernelChange
  <2> DEFINE o == Changed(m)
             k == [now |-> Kernel.now, obj |-> o]
  <2>2. DOMAIN o = DOMAIN Kernel.obj /\ o[bt] = Kernel.obj[bt]
    BY <1>4, KernelAssumption DEF Changed
  <2>3. ASSUME NEW n \in DOMAIN o PROVE Proper(n, o[n])
    <3>1. o[n] = IF n \in DOMAIN m THEN m[n] ELSE Kernel.obj[n]
      BY DEF Changed
    <3> QED BY <1>4, <2>2, <3>1, KernelAssumption
  <2> HIDE DEF o
  <2>4. Healthy(k)
    BY <1>4, <2>1, <2>2, <2>3 DEF Healthy, o
  <2>5. Uptime(k) = Uptime(Kernel)
    BY <2>2 DEF Uptime, BootTicks
  <2>6. Uptime(Kernel) <= Uptime(k)
    BY <1>1, <2>5, BootFacts
  <2> QED BY <1>2, <1>3, <1>4, <2>1, <2>4, <2>6 DEF o
<1>7. CASE Advance
  <2> DEFINE k == [now |-> Kernel.now + 1, obj |-> Kernel.obj]
  <2>1. Healthy(k)
    BY <1>4 DEF Healthy
  <2>2. k.now = Kernel.now + 1 /\ k.obj = Kernel.obj
    OBVIOUS
  <2>3. Uptime(Kernel) <= Uptime(k)
    <3> HIDE DEF k
    <3>1. BootTicks(k) = BootTicks(Kernel)
      BY <2>2 DEF BootTicks
    <3> QED BY <1>4, <2>2, <3>1 DEF Uptime
  <2> QED BY <1>2, <1>3, <1>4, <1>7, <2>1, <2>3 DEF Advance
<1>8. CASE StepClock
  <2>1. PICK d \in Steps : LET boot == BootTime(BootTicks(Kernel) + d)
                           IN  /\ WellFormed(boot)
                               /\ KernelStep(Kernel.now + d, [Kernel.obj EXCEPT ![bt] = boot])
    BY <1>8 DEF StepClock
  <2> DEFINE x == BootTicks(Kernel) + d
             boot == BootTime(x)
             o == [Kernel.obj EXCEPT ![bt] = boot]
             k == [now |-> Kernel.now + d, obj |-> o]
  <2>2. d \in Int /\ x \in Int /\ PerSec \in Nat \ {0}
    <3>1. Steps \subseteq Int
      BY KernelAssumption
    <3>2. PerSec \in Nat \ {0}
      BY ReadPathAssumption
    <3> QED BY <1>4, <3>1, <3>2
  <2>3. boot.ctype = "timeval" /\ boot.vals[1] = x \div PerSec /\ boot.vals[2] = x % PerSec
    BY DEF BootTime
  <2>4. DOMAIN o = DOMAIN Kernel.obj /\ o[bt] = boot /\ \A n \in DOMAIN o : n # bt => o[n] = Kernel.obj[n]
    BY <1>4
  <2>5. boot.vals[1] * PerSec + boot.vals[2] = x
    <3> HIDE DEF x
    <3>1. x \div PerSec \in Int /\ x % PerSec \in Int /\ x = PerSec * (x \div PerSec) + (x % PerSec)
      BY <2>2, Division
    <3>2. (x \div PerSec) * PerSec = PerSec * (x \div PerSec)
      BY <2>2, <3>1
    <3> QED BY <2>2, <2>3, <3>1, <3>2
  <2>6. boot # Gone /\ Proper(bt, boot)
    <3>1. WellFormed(boot)
      BY <2>1
    <3>2. \A m \in Computed : \A op \in Range(Operands[m]) : op.name = bt => boot.ctype = op.type
      <4>1. Proper(bt, Kernel.obj[bt]) /\ Kernel.obj[bt].ctype = "timeval"
        BY <1>1, <1>4, BootFacts
      <4> QED BY <1>4, <2>3, <4>1 DEF Proper
    <3>3. boot # Gone
      <4>1. boot = [ctype |-> "timeval", vals |-> boot.vals] /\ boot.vals \in Members("timeval")
        BY <3>1 DEF BootTime, WellFormed
      <4>2. boot \in [ctype : {"timeval"}, vals : Members("timeval")]
        <5> HIDE DEF boot
        <5> QED BY <4>1
      <4> QED BY <4>2, KernelAssumption
    <3> QED BY <3>1, <3>2, <3>3 DEF Proper
  <2> HIDE DEF boot
  <2>7. ASSUME NEW n \in DOMAIN o PROVE Proper(n, o[n])
    BY <1>4, <2>4, <2>6
  <2>8. Sane(o)
    <3>1. \A n \in {"vm.page_free_count", "vm.pages", "vm.swapusage", "vm.compressor_bytes_used",
                    "vm.compressor_pool_size"} : o[n] = Kernel.obj[n]
      BY <1>4
    <3> HIDE DEF o
    <3> QED BY <1>4, <3>1 DEF Sane, AtMost
  <2> HIDE DEF o
  <2>9. k.now = Kernel.now + d /\ k.obj = o
    OBVIOUS
  <2> HIDE DEF k
  <2>10. Healthy(k)
    BY <1>4, <2>2, <2>4, <2>6, <2>7, <2>8, <2>9 DEF Healthy
  <2>11. BootTicks(k) = BootTicks(Kernel) + d
    BY <2>4, <2>5, <2>9 DEF BootTicks
  <2>12. Uptime(Kernel) <= Uptime(k)
    BY <1>4, <2>2, <2>9, <2>11 DEF Uptime
  <2>13. KernelStep(Kernel.now + d, o) /\ Kernel.now + d \in Int
    BY <1>4, <2>1, <2>2 DEF o, boot
  <2> QED BY <1>2, <1>3, <2>10, <2>12, <2>13 DEF k
<1> QED BY <1>6, <1>7, <1>8

-----------------------------------------------------------------------------
(* A read, from the call to the answer. *)

Uptimes == "computed.uptime_seconds"
PlanOf(n) == Plan(n, Info(n))

\* What is read for a name can be read and decoded, and comes to at most three reads.
LEMMA PlanFacts ==
  ASSUME NEW n \in KnownNames \cup Unknown
  PROVE  /\ IsSeq(PlanOf(n)) /\ Len(PlanOf(n)) \in 1..3
         /\ \A k \in 1..Len(PlanOf(n)) :
               /\ PlanOf(n)[k].name \in ReadNames /\ PlanOf(n)[k].name # Nil
               /\ PlanOf(n)[k].type \in Types
         /\ n = Uptimes => Len(PlanOf(n)) = 1 /\ PlanOf(n)[1] = Op("kern.boottime", "timeval")
<1>1. Nil \notin KnownNames /\ Nil \notin Unknown /\ Nil \notin OperandNames /\ Computed \subseteq KnownNames
  BY ReadPathAssumption
<1>2. ASSUME NEW name, NEW type, PlanOf(n) = <<Op(name, type)>>, name \in ReadNames, name # Nil,
             type \in Types, n = Uptimes => Op(name, type) = Op("kern.boottime", "timeval")
      PROVE  /\ IsSeq(PlanOf(n)) /\ Len(PlanOf(n)) \in 1..3
             /\ \A k \in 1..Len(PlanOf(n)) :
                   /\ PlanOf(n)[k].name \in ReadNames /\ PlanOf(n)[k].name # Nil
                   /\ PlanOf(n)[k].type \in Types
             /\ n = Uptimes => Len(PlanOf(n)) = 1 /\ PlanOf(n)[1] = Op("kern.boottime", "timeval")
  <2>1. Len(PlanOf(n)) = 1 /\ PlanOf(n)[1] = Op(name, type) /\ PlanOf(n) = [k \in 1..1 |-> PlanOf(n)[k]]
    BY <1>2
  <2>2. Op(name, type).name = name /\ Op(name, type).type = type
    BY DEF Op
  <2>3. \A k \in 1..1 : k = 1
    OBVIOUS
  <2> QED BY <1>2, <2>1, <2>2, <2>3 DEF IsSeq
<1>3. CASE n \in Unknown
  <2>1. n \notin KnownNames /\ n # Uptimes
    BY <1>1, <1>3, IndexAssumption DEF Computed, Uptimes
  <2>2. PlanOf(n) = <<Op(n, "raw")>>
    BY <2>1 DEF PlanOf, Plan, Info
  <2>3. n \in ReadNames /\ n # Nil /\ "raw" \in Types
    BY <1>1, <1>3 DEF ReadNames, Types
  <2> QED BY <1>2, <2>1, <2>2, <2>3
<1>4. CASE n \in KnownNames \ Computed
  <2>1. n # Nil /\ TypeOf[n] \in Types /\ n # Uptimes
    BY <1>1, <1>4, ReadPathAssumption DEF Computed, Uptimes
  <2>2. TypeOf[n] # "computed"
    BY <2>1 DEF Types
  <2>3. PlanOf(n) = <<Op(n, TypeOf[n])>>
    BY <1>4, <2>1, <2>2 DEF PlanOf, Plan, Info
  <2>4. n \in ReadNames
    BY <1>4 DEF ReadNames
  <2> QED BY <1>2, <2>1, <2>3, <2>4
<1>5. CASE n \in Computed
  <2>1. n \in KnownNames /\ n # Nil /\ TypeOf[n] = "computed"
    BY <1>1, <1>5, ReadPathAssumption
  <2>2. PlanOf(n) = Operands[n]
    BY <2>1 DEF PlanOf, Plan, Info
  <2> DEFINE p == Operands[n]
  <2>3. /\ Len(p) \in 1..3 /\ p = [k \in 1..Len(p) |-> p[k]]
        /\ \A k \in 1..Len(p) : p[k].type \in {"int32", "int64", "uint64", "swap", "timeval"}
    <3> USE DEF Operands, Op
    <3>1. CASE n = "computed.memory_utilization_pct"
      BY <1>5, <3>1
    <3>2. CASE n = "computed.compression_ratio"
      BY <1>5, <3>2
    <3>3. CASE n = "computed.swap_utilization_pct"
      BY <1>5, <3>3
    <3>4. CASE n = "computed.compressor_pressure_pct"
      BY <1>5, <3>4
    <3>5. CASE n = "computed.total_connections"
      BY <1>5, <3>5
    <3>6. CASE n = "computed.uptime_seconds"
      BY <1>5, <3>6
    <3>7. CASE n = "computed.vfs_reclamation_pct"
      BY <1>5, <3>7
    <3> QED BY <1>5, <3>1, <3>2, <3>3, <3>4, <3>5, <3>6, <3>7 DEF Computed
  <2>4. n = Uptimes => Len(p) = 1 /\ p[1] = Op("kern.boottime", "timeval")
    BY <1>5 DEF Operands, Uptimes
  <2> HIDE DEF p
  <2>5. ASSUME NEW k \in 1..Len(p) PROVE p[k].name \in OperandNames
    <3>1. DOMAIN p = 1..Len(p)
      BY <2>3
    <3>2. p[k] \in Range(Operands[n])
      BY <3>1 DEF Range, p
    <3> QED BY <1>5, <3>2 DEF OperandNames
  <2>6. OperandNames \subseteq ReadNames
    BY DEF ReadNames
  <2>7. \A k \in 1..Len(p) : p[k].type \in Types
    BY <2>3 DEF Types
  <2>8. IsSeq(p)
    <3>1. Len(p) \in Nat
      BY <2>3
    <3> QED BY <2>3, <3>1 DEF IsSeq
  <2> QED BY <1>1, <2>2, <2>3, <2>4, <2>5, <2>6, <2>7, <2>8 DEF p
<1> QED BY <1>3, <1>4, <1>5

\* What the k-th read of n found, at the instants a of the history h.
Found(h, n, a, k) == h[a[k + 1]].obj[PlanOf(n)[k].name]
Result(h, n, a, k) == Getter(PlanOf(n)[k].type, RawOf(Found(h, n, a, k)))

GrewIn(h, n, from) ==
    \E a, b \in from .. Len(h) :
        /\ a < b /\ Gone \notin {h[a].obj[n], h[b].obj[n]}
        /\ Len(RawOf(h[a].obj[n])) < Len(RawOf(h[b].obj[n]))

\* The instants of a call and of its reads.
Instants(h, a) ==
    /\ a \in Seq(Nat) /\ Len(a) >= 1
    /\ \A k \in 1..Len(a) : a[k] \in 1..Len(h) /\ a[1] <= a[k]

\* What has been decoded is what the reads found.
Decoded(h, n, a, g) ==
    /\ IsSeq(g) /\ Len(g) <= Len(PlanOf(n)) /\ Len(g) < Len(a)
    /\ \A k \in 1..Len(g) : /\ Found(h, n, a, k) # Gone
                            /\ Result(h, n, a, k).ok /\ g[k] = Result(h, n, a, k).val

\* The read after those that were decoded failed.
Failed(h, n, a, g, r) ==
    LET k == Len(g) + 1
    IN  /\ k <= Len(PlanOf(n)) /\ Len(a) = k + 1
        /\ r = Error(PlanOf(n)[k].name)
        /\ \/ Found(h, n, a, k) = Gone \/ ~Result(h, n, a, k).ok
           \/ GrewIn(h, PlanOf(n)[k].name, a[k])

\* Everything was read.
Finished(h, n, a, g, r) ==
    /\ Len(g) = Len(PlanOf(n))
    /\ Len(a) = IF n = Uptimes THEN 3 ELSE Len(g) + 1
    /\ r = Answer(n, Info(n), g, h[a[Len(a)]].now)

\* A thread in phase ph of a read of n, with at = a, got = g and resp = r.
Reading(h, ph, n, a, g, r) ==
    ph # "idle" =>
        /\ n \in KnownNames \cup Unknown
        /\ Instants(h, a) /\ Decoded(h, n, a, g)
        /\ ph = "index" => Len(a) = 1 /\ Len(g) = 0
        /\ ph = "read" => Len(a) = Len(g) + 1 /\ Len(g) < Len(PlanOf(n))
        /\ ph = "now" => n = Uptimes /\ Len(g) = 1 /\ Len(a) = 2
        /\ ph = "done" => Failed(h, n, a, g, r) \/ Finished(h, n, a, g, r)

\* What happens in the kernel later does not change what was read.
LEMMA ReadingKept ==
  ASSUME NEW h, HistInv(h), NEW x, NEW ph, NEW n, NEW a, NEW g, NEW r, Reading(h, ph, n, a, g, r)
  PROVE  Reading(Append(h, x), ph, n, a, g, r)
<1> DEFINE q == Append(h, x)
<1>1. PICK m \in Nat : m = Len(h) /\ Len(q) = m + 1 /\ \A j \in 1..m : q[j] = h[j]
  BY AppendFacts DEF HistInv, IsSeq
<1> HIDE DEF q
<1> SUFFICES ASSUME ph # "idle" PROVE Reading(q, ph, n, a, g, r)
  BY DEF Reading, q
<1>2. /\ n \in KnownNames \cup Unknown /\ Instants(h, a) /\ Decoded(h, n, a, g)
      /\ ph = "done" => Failed(h, n, a, g, r) \/ Finished(h, n, a, g, r)
  BY DEF Reading
<1>3. \A k \in 1..Len(a) : a[k] \in 1..m /\ q[a[k]] = h[a[k]]
  BY <1>1, <1>2 DEF Instants
<1>4. Instants(q, a)
  <2>1. 1..m \subseteq 1..(m + 1)
    OBVIOUS
  <2> QED BY <1>1, <1>2, <2>1 DEF Instants
<1>5. Len(a) \in Nat /\ Len(g) \in Nat
  BY <1>2 DEF Instants, Decoded, IsSeq
<1>6. ASSUME NEW k \in 1..(Len(a) - 1)
      PROVE  Found(q, n, a, k) = Found(h, n, a, k) /\ Result(q, n, a, k) = Result(h, n, a, k)
  <2>1. k + 1 \in 1..Len(a)
    BY <1>5
  <2>2. q[a[k + 1]] = h[a[k + 1]]
    BY <1>3, <2>1
  <2> QED BY <2>2 DEF Found, Result
<1>7. Decoded(q, n, a, g)
  <2>1. 1..Len(g) \subseteq 1..(Len(a) - 1)
    BY <1>2, <1>5 DEF Decoded
  <2> QED BY <1>2, <1>6, <2>1 DEF Decoded
<1>8. ASSUME Failed(h, n, a, g, r) PROVE Failed(q, n, a, g, r)
  <2> DEFINE k == Len(g) + 1
             nm == PlanOf(n)[k].name
  <2>1. k \in 1..(Len(a) - 1) /\ k \in 1..Len(a) /\ Len(a) = k + 1
    BY <1>5, <1>8 DEF Failed
  <2>2. GrewIn(h, nm, a[k]) => GrewIn(q, nm, a[k])
    <3> SUFFICES ASSUME GrewIn(h, nm, a[k]) PROVE GrewIn(q, nm, a[k])
      OBVIOUS
    <3>1. PICK b, c \in a[k] .. m :
             /\ b < c /\ Gone \notin {h[b].obj[nm], h[c].obj[nm]}
             /\ Len(RawOf(h[b].obj[nm])) < Len(RawOf(h[c].obj[nm]))
      BY <1>1 DEF GrewIn
    <3>2. b \in 1..m /\ c \in 1..m /\ b \in a[k] .. m + 1 /\ c \in a[k] .. m + 1
      BY <1>3, <2>1
    <3>3. q[b] = h[b] /\ q[c] = h[c]
      BY <1>1, <3>2
    <3> HIDE DEF nm, k
    <3> QED BY <1>1, <3>1, <3>2, <3>3 DEF GrewIn
  <2> QED BY <1>6, <1>8, <2>1, <2>2 DEF Failed
<1>9. ASSUME Finished(h, n, a, g, r) PROVE Finished(q, n, a, g, r)
  <2>1. q[a[Len(a)]] = h[a[Len(a)]]
    <3>1. Len(a) \in 1..Len(a)
      BY <1>2, <1>5 DEF Instants
    <3> QED BY <1>3, <3>1
  <2> QED BY <1>9, <2>1 DEF Finished
<1> QED BY <1>2, <1>4, <1>7, <1>8, <1>9 DEF Reading

\* One more instant, the present.
LEMMA InstantAdded ==
  ASSUME NEW h, HistInv(h), NEW a, Instants(h, a)
  PROVE  LET b == Append(a, Len(h))
         IN  /\ Instants(h, b) /\ Len(b) = Len(a) + 1 /\ b[Len(a) + 1] = Len(h)
             /\ \A k \in 1..Len(a) : b[k] = a[k]
<1> DEFINE b == Append(a, Len(h))
<1>1. PICK m \in Nat : m = Len(h) /\ m >= 1
  BY DEF HistInv, IsSeq
<1>2. PICK s \in Nat : s = Len(a) /\ s >= 1
  BY DEF Instants
<1>3. a \in Seq(Nat) /\ \A k \in 1..s : a[k] \in 1..m /\ a[1] <= a[k]
  BY <1>1, <1>2 DEF Instants
<1>4. b \in Seq(Nat) /\ Len(b) = s + 1 /\ b[s + 1] = m /\ \A k \in 1..s : b[k] = a[k]
  BY <1>1, <1>2, <1>3
<1> HIDE DEF b
<1>5. ASSUME NEW k \in 1..(s + 1) PROVE b[k] \in 1..m /\ b[1] <= b[k]
  <2>1. 1 \in 1..s /\ a[1] \in 1..m /\ b[1] = a[1]
    BY <1>2, <1>3, <1>4
  <2>2. CASE k \in 1..s
    BY <1>3, <1>4, <2>1, <2>2
  <2>3. CASE k = s + 1
    BY <1>1, <1>4, <2>1, <2>3
  <2> QED BY <2>2, <2>3
<1> QED BY <1>1, <1>2, <1>4, <1>5 DEF Instants, b

\* What was decoded stays decoded.
LEMMA DecodedKept ==
  ASSUME NEW h, HistInv(h), NEW n, NEW a, NEW g, Instants(h, a), Decoded(h, n, a, g)
  PROVE  /\ Decoded(h, n, Append(a, Len(h)), g)
         /\ \A k \in 1..(Len(a) - 1) : /\ Found(h, n, Append(a, Len(h)), k) = Found(h, n, a, k)
                                       /\ Result(h, n, Append(a, Len(h)), k) = Result(h, n, a, k)
<1> DEFINE b == Append(a, Len(h))
<1>1. /\ Len(b) = Len(a) + 1 /\ \A k \in 1..Len(a) : b[k] = a[k]
  BY InstantAdded
<1>2. Len(a) \in Nat /\ Len(g) \in Nat
  BY DEF Instants, Decoded, IsSeq
<1> HIDE DEF b
<1>3. ASSUME NEW k \in 1..(Len(a) - 1)
      PROVE  Found(h, n, b, k) = Found(h, n, a, k) /\ Result(h, n, b, k) = Result(h, n, a, k)
  <2>1. k + 1 \in 1..Len(a)
    BY <1>2
  <2>2. b[k + 1] = a[k + 1]
    BY <1>1, <2>1
  <2> QED BY <2>2 DEF Found, Result
<1>4. 1..Len(g) \subseteq 1..(Len(a) - 1) /\ Len(g) < Len(b)
  BY <1>1, <1>2 DEF Decoded
<1>5. Decoded(h, n, b, g)
  BY <1>3, <1>4 DEF Decoded
<1> QED BY <1>3, <1>5 DEF b

\* A read that fails ends the call.
LEMMA FailKeeps ==
  ASSUME NEW h, HistInv(h), NEW n, NEW a, NEW g, NEW r, Reading(h, "read", n, a, g, r),
         NEW op, op = PlanOf(n)[Len(g) + 1], NEW obj, obj = h[Len(h)].obj[op.name],
         \/ obj = Gone \/ ~Getter(op.type, RawOf(obj)).ok \/ GrewIn(h, op.name, a[Len(a)])
  PROVE  Reading(h, "done", n, Append(a, Len(h)), g, Error(op.name))
<1> DEFINE b == Append(a, Len(h))
           k == Len(g) + 1
<1>1. /\ n \in KnownNames \cup Unknown /\ Instants(h, a) /\ Decoded(h, n, a, g)
      /\ Len(a) = k /\ Len(g) < Len(PlanOf(n)) /\ Len(g) \in Nat /\ Len(PlanOf(n)) \in Nat
  BY PlanFacts DEF Reading, Decoded, IsSeq
<1>2. Instants(h, b) /\ Len(b) = k + 1 /\ b[k + 1] = Len(h) /\ b[k] = a[k]
  BY <1>1, InstantAdded
<1>3. Decoded(h, n, b, g)
  BY <1>1, DecodedKept
<1> HIDE DEF b
<1>4. Found(h, n, b, k) = obj /\ Result(h, n, b, k) = Getter(op.type, RawOf(obj))
  BY <1>2 DEF Found, Result
<1>5. Failed(h, n, b, g, Error(op.name))
  BY <1>1, <1>2, <1>4 DEF Failed
<1> QED BY <1>1, <1>2, <1>3, <1>5 DEF Reading, b

\* The time matters to the uptime only.
LEMMA AnswerTimeless ==
  ASSUME NEW n, n # Uptimes, NEW i1, NEW v, NEW x, NEW y
  PROVE  Answer(n, i1, v, x) = Answer(n, i1, v, y)
BY DEF Answer, Uptimes

\* A read that succeeds is followed by the next one, by the reading of the clock
\* or by the answer.
GoesOn(h, n, a, g, r) ==
    /\ Len(g) < Len(PlanOf(n)) => Reading(h, "read", n, a, g, r)
    /\ ~(Len(g) < Len(PlanOf(n))) =>
          IF n = Uptimes THEN Reading(h, "now", n, a, g, r)
          ELSE Reading(h, "done", n, a, g, Answer(n, Info(n), g, 0))

\* A read that succeeds leaves the thread in one of these.
LEMMA OkKeeps ==
  ASSUME NEW h, HistInv(h), NEW n, NEW a, NEW g, NEW r, Reading(h, "read", n, a, g, r),
         NEW op, op = PlanOf(n)[Len(g) + 1], NEW obj, obj = h[Len(h)].obj[op.name],
         obj # Gone, Getter(op.type, RawOf(obj)).ok,
         NEW g1, g1 = Append(g, Getter(op.type, RawOf(obj)).val), NEW b, b = Append(a, Len(h))
  PROVE  GoesOn(h, n, b, g1, r)
<1> DEFINE k == Len(g) + 1
           res == Getter(op.type, RawOf(obj))
<1>1. /\ n \in KnownNames \cup Unknown /\ Instants(h, a) /\ Decoded(h, n, a, g)
      /\ Len(a) = k /\ Len(g) < Len(PlanOf(n)) /\ Len(g) \in Nat /\ Len(PlanOf(n)) \in Nat /\ IsSeq(g)
  BY PlanFacts DEF Reading, Decoded, IsSeq
<1>2. Instants(h, b) /\ Len(b) = k + 1 /\ b[k + 1] = Len(h)
  BY <1>1, InstantAdded
<1>3. Decoded(h, n, b, g)
  BY <1>1, DecodedKept
<1>4. IsSeq(g1) /\ Len(g1) = k /\ g1[k] = res.val /\ \A j \in 1..Len(g) : g1[j] = g[j]
  <2>1. PICK v : v = res.val
    OBVIOUS
  <2>2. g1 = Append(g, v) /\ IsSeq(g)
    BY <1>1, <2>1
  <2>3. /\ IsSeq(Append(g, v)) /\ Len(Append(g, v)) = Len(g) + 1
        /\ \A j \in 1..Len(g) : Append(g, v)[j] = g[j]
        /\ Append(g, v)[Len(g) + 1] = v
    BY <2>2, AppendFacts
  <2> HIDE DEF res
  <2> QED BY <2>1, <2>2, <2>3
<1>5. Found(h, n, b, k) = obj /\ Result(h, n, b, k) = res
  BY <1>2 DEF Found, Result
<1>6. Decoded(h, n, b, g1)
  <2>1. ASSUME NEW j \in 1..k
        PROVE  Found(h, n, b, j) # Gone /\ Result(h, n, b, j).ok /\ g1[j] = Result(h, n, b, j).val
    <3>1. CASE j \in 1..Len(g)
      BY <1>3, <1>4, <3>1 DEF Decoded
    <3>2. CASE j = k
      BY <1>4, <1>5, <3>2
    <3>3. j \in 1..Len(g) \/ j = k
      BY <1>1
    <3> QED BY <3>1, <3>2, <3>3
  <2>2. k <= Len(PlanOf(n)) /\ k < Len(b)
    BY <1>1, <1>2
  <2> HIDE DEF k
  <2> QED BY <1>4, <2>1, <2>2 DEF Decoded
<1>7. ASSUME ~(Len(g1) < Len(PlanOf(n))) PROVE Len(g1) = Len(PlanOf(n))
  <2>1. PICK p \in Nat : p = Len(PlanOf(n))
    BY <1>1
  <2>2. PICK s \in Nat : s = Len(g)
    BY <1>1
  <2>3. Len(g1) = s + 1
    BY <1>4, <2>2
  <2>4. s < p /\ ~(s + 1 < p)
    BY <1>1, <1>7, <2>1, <2>2, <2>3
  <2>5. s + 1 = p
    BY <2>4
  <2> QED BY <2>1, <2>3, <2>5
<1>8. ASSUME Len(g1) = Len(PlanOf(n)), n # Uptimes
      PROVE  Finished(h, n, b, g1, Answer(n, Info(n), g1, 0))
  <2>1. Answer(n, Info(n), g1, 0) = Answer(n, Info(n), g1, h[b[Len(b)]].now)
    BY <1>8, AnswerTimeless
  <2> QED BY <1>2, <1>4, <1>8, <2>1 DEF Finished
<1>9. ASSUME Len(g1) = Len(PlanOf(n)), n = Uptimes PROVE Len(g1) = 1 /\ Len(b) = 2
  <2>1. Len(PlanOf(n)) = 1
    BY <1>1, <1>9, PlanFacts
  <2>2. k = 1
    BY <1>4, <1>9, <2>1
  <2> HIDE DEF k
  <2>3. Len(b) = 1 + 1
    BY <1>2, <2>2
  <2> QED BY <1>9, <2>1, <2>3
<1> HIDE DEF k
<1>10. Len(b) = Len(g1) + 1
  BY <1>2, <1>4 DEF k
<1>11. ASSUME Len(g1) < Len(PlanOf(n)) PROVE Reading(h, "read", n, b, g1, r)
  BY <1>1, <1>2, <1>6, <1>10, <1>11 DEF Reading
<1>12. ASSUME ~(Len(g1) < Len(PlanOf(n))), n = Uptimes PROVE Reading(h, "now", n, b, g1, r)
  BY <1>1, <1>2, <1>6, <1>7, <1>9, <1>12 DEF Reading
<1>13. ASSUME ~(Len(g1) < Len(PlanOf(n))), n # Uptimes
       PROVE  Reading(h, "done", n, b, g1, Answer(n, Info(n), g1, 0))
  BY <1>1, <1>2, <1>6, <1>7, <1>8, <1>13 DEF Reading
<1> QED BY <1>11, <1>12, <1>13 DEF GoesOn

\* The clock is read last.
LEMMA ClockKeeps ==
  ASSUME NEW h, HistInv(h), NEW n, NEW a, NEW g, NEW r, Reading(h, "now", n, a, g, r)
  PROVE  Reading(h, "done", n, Append(a, Len(h)), g, Answer(n, Info(n), g, h[Len(h)].now))
<1> DEFINE b == Append(a, Len(h))
<1>1. /\ n \in KnownNames \cup Unknown /\ Instants(h, a) /\ Decoded(h, n, a, g)
      /\ n = Uptimes /\ Len(a) = 2 /\ Len(g) = 1 /\ Len(PlanOf(n)) = 1
  BY PlanFacts DEF Reading
<1>2. Instants(h, b) /\ Len(b) = 3 /\ b[3] = Len(h)
  <2>1. Instants(h, b) /\ Len(b) = Len(a) + 1 /\ b[Len(a) + 1] = Len(h)
    BY <1>1, InstantAdded
  <2> HIDE DEF b
  <2>2. Len(a) + 1 = 3
    BY <1>1
  <2> QED BY <2>1, <2>2
<1>3. Decoded(h, n, b, g)
  BY <1>1, DecodedKept
<1> HIDE DEF b
<1>4. Finished(h, n, b, g, Answer(n, Info(n), g, h[Len(h)].now))
  BY <1>1, <1>2 DEF Finished
<1> QED BY <1>1, <1>2, <1>3, <1>4 DEF Reading, b

\* A call begins.
LEMMA BeginKeeps ==
  ASSUME NEW h, HistInv(h), NEW n \in KnownNames \cup Unknown, NEW r
  PROVE  Reading(h, "index", n, <<Len(h)>>, << >>, r)
<1>1. PICK m \in Nat : m = Len(h) /\ m >= 1
  BY DEF HistInv, IsSeq
<1>2. <<m>> \in Seq(Nat) /\ Len(<<m>>) = 1 /\ <<m>>[1] = m
  BY <1>1
<1>3. Instants(h, <<m>>)
  <2>1. \A k \in 1..1 : k = 1
    OBVIOUS
  <2> QED BY <1>1, <1>2, <2>1 DEF Instants
<1>4. Decoded(h, n, <<m>>, << >>)
  <2>1. IsSeq(<< >>) /\ Len(<< >>) = 0
    BY DEF IsSeq
  <2>2. Len(PlanOf(n)) \in Nat
    BY PlanFacts DEF IsSeq
  <2> QED BY <1>2, <2>1, <2>2 DEF Decoded
<1> QED BY <1>1, <1>2, <1>3, <1>4 DEF Reading

Phases == {"idle", "index", "read", "now", "done"}

ReadType ==
    /\ phase \in [Threads -> Phases] /\ at \in [Threads -> Seq(Nat)]
    /\ got = [t \in Threads |-> got[t]] /\ resp = [t \in Threads |-> resp[t]]

ThreadInv(t) ==
    /\ phase[t] = "index" <=> pc[t] # "idle"
    /\ Reading(hist, phase[t], arg[t], at[t], got[t], resp[t])

\* The inductive invariant of the read path.
ReadInv == HistInv(hist) /\ ReadType /\ \A t \in Threads : ThreadInv(t)

\* The first state.
LEMMA ReadInit == RInit => ReadInv
<1> SUFFICES ASSUME RInit PROVE ReadInv
  OBVIOUS
<1>1. PICK k \in Kernels : hist = <<k>>
  BY DEF RInit
<1>2. Healthy(k)
  BY KernelAssumption
<1>3. Len(hist) = 1 /\ hist[1] = k /\ IsSeq(hist)
  <2>1. <<k>> \in Seq({k}) /\ Len(<<k>>) = 1 /\ <<k>>[1] = k /\ <<k>> = [j \in 1..1 |-> <<k>>[j]]
    OBVIOUS
  <2> QED BY <1>1, <2>1 DEF IsSeq
<1>4. HistInv(hist)
  <2>1. Uptime(k) \in Int
    BY <1>2, BootFacts DEF Uptime, Healthy
  <2>2. Uptime(k) <= Uptime(k)
    BY <2>1
  <2>3. \A j \in 1..1 : j = 1
    OBVIOUS
  <2> QED BY <1>2, <1>3, <2>2, <2>3 DEF HistInv
<1>5. ReadType
  BY DEF RInit, ReadType, Phases
<1>6. ASSUME NEW t \in Threads PROVE ThreadInv(t)
  BY DEF RInit, Init, ThreadInv, Reading
<1> QED BY <1>4, <1>5, <1>6 DEF ReadInv

\* A step of one thread leaves the reads of the others alone.
Others(t) ==
    \A u \in Threads \ {t} :
        /\ phase'[u] = phase[u] /\ at'[u] = at[u] /\ got'[u] = got[u] /\ resp'[u] = resp[u]
        /\ pc'[u] = pc[u] /\ arg'[u] = arg[u]

\* A step of one thread keeps the invariant if it keeps the part about that thread.
LEMMA ThreadStep ==
  ASSUME ReadInv, NEW t \in Threads, hist' = hist, ReadType', Others(t), ThreadInv(t)'
  PROVE  ReadInv'
<1>1. ASSUME NEW u \in Threads \ {t} PROVE ThreadInv(u)'
  <2>1. ThreadInv(u)
    BY DEF ReadInv
  <2> QED BY <2>1 DEF Others, ThreadInv
<1>2. HistInv(hist')
  BY DEF ReadInv
<1> QED BY <1>1, <1>2 DEF ReadInv

\* A kernel step.
LEMMA KernelRead ==
  ASSUME ReadInv, KernelChange \/ Advance \/ StepClock
  PROVE  ReadInv'
<1>1. HistInv(hist') /\ UNCHANGED <<pc, arg, phase, at, got, resp>> /\ \E k : hist' = Append(hist, k)
  BY KernelKeeps DEF ReadInv, vars
<1>2. PICK k : hist' = Append(hist, k)
  BY <1>1
<1>3. ASSUME NEW t \in Threads PROVE ThreadInv(t)'
  <2>1. ThreadInv(t) /\ HistInv(hist)
    BY DEF ReadInv
  <2>2. Reading(Append(hist, k), phase[t], arg[t], at[t], got[t], resp[t])
    BY <2>1, ReadingKept DEF ThreadInv
  <2> QED BY <1>1, <1>2, <2>1, <2>2 DEF ThreadInv
<1>4. ReadType'
  BY <1>1 DEF ReadInv, ReadType
<1> QED BY <1>1, <1>3, <1>4 DEF ReadInv

\* A call, at start-up or of a handler.
LEMMA CallRead ==
  ASSUME ReadInv, IndexInv, NEW t \in Threads, NEW n \in KnownNames \cup Unknown,
         Enter(t, n), BeginRead(t)
  PROVE  ReadInv'
<1>1. /\ phase \in [Threads -> Phases] /\ at \in [Threads -> Seq(Nat)] /\ DOMAIN got = Threads
      /\ DOMAIN resp = Threads /\ DOMAIN pc = Threads /\ DOMAIN arg = Threads /\ HistInv(hist)
  BY DEF ReadInv, ReadType, IndexInv, IndexType
<1>2. /\ phase' = [phase EXCEPT ![t] = "index"] /\ at' = [at EXCEPT ![t] = <<Len(hist)>>]
      /\ got' = [got EXCEPT ![t] = << >>] /\ resp' = [resp EXCEPT ![t] = Nil] /\ hist' = hist
      /\ pc' = [pc EXCEPT ![t] = "check"] /\ arg' = [arg EXCEPT ![t] = n]
  BY DEF BeginRead, Enter
<1>3. <<Len(hist)>> \in Seq(Nat)
  BY <1>1 DEF HistInv, IsSeq
<1>4. ReadType'
  <2>1. phase' \in [Threads -> Phases]
    BY <1>1, <1>2 DEF Phases
  <2>2. at' \in [Threads -> Seq(Nat)]
    BY <1>1, <1>2, <1>3
  <2>3. got' = [u \in Threads |-> got'[u]] /\ resp' = [u \in Threads |-> resp'[u]]
    BY <1>1, <1>2
  <2> QED BY <2>1, <2>2, <2>3 DEF ReadType
<1>5. Others(t)
  BY <1>1, <1>2 DEF Others
<1>6. /\ phase'[t] = "index" /\ at'[t] = <<Len(hist)>> /\ got'[t] = << >> /\ pc'[t] = "check"
      /\ arg'[t] = n
  BY <1>1, <1>2
<1>7. Reading(hist, "index", n, <<Len(hist)>>, << >>, resp'[t])
  BY <1>1, BeginKeeps
<1>8. ThreadInv(t)'
  BY <1>2, <1>6, <1>7 DEF ThreadInv
<1> QED BY <1>2, <1>4, <1>5, <1>8, ThreadStep

\* newPoller has returned.
LEMMA ReturnRead ==
  ASSUME ReadInv, IndexInv, NewReturns
  PROVE  ReadInv'
<1>1. /\ phase \in [Threads -> Phases] /\ at \in [Threads -> Seq(Nat)] /\ DOMAIN got = Threads
      /\ DOMAIN resp = Threads /\ Main \in Threads
  BY DEF ReadInv, ReadType, Threads
<1>2. /\ phase' = [phase EXCEPT ![Main] = "idle"] /\ at' = [at EXCEPT ![Main] = << >>]
      /\ got' = [got EXCEPT ![Main] = << >>] /\ resp' = [resp EXCEPT ![Main] = Nil] /\ hist' = hist
      /\ pc' = pc /\ arg' = arg /\ pc[Main] = "idle"
  BY DEF NewReturns, Serve
<1>3. ReadType'
  <2>1. phase' \in [Threads -> Phases]
    BY <1>1, <1>2 DEF Phases
  <2>2. << >> \in Seq(Nat)
    OBVIOUS
  <2>3. at' \in [Threads -> Seq(Nat)]
    BY <1>1, <1>2, <2>2
  <2>4. got' = [u \in Threads |-> got'[u]] /\ resp' = [u \in Threads |-> resp'[u]]
    BY <1>1, <1>2
  <2> QED BY <2>1, <2>3, <2>4 DEF ReadType
<1>4. Others(Main)
  BY <1>1, <1>2 DEF Others
<1>5. phase'[Main] = "idle" /\ pc'[Main] = "idle"
  BY <1>1, <1>2
<1>6. ThreadInv(Main)'
  BY <1>5 DEF ThreadInv, Reading
<1> QED BY <1>1, <1>2, <1>3, <1>4, <1>6, ThreadStep

\* A step of ByName before the lookup.
LEMMA IndexRead ==
  ASSUME ReadInv, IndexInv, NEW t \in Threads, IndexStep(t)
  PROVE  ReadInv'
<1>1. hist' = hist /\ phase' = phase /\ at' = at /\ got' = got /\ resp' = resp /\ arg' = arg
  BY DEF IndexStep, readVars, Check, MakeMap, InsertBegin, InsertEnd, FillDone
<1>2. pc \in [Threads -> {"idle", "check", "make", "fill", "inserting", "lookup"}]
  BY DEF IndexInv, IndexType
<1>3. pc[t] # "idle" /\ pc'[t] # "idle" /\ \A u \in Threads \ {t} : pc'[u] = pc[u]
  BY <1>2 DEF IndexStep, Check, MakeMap, InsertBegin, InsertEnd, FillDone
<1>4. ReadType'
  BY <1>1 DEF ReadInv, ReadType
<1>5. Others(t)
  BY <1>1, <1>3 DEF Others
<1>6. ThreadInv(t)
  BY DEF ReadInv
<1>7. ThreadInv(t)'
  BY <1>1, <1>3, <1>6 DEF ThreadInv
<1> QED BY <1>1, <1>4, <1>5, <1>7, ThreadStep

\* ByName returns.
LEMMA LookupRead ==
  ASSUME ReadInv, IndexInv, IndexInv', NEW t \in Threads, LookedUp(t)
  PROVE  ReadInv'
<1>1. /\ phase \in [Threads -> Phases] /\ pc \in [Threads -> {"idle", "check", "make", "fill", "inserting", "lookup"}]
      /\ ~crashed /\ ~crashed'
  BY DEF ReadInv, ReadType, IndexInv, IndexType
<1>2. /\ hist' = hist /\ at' = at /\ got' = got /\ resp' = resp /\ arg' = arg
      /\ phase' = [phase EXCEPT ![t] = "read"]
      /\ pc[t] = "lookup" /\ pc' = [pc EXCEPT ![t] = "idle"]
  BY <1>1 DEF LookedUp, Lookup
<1>3. ReadType'
  <2>1. phase' \in [Threads -> Phases]
    BY <1>1, <1>2 DEF Phases
  <2> QED BY <1>2, <2>1 DEF ReadInv, ReadType
<1>4. Others(t)
  BY <1>1, <1>2 DEF Others
<1>5. phase[t] = "index" /\ Reading(hist, "index", arg[t], at[t], got[t], resp[t])
  BY <1>2 DEF ReadInv, ThreadInv
<1>6. Reading(hist, "read", arg[t], at[t], got[t], resp[t])
  <2>1. arg[t] \in KnownNames \cup Unknown /\ Len(at[t]) = 1 /\ Len(got[t]) = 0
    BY <1>5 DEF Reading
  <2>2. PICK p \in 1..3 : p = Len(PlanOf(arg[t]))
    BY <2>1, PlanFacts
  <2>3. 0 < p /\ 1 = 0 + 1
    OBVIOUS
  <2>4. Len(at[t]) = Len(got[t]) + 1 /\ Len(got[t]) < Len(PlanOf(arg[t]))
    BY <2>1, <2>2, <2>3
  <2> QED BY <1>5, <2>4 DEF Reading
<1>7. phase'[t] = "read" /\ pc'[t] = "idle"
  BY <1>1, <1>2
<1>8. ThreadInv(t)'
  BY <1>2, <1>6, <1>7 DEF ThreadInv
<1> QED BY <1>2, <1>3, <1>4, <1>8, ThreadStep

\* A read, or the reading of the clock, by a thread that has the index's answer.
LEMMA AnswerStep ==
  ASSUME ReadInv, IndexInv, NEW t \in Threads, phase[t] \in {"read", "now"},
         NEW ph \in {"read", "now", "done"}, NEW g, NEW r,
         hist' = hist, UNCHANGED vars, at' = [at EXCEPT ![t] = Append(@, Len(hist))],
         phase' = [phase EXCEPT ![t] = ph], got' = [got EXCEPT ![t] = g], resp' = [resp EXCEPT ![t] = r],
         Reading(hist, ph, arg[t], Append(at[t], Len(hist)), g, r)
  PROVE  ReadInv'
<1>1. /\ phase \in [Threads -> Phases] /\ at \in [Threads -> Seq(Nat)] /\ DOMAIN got = Threads
      /\ DOMAIN resp = Threads /\ pc' = pc /\ arg' = arg /\ Len(hist) \in Nat
  BY DEF ReadInv, ReadType, HistInv, IsSeq, vars
<1>2. pc[t] = "idle"
  BY DEF ReadInv, ThreadInv
<1>3. at[t] \in Seq(Nat)
  BY <1>1
<1>4. Append(at[t], Len(hist)) \in Seq(Nat)
  BY <1>1, <1>3
<1>5. ReadType'
  <2>1. phase' \in [Threads -> Phases]
    BY <1>1 DEF Phases
  <2>2. at' \in [Threads -> Seq(Nat)]
    BY <1>1, <1>4
  <2>3. got' = [u \in Threads |-> got'[u]] /\ resp' = [u \in Threads |-> resp'[u]]
    BY <1>1
  <2> QED BY <2>1, <2>2, <2>3 DEF ReadType
<1>6. Others(t)
  BY <1>1 DEF Others
<1>7. phase'[t] = ph /\ at'[t] = Append(at[t], Len(hist)) /\ got'[t] = g /\ resp'[t] = r
  BY <1>1
<1>8. ThreadInv(t)'
  BY <1>1, <1>2, <1>7 DEF ThreadInv
<1> QED BY <1>5, <1>6, <1>8, ThreadStep

\* By then ByName has answered rightly.
LEMMA NamedRight ==
  ASSUME ReadInv, IndexInv, NEW t \in Threads, phase[t] \in {"read", "now", "done"}
  PROVE  /\ arg[t] \in KnownNames \cup Unknown /\ ret[t] = Info(arg[t])
         /\ Plan(arg[t], ret[t]) = PlanOf(arg[t])
<1>1. pc[t] = "idle" /\ arg[t] \in KnownNames \cup Unknown
  BY DEF ReadInv, ThreadInv, Reading
<1>2. arg[t] # Nil
  BY <1>1, ReadPathAssumption
<1> QED BY <1>1, <1>2 DEF IndexInv, ByNameCorrect, Info, PlanOf

\* A read that fails.
LEMMA FailRead ==
  ASSUME ReadInv, IndexInv, NEW t \in Threads, phase[t] = "read",
         hist' = hist, UNCHANGED vars, at' = [at EXCEPT ![t] = Append(@, Len(hist))], ReadFails(t),
         NEW op, op = PlanOf(arg[t])[Len(got[t]) + 1], NEW obj, obj = hist[Len(hist)].obj[op.name],
         \/ obj = Gone \/ ~Getter(op.type, RawOf(obj)).ok \/ GrewIn(hist, op.name, at[t][Len(at[t])])
  PROVE  ReadInv'
<1>1. Plan(arg[t], ret[t]) = PlanOf(arg[t])
  BY NamedRight
<1>2. HistInv(hist) /\ Reading(hist, "read", arg[t], at[t], got[t], resp[t]) /\ got = [u \in Threads |-> got[u]]
  BY DEF ReadInv, ThreadInv, ReadType
<1>3. Reading(hist, "done", arg[t], Append(at[t], Len(hist)), got[t], Error(op.name))
  BY <1>2, FailKeeps
<1>4. /\ resp' = [resp EXCEPT ![t] = Error(op.name)] /\ phase' = [phase EXCEPT ![t] = "done"]
      /\ got' = got
  BY <1>1 DEF ReadFails, Reply
<1>5. got' = [got EXCEPT ![t] = got[t]]
  BY <1>2, <1>4
<1> QED BY <1>3, <1>4, <1>5, AnswerStep

\* A read that succeeds.
LEMMA OkRead ==
  ASSUME ReadInv, IndexInv, NEW t \in Threads, phase[t] = "read",
         hist' = hist, UNCHANGED vars, at' = [at EXCEPT ![t] = Append(@, Len(hist))],
         NEW op, op = PlanOf(arg[t])[Len(got[t]) + 1], NEW obj, obj = hist[Len(hist)].obj[op.name],
         obj # Gone, Getter(op.type, RawOf(obj)).ok, ReadOk(t, Getter(op.type, RawOf(obj)).val)
  PROVE  ReadInv'
<1> DEFINE v == Getter(op.type, RawOf(obj)).val
           g1 == Append(got[t], v)
           b == Append(at[t], Len(hist))
           n == arg[t]
<1>1. n \in KnownNames \cup Unknown /\ ret[t] = Info(n) /\ Plan(n, ret[t]) = PlanOf(n)
  BY NamedRight
<1>2. /\ HistInv(hist) /\ Reading(hist, "read", n, at[t], got[t], resp[t])
      /\ got = [u \in Threads |-> got[u]] /\ resp = [u \in Threads |-> resp[u]]
      /\ phase \in [Threads -> Phases]
  BY DEF ReadInv, ThreadInv, ReadType
<1>3. GoesOn(hist, n, b, g1, resp[t])
  <2> HIDE DEF v, g1, b, n
  <2>1. /\ g1 = Append(got[t], Getter(op.type, RawOf(obj)).val) /\ b = Append(at[t], Len(hist))
        /\ op = PlanOf(n)[Len(got[t]) + 1]
    BY DEF v, g1, b, n
  <2>2. HistInv(hist) /\ Reading(hist, "read", n, at[t], got[t], resp[t])
    BY <1>2
  <2> QED BY <2>1, <2>2, OkKeeps
<1>4. got' = [got EXCEPT ![t] = g1] /\ got'[t] = g1
  BY <1>2 DEF ReadOk
<1>5. ret[t] = Uptimes <=> n = Uptimes
  <2>1. Uptimes \in KnownNames /\ Nil \notin KnownNames
    BY ReadPathAssumption DEF Uptimes, Computed
  <2> QED BY <1>1, <2>1 DEF Info
<1> HIDE DEF v, g1, b, n
<1>6. CASE Len(g1) < Len(PlanOf(n))
  <2>1. phase' = phase /\ resp' = resp
    BY <1>1, <1>4, <1>6 DEF ReadOk, n
  <2>2. phase' = [phase EXCEPT ![t] = "read"] /\ resp' = [resp EXCEPT ![t] = resp[t]]
    BY <1>2, <2>1
  <2> QED BY <1>3, <1>4, <1>6, <2>2, AnswerStep DEF b, n, GoesOn
<1>7. CASE ~(Len(g1) < Len(PlanOf(n))) /\ n = Uptimes
  <2>1. phase' = [phase EXCEPT ![t] = "now"] /\ resp' = resp
    BY <1>1, <1>4, <1>5, <1>7 DEF ReadOk, n, Uptimes
  <2>2. resp' = [resp EXCEPT ![t] = resp[t]]
    BY <1>2, <2>1
  <2> QED BY <1>3, <1>4, <1>7, <2>1, <2>2, AnswerStep DEF b, n, GoesOn
<1>8. CASE ~(Len(g1) < Len(PlanOf(n))) /\ n # Uptimes
  <2>1. phase' = [phase EXCEPT ![t] = "done"] /\ resp' = [resp EXCEPT ![t] = Answer(n, Info(n), g1, 0)]
    BY <1>1, <1>4, <1>5, <1>8 DEF ReadOk, n, Uptimes, Reply
  <2> QED BY <1>3, <1>4, <1>8, <2>1, AnswerStep DEF b, n, GoesOn
<1> QED BY <1>6, <1>7, <1>8

\* The steps of a read.
LEMMA ReadRead ==
  ASSUME ReadInv, IndexInv, NEW t \in Threads, Read(t) \/ ReadEnomem(t) \/ ReadClock(t)
  PROVE  ReadInv'
<1>1. /\ hist' = hist /\ UNCHANGED vars /\ at' = [at EXCEPT ![t] = Append(@, Len(hist))]
      /\ phase[t] \in {"read", "now"}
  BY DEF Read, ReadEnomem, ReadClock
<1>2. Plan(arg[t], ret[t]) = PlanOf(arg[t]) /\ ret[t] = Info(arg[t])
  BY <1>1, NamedRight
<1> DEFINE op == PlanOf(arg[t])[Len(got[t]) + 1]
           obj == hist[Len(hist)].obj[op.name]
<1>3. Kernel = hist[Len(hist)] /\ Last(at[t]) = at[t][Len(at[t])]
  BY DEF Kernel, Last
<1> HIDE DEF op
<1>4. CASE Read(t)
  <2>1. /\ phase[t] = "read"
        /\ \/ obj = Gone /\ ReadFails(t)
           \/ obj # Gone /\ Getter(op.type, RawOf(obj)).ok /\ ReadOk(t, Getter(op.type, RawOf(obj)).val)
           \/ obj # Gone /\ ~Getter(op.type, RawOf(obj)).ok /\ ReadFails(t)
    BY <1>2, <1>3, <1>4 DEF Read, op
  <2> HIDE DEF obj
  <2> QED BY <1>1, <2>1, FailRead, OkRead DEF op, obj
<1>5. CASE ReadEnomem(t)
  <2>1. phase[t] = "read" /\ ReadFails(t) /\ GrewIn(hist, op.name, at[t][Len(at[t])])
    BY <1>2, <1>3, <1>5 DEF ReadEnomem, Grew, GrewIn, op
  <2> HIDE DEF obj
  <2> QED BY <1>1, <2>1, FailRead DEF op, obj
<1>6. CASE ReadClock(t)
  <2> DEFINE r == Answer(arg[t], Info(arg[t]), got[t], hist[Len(hist)].now)
  <2>1. /\ phase[t] = "now" /\ phase' = [phase EXCEPT ![t] = "done"] /\ resp' = [resp EXCEPT ![t] = r]
        /\ got' = got
    BY <1>2, <1>3, <1>6 DEF ReadClock, Reply
  <2>2. /\ HistInv(hist) /\ Reading(hist, "now", arg[t], at[t], got[t], resp[t])
        /\ got = [u \in Threads |-> got[u]]
    BY <2>1 DEF ReadInv, ThreadInv, ReadType
  <2>3. Reading(hist, "done", arg[t], Append(at[t], Len(hist)), got[t], r)
    BY <2>2, ClockKeeps
  <2>4. got' = [got EXCEPT ![t] = got[t]]
    BY <2>1, <2>2
  <2> HIDE DEF r
  <2> QED BY <1>1, <2>1, <2>3, <2>4, AnswerStep
<1> QED BY <1>4, <1>5, <1>6

\* Every step.
LEMMA ReadStep ==
  ASSUME ReadInv, IndexInv, IndexInv', [RNext]_allVars
  PROVE  ReadInv'
<1>1. CASE UNCHANGED allVars
  BY <1>1 DEF allVars, vars, readVars, ReadInv, ReadType, ThreadInv
<1>2. CASE KernelChange \/ Advance \/ StepClock
  BY <1>2, KernelRead
<1>3. CASE NewReads
  <2>1. Main \in Threads /\ reads \in Seq(KnownNames)
    BY DEF Threads, IndexInv, IndexType
  <2>2. Head(reads) \in KnownNames \cup Unknown
    BY <1>3, <2>1 DEF NewReads, StartupCall
  <2>3. Enter(Main, Head(reads)) /\ BeginRead(Main)
    BY <1>3 DEF NewReads, StartupCall
  <2> QED BY <2>1, <2>2, <2>3, CallRead
<1>4. CASE NewReturns
  BY <1>4, ReturnRead
<1>5. ASSUME NEW t \in Workers, Ask(t) PROVE ReadInv'
  <2>1. PICK n \in KnownNames \cup Unknown : Enter(t, n)
    BY <1>5 DEF Ask, Call
  <2>2. t \in Threads /\ BeginRead(t)
    BY <1>5 DEF Ask, Threads
  <2> QED BY <2>1, <2>2, CallRead
<1>6. ASSUME NEW t \in Threads, IndexStep(t) \/ LookedUp(t) PROVE ReadInv'
  BY <1>6, IndexRead, LookupRead
<1>7. ASSUME NEW t \in Threads, Read(t) \/ ReadEnomem(t) \/ ReadClock(t) PROVE ReadInv'
  BY <1>7, ReadRead
<1> QED BY <1>1, <1>2, <1>3, <1>4, <1>5, <1>6, <1>7 DEF RNext

\* What every read is made of.
LEMMA ReadInvCorrect ==
  ASSUME Startup # <<>>
  PROVE  RSpec => [](ReadInv /\ IndexInv)
<1>1. RSpec => []IndexInv
  <2>1. Spec => []IndexInv
    BY IndexInvCorrect
  <2> QED BY <2>1, UsesIndex, PTL
<1>2. RInit => ReadInv
  BY ReadInit
<1>3. ReadInv /\ IndexInv /\ IndexInv' /\ [RNext]_allVars => ReadInv'
  BY ReadStep
<1> QED BY <1>1, <1>2, <1>3, PTL DEF RSpec

\* Rounding a duration down to seconds keeps the order.
LEMMA TruncateMonotone ==
  ASSUME NEW x \in Int, NEW y \in Int, x <= y
  PROVE  Truncate(x) \in Int /\ Truncate(y) \in Int /\ Truncate(x) <= Truncate(y)
<1>1. PerSec \in Nat \ {0}
  BY ReadPathAssumption
<1>2. ASSUME NEW z \in Int, z >= 0 PROVE z \div PerSec \in Int /\ z \div PerSec >= 0
  <2>1. z \div PerSec \in Int /\ 0 \div PerSec \in Int /\ 0 \div PerSec <= z \div PerSec
    BY <1>1, <1>2, Division, QuotientMonotone
  <2>2. 0 \div PerSec = 0
    BY <1>1
  <2> QED BY <2>1, <2>2
<1>3. /\ -x \in Int /\ -y \in Int /\ -y <= -x
      /\ x >= 0 => y >= 0
      /\ ~(x >= 0) => -x >= 0
      /\ ~(y >= 0) => -y >= 0
  OBVIOUS
<1>4. CASE x >= 0
  BY <1>1, <1>2, <1>3, <1>4, QuotientMonotone DEF Truncate
<1>5. CASE ~(x >= 0) /\ y >= 0
  <2>1. (-x) \div PerSec \in Int /\ (-x) \div PerSec >= 0 /\ y \div PerSec \in Int /\ y \div PerSec >= 0
    BY <1>2, <1>3, <1>5
  <2> QED BY <1>5, <2>1 DEF Truncate
<1>6. CASE ~(x >= 0) /\ ~(y >= 0)
  <2>1. (-x) \div PerSec \in Int /\ (-y) \div PerSec \in Int /\ (-y) \div PerSec <= (-x) \div PerSec
    BY <1>1, <1>2, <1>3, <1>6, QuotientMonotone
  <2> QED BY <1>6, <2>1 DEF Truncate
<1> QED BY <1>4, <1>5, <1>6

\* The objects a call has read: those its reads found.
LEMMA ObjsFacts ==
  ASSUME NEW t \in Threads, Len(PlanOf(arg[t])) \in Nat, Len(at[t]) \in Nat, NEW m \in Nat,
         m <= Len(PlanOf(arg[t])), m < Len(at[t]),
         m = Len(PlanOf(arg[t])) \/ m + 1 = Len(at[t])
  PROVE  /\ Wanted(t) = PlanOf(arg[t]) /\ DOMAIN Objs(t) = 1..m /\ Len(Objs(t)) = m
         /\ \A k \in 1..m : Objs(t)[k] = Found(hist, arg[t], at[t], k)
<1>1. PICK p \in Nat : p = Len(PlanOf(arg[t]))
  OBVIOUS
<1>2. PICK s \in Nat : s = Len(at[t])
  OBVIOUS
<1>3. m <= p /\ m < s /\ (m = p \/ m + 1 = s)
  BY <1>1, <1>2
<1>4. Min({s - 1, p}) = m
  <2>1. s - 1 \in Nat /\ m <= s - 1 /\ (m = p \/ m = s - 1)
    BY <1>3
  <2>2. Min({s - 1, p}) \in {s - 1, p} /\ Min({s - 1, p}) <= s - 1 /\ Min({s - 1, p}) <= p
    <3>1. {s - 1, p} \subseteq Nat /\ {s - 1, p} # {}
      BY <2>1
    <3> QED BY <3>1, MinFacts
  <2>3. PICK q \in Nat : q = Min({s - 1, p})
    BY <2>1, <2>2
  <2>4. (q = s - 1 \/ q = p) /\ q <= s - 1 /\ q <= p
    BY <2>2, <2>3
  <2>5. q = m
    BY <1>3, <2>1, <2>4
  <2> QED BY <2>3, <2>5
<1>5. Wanted(t) = PlanOf(arg[t])
  BY DEF Wanted, PlanOf
<1>6. Objs(t) = [k \in 1..m |-> Found(hist, arg[t], at[t], k)]
  BY <1>1, <1>2, <1>4, <1>5 DEF Objs, ObjAt, Found
<1>7. Len(Objs(t)) = m
  BY <1>6
<1> QED BY <1>5, <1>6, <1>7

\* What a name of a plan stands for in a healthy kernel can be decoded.
LEMMA FoundFacts ==
  ASSUME NEW h, HistInv(h), NEW n \in KnownNames \cup Unknown, NEW j \in 1..Len(h),
         NEW k \in 1..Len(PlanOf(n)), NEW obj, obj = h[j].obj[PlanOf(n)[k].name], obj # Gone
  PROVE  /\ WellFormed(obj)
         /\ n \in Computed => obj.ctype = PlanOf(n)[k].type
         /\ obj.ctype = PlanOf(n)[k].type => Getter(PlanOf(n)[k].type, RawOf(obj)) = Ok(Meaning(obj))
<1>1. Healthy(h[j])
  BY DEF HistInv
<1>2. PlanOf(n)[k].name \in ReadNames /\ PlanOf(n)[k].type \in Types /\ IsSeq(PlanOf(n))
  BY PlanFacts
<1>3. Proper(PlanOf(n)[k].name, obj)
  BY <1>1, <1>2 DEF Healthy
<1>4. WellFormed(obj)
  BY <1>3 DEF Proper
<1>5. ASSUME n \in Computed PROVE obj.ctype = PlanOf(n)[k].type
  <2>1. n \in KnownNames /\ n # Nil /\ TypeOf[n] = "computed"
    BY <1>5, ReadPathAssumption
  <2>2. PlanOf(n) = Operands[n]
    BY <2>1 DEF PlanOf, Plan, Info
  <2>3. DOMAIN PlanOf(n) = 1..Len(PlanOf(n))
    BY <1>2 DEF IsSeq
  <2>4. PlanOf(n)[k] \in Range(Operands[n])
    BY <2>2, <2>3 DEF Range
  <2> QED BY <1>3, <1>5, <2>4 DEF Proper
<1> QED BY <1>2, <1>4, <1>5, GettersDecode

\* Only a machine without pages makes an answer an error.
LEMMA AnswerErrors ==
  ASSUME NEW n \in KnownNames \cup Unknown, NEW g, NEW x, Answer(n, Info(n), g, x).error # Nil
  PROVE  /\ n = "computed.memory_utilization_pct" /\ g[1] = 0
         /\ Answer(n, Info(n), g, x).error = "vm.pages is 0"
<1>1. ASSUME NEW type, NEW v PROVE Value(type, v).error = Nil
  BY DEF Value
<1>2. Error("vm.pages is 0").error = "vm.pages is 0"
  BY DEF Error
<1>3. CASE Info(n) = Nil
  BY <1>1, <1>3 DEF Answer
<1>4. CASE Info(n) # Nil /\ n = "computed.memory_utilization_pct"
  <2>1. Answer(n, Info(n), g, x) = computeMemoryUtil(g[1], g[2])
    BY <1>4 DEF Answer
  <2> QED BY <1>1, <1>2, <1>4, <2>1 DEF computeMemoryUtil
<1>5. CASE Info(n) # Nil /\ n # "computed.memory_utilization_pct"
  <2> USE DEF computeCompressionRatio, computeSwapUtil, computeCompressorPressure,
              computeTotalConnections, computeUptime, computeVFSReclamation
  <2>1. \E type, v : Answer(n, Info(n), g, x) = Value(type, v)
    <3>1. CASE n = "computed.compression_ratio"
      BY <1>5, <3>1 DEF Answer
    <3>2. CASE n = "computed.swap_utilization_pct"
      BY <1>5, <3>2 DEF Answer
    <3>3. CASE n = "computed.compressor_pressure_pct"
      BY <1>5, <3>3 DEF Answer
    <3>4. CASE n = "computed.total_connections"
      BY <1>5, <3>4 DEF Answer
    <3>5. CASE n = "computed.uptime_seconds"
      BY <1>5, <3>5 DEF Answer
    <3>6. CASE n = "computed.vfs_reclamation_pct"
      BY <1>5, <3>6 DEF Answer
    <3>7. CASE n \notin Computed
      <4>1. Answer(n, Info(n), g, x) = Value(TypeOf[n], Shown(TypeOf[n], g[1]))
        BY <1>5, <3>7 DEF Answer, Computed
      <4> QED BY <4>1
    <3> QED BY <1>5, <3>1, <3>2, <3>3, <3>4, <3>5, <3>6, <3>7 DEF Computed
  <2> QED BY <1>1, <2>1
<1> QED BY <1>3, <1>4, <1>5

\* A finished call, in terms of the objects it found.
LEMMA DoneFacts ==
  ASSUME ReadInv, NEW t \in Threads, phase[t] = "done"
  PROVE  LET n == arg[t]
             a == at[t]
             g == got[t]
         IN  /\ HistInv(hist) /\ n \in KnownNames \cup Unknown /\ Instants(hist, a) /\ Decoded(hist, n, a, g)
             /\ Last(a) = a[Len(a)] /\ Wanted(t) = PlanOf(n)
             /\ \/ /\ Failed(hist, n, a, g, resp[t]) /\ resp[t].error # Nil
                   /\ DOMAIN Objs(t) = 1..(Len(g) + 1) /\ Len(Objs(t)) = Len(g) + 1
                   /\ \A k \in 1..(Len(g) + 1) : Objs(t)[k] = Found(hist, n, a, k)
                \/ /\ Finished(hist, n, a, g, resp[t])
                   /\ DOMAIN Objs(t) = 1..Len(PlanOf(n)) /\ Len(Objs(t)) = Len(PlanOf(n))
                   /\ \A k \in 1..Len(PlanOf(n)) : Objs(t)[k] = Found(hist, n, a, k)
<1> DEFINE n == arg[t]
           a == at[t]
           g == got[t]
<1>1. /\ HistInv(hist) /\ n \in KnownNames \cup Unknown /\ Instants(hist, a) /\ Decoded(hist, n, a, g)
      /\ Failed(hist, n, a, g, resp[t]) \/ Finished(hist, n, a, g, resp[t])
  BY DEF ReadInv, ThreadInv, Reading
<1>2. Last(a) = a[Len(a)] /\ Wanted(t) = PlanOf(n)
  BY DEF Last, Wanted, PlanOf
<1>3. PICK p \in 1..3 : p = Len(PlanOf(n))
  BY <1>1, PlanFacts
<1>4. PICK s \in Nat : s = Len(a)
  BY <1>1 DEF Instants
<1>5. PICK q \in Nat : q = Len(g)
  BY <1>1 DEF Decoded, IsSeq
<1>6. CASE Failed(hist, n, a, g, resp[t])
  <2>1. q + 1 <= p /\ s = (q + 1) + 1 /\ resp[t] = Error(PlanOf(n)[q + 1].name)
    BY <1>3, <1>4, <1>5, <1>6 DEF Failed
  <2>2. q + 1 \in Nat /\ q + 1 < s /\ (q + 1) + 1 = s /\ q + 1 \in 1..p
    BY <2>1
  <2>3. resp[t].error # Nil
    <3>1. PlanOf(n)[q + 1].name # Nil
      BY <1>1, <1>3, <2>2, PlanFacts
    <3> QED BY <2>1, <3>1 DEF Error
  <2>4. /\ DOMAIN Objs(t) = 1..(q + 1) /\ Len(Objs(t)) = q + 1
        /\ \A k \in 1..(q + 1) : Objs(t)[k] = Found(hist, n, a, k)
    <3>1. PICK m \in Nat : m = q + 1
      OBVIOUS
    <3>2. m <= p /\ m < s /\ m + 1 = s
      BY <2>1, <2>2, <3>1
    <3>3. /\ DOMAIN Objs(t) = 1..m /\ Len(Objs(t)) = m
          /\ \A k \in 1..m : Objs(t)[k] = Found(hist, n, a, k)
      BY <1>3, <1>4, <3>2, ObjsFacts
    <3> QED BY <3>1, <3>3
  <2> QED BY <1>1, <1>2, <1>5, <1>6, <2>3, <2>4
<1>7. CASE Finished(hist, n, a, g, resp[t])
  <2>1. q = p /\ s = IF n = Uptimes THEN 3 ELSE q + 1
    BY <1>3, <1>4, <1>5, <1>7 DEF Finished
  <2>2. n = Uptimes => p = 1
    BY <1>1, <1>3, PlanFacts
  <2>3. p \in Nat /\ p < s
    BY <2>1, <2>2
  <2>4. /\ DOMAIN Objs(t) = 1..p /\ Len(Objs(t)) = p
        /\ \A k \in 1..p : Objs(t)[k] = Found(hist, n, a, k)
    BY <1>3, <1>4, <2>3, ObjsFacts
  <2> QED BY <1>1, <1>2, <1>3, <1>7, <2>4
<1> QED BY <1>1, <1>6, <1>7

\* An answer without an error is made of everything that was to be read.
LEMMA AnsweredFacts ==
  ASSUME ReadInv, NEW t \in Threads, Answered(t)
  PROVE  /\ Finished(hist, arg[t], at[t], got[t], resp[t]) /\ phase[t] = "done"
         /\ DOMAIN Objs(t) = 1..Len(PlanOf(arg[t])) /\ Len(Objs(t)) = Len(PlanOf(arg[t]))
         /\ \A k \in 1..Len(PlanOf(arg[t])) :
               /\ Objs(t)[k] = Found(hist, arg[t], at[t], k) /\ Objs(t)[k] # Gone
               /\ got[t][k] = Result(hist, arg[t], at[t], k).val
<1>1. phase[t] = "done" /\ resp[t].error = Nil
  BY DEF Answered
<1>2. /\ Finished(hist, arg[t], at[t], got[t], resp[t]) /\ Decoded(hist, arg[t], at[t], got[t])
      /\ DOMAIN Objs(t) = 1..Len(PlanOf(arg[t])) /\ Len(Objs(t)) = Len(PlanOf(arg[t]))
      /\ \A k \in 1..Len(PlanOf(arg[t])) : Objs(t)[k] = Found(hist, arg[t], at[t], k)
  BY <1>1, DoneFacts
<1> QED BY <1>1, <1>2 DEF Decoded, Finished

\* What a read found, if it found something, can be decoded.
LEMMA FoundDecodes ==
  ASSUME NEW h, HistInv(h), NEW n \in KnownNames \cup Unknown, NEW a, Instants(h, a),
         NEW k \in 1..Len(PlanOf(n)), k < Len(a), NEW obj, obj = Found(h, n, a, k), obj # Gone
  PROVE  /\ WellFormed(obj)
         /\ n \in Computed => obj.ctype = PlanOf(n)[k].type
         /\ obj.ctype = PlanOf(n)[k].type => Result(h, n, a, k).ok /\ Result(h, n, a, k).val = Meaning(obj)
<1>1. Len(a) \in Nat /\ Len(PlanOf(n)) \in 1..3
  BY PlanFacts DEF Instants
<1>2. k + 1 \in 1..Len(a)
  BY <1>1
<1>3. a[k + 1] \in 1..Len(h)
  BY <1>2 DEF Instants
<1>4. Ok(Meaning(obj)).ok /\ Ok(Meaning(obj)).val = Meaning(obj)
  BY DEF Ok
<1>5. obj = h[a[k + 1]].obj[PlanOf(n)[k].name]
  BY DEF Found
<1>6. /\ WellFormed(obj)
      /\ n \in Computed => obj.ctype = PlanOf(n)[k].type
      /\ obj.ctype = PlanOf(n)[k].type => Getter(PlanOf(n)[k].type, RawOf(obj)) = Ok(Meaning(obj))
  BY <1>3, <1>5, FoundFacts
<1> QED BY <1>4, <1>6 DEF Result

\* The operands of a computed metric.
LEMMA ComputedPlan ==
  ASSUME NEW n \in Computed
  PROVE  n \in KnownNames /\ Info(n) = n /\ n # Nil /\ PlanOf(n) = Operands[n]
<1>1. n \in KnownNames /\ n # Nil /\ TypeOf[n] = "computed"
  BY ReadPathAssumption
<1> QED BY <1>1 DEF PlanOf, Plan, Info

\* AnswerHeld, of a call with the instants a, the objects objs and the response r.
Held(h, n, a, objs, r) ==
    LET plan == PlanOf(n)
        last == Len(objs)
    IN IF r.error = Nil
       THEN /\ last = Len(plan) /\ Gone \notin Range(objs)
            /\ (\A k \in DOMAIN plan : objs[k].ctype = plan[k].type) =>
                  r = Answer(n, Info(n), [k \in DOMAIN plan |-> Meaning(objs[k])], h[a[Len(a)]].now)
       ELSE \/ objs[last] = Gone
            \/ objs[last].ctype # plan[last].type
            \/ GrewIn(h, plan[last].name, a[last])
            \/ r.error = "vm.pages is 0" /\ objs[1].vals = <<0>>

\* An error of a read says what the read met.
LEMMA FailedHeld ==
  ASSUME NEW h, HistInv(h), NEW n \in KnownNames \cup Unknown, NEW a, Instants(h, a), NEW g, IsSeq(g),
         NEW r, Failed(h, n, a, g, r), r.error # Nil, NEW objs, Len(objs) = Len(g) + 1,
         \A k \in 1..(Len(g) + 1) : objs[k] = Found(h, n, a, k)
  PROVE  Held(h, n, a, objs, r)
<1>1. PICK s \in Nat : s = Len(g)
  BY DEF IsSeq
<1>2. PICK k \in Nat : k = s + 1
  OBVIOUS
<1>3. k \in 1..Len(PlanOf(n)) /\ k < Len(a) /\ k \in 1..(s + 1)
  <2>1. PICK p \in Nat : p = Len(PlanOf(n))
    BY PlanFacts DEF IsSeq
  <2>2. k <= p /\ Len(a) = k + 1
    BY <1>1, <1>2, <2>1 DEF Failed
  <2> QED BY <1>2, <2>1, <2>2
<1>4. Found(h, n, a, k) = Gone \/ ~Result(h, n, a, k).ok \/ GrewIn(h, PlanOf(n)[k].name, a[k])
  BY <1>1, <1>2 DEF Failed
<1>5. objs[k] = Found(h, n, a, k) /\ Len(objs) = k
  BY <1>1, <1>2, <1>3
<1>6. Found(h, n, a, k) # Gone /\ ~Result(h, n, a, k).ok => objs[k].ctype # PlanOf(n)[k].type
  BY <1>3, <1>5, FoundDecodes
<1> QED BY <1>4, <1>5, <1>6 DEF Held

\* An answer is made of what the reads found.
LEMMA FinishedHeld ==
  ASSUME NEW h, HistInv(h), NEW n \in KnownNames \cup Unknown, NEW a, Instants(h, a), NEW g,
         Decoded(h, n, a, g), NEW r, Finished(h, n, a, g, r), NEW objs,
         Len(objs) = Len(PlanOf(n)), DOMAIN objs = 1..Len(PlanOf(n)),
         \A k \in 1..Len(PlanOf(n)) : objs[k] = Found(h, n, a, k)
  PROVE  Held(h, n, a, objs, r)
<1>1. PICK p \in 1..3 : p = Len(PlanOf(n)) /\ DOMAIN PlanOf(n) = 1..p
  BY PlanFacts DEF IsSeq
<1>2. /\ Len(g) = p /\ IsSeq(g) /\ r = Answer(n, Info(n), g, h[a[Len(a)]].now)
      /\ \A k \in 1..p : objs[k] # Gone /\ g[k] = Result(h, n, a, k).val
  BY <1>1 DEF Finished, Decoded
<1>3. ASSUME NEW k \in 1..p PROVE k < Len(a)
  <2>1. PICK s \in Nat : s = Len(a)
    BY DEF Instants
  <2>2. p < s
    BY <1>2, <2>1 DEF Decoded
  <2> QED BY <2>1, <2>2
<1>4. ASSUME NEW k \in 1..p
      PROVE  /\ WellFormed(objs[k])
             /\ n \in Computed => objs[k].ctype = PlanOf(n)[k].type
             /\ objs[k].ctype = PlanOf(n)[k].type => g[k] = Meaning(objs[k])
  BY <1>1, <1>2, <1>3, FoundDecodes
<1>5. CASE r.error = Nil
  <2>1. Gone \notin Range(objs)
    BY <1>1, <1>2 DEF Range
  <2>2. ASSUME \A k \in DOMAIN PlanOf(n) : objs[k].ctype = PlanOf(n)[k].type
        PROVE  g = [k \in DOMAIN PlanOf(n) |-> Meaning(objs[k])]
    <3>1. \A k \in 1..p : g[k] = Meaning(objs[k])
      BY <1>1, <1>4, <2>2
    <3>2. g = [k \in 1..p |-> g[k]]
      BY <1>2 DEF IsSeq
    <3> QED BY <1>1, <3>1, <3>2
  <2> QED BY <1>1, <1>2, <1>5, <2>1, <2>2 DEF Held
<1>6. CASE r.error # Nil
  <2>1. n = "computed.memory_utilization_pct" /\ g[1] = 0 /\ r.error = "vm.pages is 0"
    <3>1. PICK x : x = h[a[Len(a)]].now
      OBVIOUS
    <3>2. r = Answer(n, Info(n), g, x)
      BY <1>2, <3>1
    <3> QED BY <1>6, <3>2, AnswerErrors, Zenon
  <2>2. n \in Computed
    BY <2>1 DEF Computed
  <2>3. PlanOf(n)[1].type = "int32"
    <3>1. PlanOf(n) = Operands[n]
      BY <2>2, ComputedPlan
    <3>2. Operands[n] = <<Op("vm.pages", "int32"), Op("vm.page_free_count", "int32")>>
      BY <2>1, <2>2 DEF Operands
    <3>3. PlanOf(n)[1] = Op("vm.pages", "int32")
      BY <3>1, <3>2
    <3> QED BY <3>3 DEF Op
  <2>4. 1 \in 1..p
    OBVIOUS
  <2>5. WellFormed(objs[1]) /\ objs[1].ctype = "int32" /\ g[1] = Meaning(objs[1])
    BY <1>4, <2>2, <2>3, <2>4
  <2>6. PICK v \in Integer(4) : objs[1].vals = <<v>>
    BY <2>5 DEF WellFormed, Members
  <2>7. Meaning(objs[1]) = v
    BY <2>5, <2>6 DEF Meaning
  <2> QED BY <1>6, <2>1, <2>5, <2>6, <2>7 DEF Held
<1> QED BY <1>5, <1>6

\* The answers of a state that satisfies the invariant.
LEMMA AnswersHeld == ReadInv => AnswerHeld
<1> SUFFICES ASSUME ReadInv, NEW t \in Threads, phase[t] = "done"
             PROVE  Held(hist, arg[t], at[t], Objs(t), resp[t]) /\ Last(at[t]) = at[t][Len(at[t])]
  BY DEF AnswerHeld, Held, Wanted, PlanOf, Grew, GrewIn
<1>1. /\ HistInv(hist) /\ arg[t] \in KnownNames \cup Unknown /\ Instants(hist, at[t])
      /\ Decoded(hist, arg[t], at[t], got[t]) /\ Last(at[t]) = at[t][Len(at[t])]
  BY DoneFacts
<1>2. \/ /\ Failed(hist, arg[t], at[t], got[t], resp[t]) /\ resp[t].error # Nil
         /\ Len(Objs(t)) = Len(got[t]) + 1
         /\ \A k \in 1..(Len(got[t]) + 1) : Objs(t)[k] = Found(hist, arg[t], at[t], k)
      \/ /\ Finished(hist, arg[t], at[t], got[t], resp[t])
         /\ DOMAIN Objs(t) = 1..Len(PlanOf(arg[t])) /\ Len(Objs(t)) = Len(PlanOf(arg[t]))
         /\ \A k \in 1..Len(PlanOf(arg[t])) : Objs(t)[k] = Found(hist, arg[t], at[t], k)
  BY DoneFacts
<1>3. IsSeq(got[t])
  BY <1>1 DEF Decoded
<1> QED BY <1>1, <1>2, <1>3, FailedHeld, FinishedHeld

\* The uptime of a state that satisfies the invariant.
LEMMA UptimesTrue == ReadInv => UptimeTrue
<1> DEFINE Off(t) == BootTicks(hist[Last(at[t])]) - BootTicks(hist[at[t][2]])
<1> SUFFICES ASSUME ReadInv, NEW t \in Threads, Answered(t), arg[t] = Uptimes
             PROVE  resp[t].value.value \in Truncate(Uptime(hist[at[t][1]]) + Off(t)) ..
                                            Truncate(Uptime(hist[Last(at[t])]) + Off(t))
  BY DEF UptimeTrue, Uptime, Uptimes
<1> DEFINE a == at[t]
           g == got[t]
           obj == Found(hist, Uptimes, a, 1)
           k == hist[a[2]]
           e == hist[a[3]]
           set == BootTicks(e) - BootTicks(k)
<1>1. phase[t] = "done"
  BY DEF Answered
<1>2. /\ HistInv(hist) /\ Uptimes \in KnownNames \cup Unknown /\ Instants(hist, a)
      /\ Last(a) = a[Len(a)]
  BY <1>1, DoneFacts
<1>3. Len(PlanOf(Uptimes)) = 1 /\ PlanOf(Uptimes)[1] = Op("kern.boottime", "timeval")
  BY <1>2, PlanFacts
<1>4. Finished(hist, Uptimes, a, g, resp[t])
  BY AnsweredFacts
<1>5. obj # Gone /\ g[1] = Result(hist, Uptimes, a, 1).val
  <2>1. 1 \in 1..1
    OBVIOUS
  <2> QED BY <1>3, <2>1, AnsweredFacts
<1>6. Len(a) = 3 /\ Last(a) = a[3] /\ resp[t] = Answer(Uptimes, Info(Uptimes), g, e.now)
  BY <1>2, <1>4 DEF Finished
<1>7. \A j \in 1..3 : a[j] \in 1..Len(hist) /\ a[1] <= a[j]
  BY <1>2, <1>6 DEF Instants
<1>8. a[1] \in 1..Len(hist) /\ a[2] \in 1..Len(hist) /\ a[3] \in 1..Len(hist) /\ a[1] <= a[3]
  <2>1. 1 \in 1..3 /\ 2 \in 1..3 /\ 3 \in 1..3
    OBVIOUS
  <2> QED BY <1>7, <2>1
<1>9. obj = k.obj["kern.boottime"]
  BY <1>3 DEF Found, Op
<1>10. /\ Healthy(hist[a[1]]) /\ Healthy(k) /\ Healthy(e)
       /\ Uptime(hist[a[1]]) <= Uptime(e)
  BY <1>2, <1>8 DEF HistInv
<1> HIDE DEF a, g, obj, k, e, set
<1>11. /\ WellFormed(obj) /\ obj.ctype = "timeval" /\ obj.vals[1] \in NonNegative(8)
       /\ obj.vals[2] \in NonNegative(8)
  BY <1>9, <1>10, BootFacts
<1>12. g[1] = [Sec |-> obj.vals[1], Usec |-> obj.vals[2]]
  <2>1. 1 \in 1..1 /\ 1 < 3
    OBVIOUS
  <2>2. PlanOf(Uptimes)[1].type = "timeval"
    BY <1>3 DEF Op
  <2>3. obj = Found(hist, Uptimes, a, 1)
    BY DEF obj
  <2>4. Result(hist, Uptimes, a, 1).val = Meaning(obj)
    <3>1. 1 \in 1..Len(PlanOf(Uptimes)) /\ 1 < Len(a)
      BY <1>3, <1>6, <2>1
    <3>2. obj.ctype = PlanOf(Uptimes)[1].type
      BY <1>11, <2>2
    <3> QED BY <1>2, <1>5, <2>3, <3>1, <3>2, FoundDecodes
  <2> QED BY <1>5, <1>11, <2>4 DEF Meaning
<1>13. Time(g[1]) = BootTicks(k)
  <2>1. g[1].Sec = obj.vals[1] /\ g[1].Usec = obj.vals[2]
    BY <1>12
  <2>2. Signed(obj.vals[1], 8) = obj.vals[1] /\ Signed(obj.vals[2], 8) = obj.vals[2]
    BY <1>11, SignBack
  <2> QED BY <1>9, <2>1, <2>2 DEF Time, BootTicks
<1>14. /\ Uptime(hist[a[1]]) \in Int /\ Uptime(e) \in Int
       /\ BootTicks(k) \in Int /\ BootTicks(e) \in Int /\ e.now \in Int
  BY <1>10, BootFacts DEF Healthy
<1>15. resp[t].value.value = Truncate(Uptime(e) + set)
  <2>1. Info(Uptimes) = Uptimes /\ Uptimes # Nil
    BY ComputedPlan DEF Computed, Uptimes
  <2>2. Answer(Uptimes, Info(Uptimes), g, e.now) = computeUptime(g[1], e.now)
    BY <2>1 DEF Answer, Uptimes
  <2>3. computeUptime(g[1], e.now).value.value = Truncate(e.now - Time(g[1]))
    BY DEF computeUptime, Value
  <2>4. e.now - BootTicks(k) = Uptime(e) + set
    BY <1>14 DEF Uptime, set
  <2> QED BY <1>6, <1>13, <2>2, <2>3, <2>4
<1>16. /\ Uptime(hist[a[1]]) + set \in Int /\ Uptime(e) + set \in Int
       /\ Uptime(hist[a[1]]) + set <= Uptime(e) + set
  BY <1>10, <1>14 DEF set
<1>17. Truncate(Uptime(e) + set)
         \in Truncate(Uptime(hist[a[1]]) + set) .. Truncate(Uptime(e) + set)
  <2> DEFINE x == Uptime(hist[a[1]]) + set
             y == Uptime(e) + set
  <2>1. x \in Int /\ y \in Int /\ x <= y
    BY <1>16
  <2> HIDE DEF x, y
  <2>2. Truncate(x) \in Int /\ Truncate(y) \in Int /\ Truncate(x) <= Truncate(y)
    BY <2>1, TruncateMonotone
  <2>3. Truncate(y) \in Truncate(x) .. Truncate(y)
    BY <2>2
  <2> QED BY <2>3 DEF x, y
<1>18. set = Off(t)
  BY <1>6 DEF set, a, k, e
<1> QED BY <1>6, <1>15, <1>17, <1>18 DEF e, a

\* Two operands, read one after the other, that the kernel held together.
LEMMA Together ==
  ASSUME ReadInv, NEW t \in Threads, Answered(t), NEW n \in Computed, n = arg[t],
         NEW x, NEW y, NEW ty, PlanOf(n) = <<Op(x, ty), Op(y, ty)>>, n # Uptimes, ~Torn(t)
  PROVE  \E j \in 1..Len(hist) :
            LET X == hist[j].obj[x]
                Y == hist[j].obj[y]
            IN  /\ X # Gone /\ Y # Gone /\ Sane(hist[j].obj) /\ WellFormed(X) /\ WellFormed(Y)
                /\ X.ctype = ty /\ Y.ctype = ty
                /\ got[t][1] = Meaning(X) /\ got[t][2] = Meaning(Y)
<1> DEFINE a == at[t]
<1>1. phase[t] = "done"
  BY DEF Answered
<1>2. /\ HistInv(hist) /\ n \in KnownNames \cup Unknown /\ Instants(hist, a)
      /\ Last(a) = a[Len(a)] /\ Wanted(t) = PlanOf(n)
  BY <1>1, DoneFacts
<1>3. /\ Len(PlanOf(n)) = 2 /\ PlanOf(n)[1].name = x /\ PlanOf(n)[2].name = y
      /\ PlanOf(n)[1].type = ty /\ PlanOf(n)[2].type = ty
  BY DEF Op
<1>4. /\ Finished(hist, n, a, got[t], resp[t]) /\ DOMAIN Objs(t) = 1..2
      /\ \A k \in 1..2 : /\ Objs(t)[k] = Found(hist, n, a, k) /\ Objs(t)[k] # Gone
                         /\ got[t][k] = Result(hist, n, a, k).val
  BY <1>3, AnsweredFacts
<1>5. Len(a) = 3
  BY <1>3, <1>4 DEF Finished
<1>6. ASSUME NEW k \in 1..2
      PROVE  /\ WellFormed(Objs(t)[k]) /\ Objs(t)[k].ctype = PlanOf(n)[k].type
             /\ got[t][k] = Meaning(Objs(t)[k])
  <2>1. k \in 1..Len(PlanOf(n)) /\ k < Len(a)
    BY <1>3, <1>5
  <2> QED BY <1>2, <1>4, <2>1, FoundDecodes
<1>7. PICK j \in a[1] .. Last(a) : \A k \in 1..2 : Objs(t)[k] = ObjAt(t, k, j)
  BY <1>4 DEF Torn
<1>8. j \in 1..Len(hist)
  <2>1. PICK m \in Nat : m = Len(hist)
    BY <1>2 DEF HistInv, IsSeq
  <2>2. a[1] \in 1..m /\ a[3] \in 1..m
    <3>1. 1 \in 1..3 /\ 3 \in 1..3
      OBVIOUS
    <3> QED BY <1>2, <1>5, <2>1, <3>1 DEF Instants
  <2>3. j \in a[1] .. a[3]
    BY <1>2, <1>5
  <2> QED BY <2>1, <2>2, <2>3
<1>9. Sane(hist[j].obj)
  BY <1>2, <1>8 DEF HistInv, Healthy
<1>10. 1 \in 1..2 /\ 2 \in 1..2
  OBVIOUS
<1>11. Objs(t)[1] = hist[j].obj[x] /\ Objs(t)[2] = hist[j].obj[y]
  BY <1>2, <1>3, <1>7, <1>10 DEF ObjAt
<1> HIDE DEF a
<1>12. /\ Objs(t)[1] # Gone /\ Objs(t)[2] # Gone /\ WellFormed(Objs(t)[1]) /\ WellFormed(Objs(t)[2])
       /\ Objs(t)[1].ctype = ty /\ Objs(t)[2].ctype = ty
       /\ got[t][1] = Meaning(Objs(t)[1]) /\ got[t][2] = Meaning(Objs(t)[2])
  BY <1>3, <1>4, <1>6, <1>10
<1> QED BY <1>8, <1>9, <1>11, <1>12, Zenon

\* The utilization of memory.
LEMMA MemorySane ==
  ASSUME ReadInv, NEW t \in Threads, Answered(t), arg[t] = "computed.memory_utilization_pct", ~Torn(t)
  PROVE  resp[t].value.value[1] \in 0 .. 100 * resp[t].value.value[2]
<1> DEFINE n == "computed.memory_utilization_pct"
           g == got[t]
<1>1. n \in Computed /\ n # Uptimes /\ n = arg[t]
  BY DEF Computed, Uptimes
<1>2. PlanOf(n) = <<Op("vm.pages", "int32"), Op("vm.page_free_count", "int32")>>
  <2>1. PlanOf(n) = Operands[n]
    BY <1>1, ComputedPlan
  <2> QED BY <1>1, <2>1 DEF Operands
<1>3. PICK j \in 1..Len(hist) :
         LET X == hist[j].obj["vm.pages"]
             Y == hist[j].obj["vm.page_free_count"]
         IN  /\ X # Gone /\ Y # Gone /\ Sane(hist[j].obj) /\ WellFormed(X) /\ WellFormed(Y)
             /\ X.ctype = "int32" /\ Y.ctype = "int32"
             /\ g[1] = Meaning(X) /\ g[2] = Meaning(Y)
  BY <1>1, <1>2, Together
<1> DEFINE X == hist[j].obj["vm.pages"]
           Y == hist[j].obj["vm.page_free_count"]
<1>4. PICK total \in Integer(4) : X.vals = <<total>>
  BY <1>3 DEF WellFormed, Members
<1>5. PICK free \in Integer(4) : Y.vals = <<free>>
  BY <1>3 DEF WellFormed, Members
<1>6. g[1] = total /\ g[2] = free
  BY <1>3, <1>4, <1>5 DEF Meaning
<1>7. free \in 0..total
  BY <1>3, <1>4, <1>5 DEF Sane, AtMost
<1>8. resp[t] = computeMemoryUtil(total, free)
  <2>1. Finished(hist, n, at[t], g, resp[t])
    BY <1>1, AnsweredFacts
  <2>2. Info(n) # Nil
    BY <1>1, ComputedPlan
  <2> HIDE DEF g
  <2> QED BY <1>6, <2>1, <2>2 DEF Finished, Answer
<1>9. total # 0
  <2>1. resp[t].error = Nil
    BY DEF Answered
  <2>2. "vm.pages is 0" # Nil
    BY ReadPathAssumption
  <2>3. Error("vm.pages is 0").error = "vm.pages is 0"
    BY DEF Error
  <2>4. total = 0 => resp[t] = Error("vm.pages is 0")
    BY <1>8 DEF computeMemoryUtil
  <2> QED BY <2>1, <2>2, <2>3, <2>4, Zenon
<1>10. resp[t].value.value = <<100 * Signed(total - free, 4), total>>
  BY <1>8, <1>9 DEF computeMemoryUtil, Value
<1>11. total - free \in NonNegative(4) /\ total \in Int /\ free \in Int
  <2>1. Values(4) \div 2 \in Int
    BY WordFacts
  <2>2. total \in Int /\ total <= Values(4) \div 2 - 1 /\ free \in Int
    BY <2>1 DEF Integer
  <2> HIDE DEF X, Y
  <2> QED BY <1>7, <2>1, <2>2 DEF NonNegative
<1>12. Signed(total - free, 4) = total - free
  BY <1>11, SignBack
<1>13. 100 * (total - free) \in 0 .. 100 * total
  BY <1>7, <1>11
<1> QED BY <1>10, <1>12, <1>13

\* A part of at most the whole is at most 100 per cent of it.
LEMMA RatioSane ==
  ASSUME NEW part \in Int, NEW whole \in Int, part \in 0..whole
  PROVE  Ratio(100 * part, whole)[1] \in 0 .. 100 * Ratio(100 * part, whole)[2]
<1>1. CASE whole > 0
  <2>1. Ratio(100 * part, whole) = <<100 * part, whole>>
    BY <1>1 DEF Ratio
  <2>2. 100 * part \in 0 .. 100 * whole
    OBVIOUS
  <2> QED BY <2>1, <2>2
<1>2. CASE ~(whole > 0)
  <2>1. Ratio(100 * part, whole) = <<0, 1>>
    BY <1>2 DEF Ratio
  <2>2. 0 \in 0 .. 100 * 1
    OBVIOUS
  <2> QED BY <2>1, <2>2
<1> QED BY <1>1, <1>2

\* The pressure on the compressor.
LEMMA PressureSane ==
  ASSUME ReadInv, NEW t \in Threads, Answered(t), arg[t] = "computed.compressor_pressure_pct", ~Torn(t)
  PROVE  resp[t].value.value[1] \in 0 .. 100 * resp[t].value.value[2]
<1> DEFINE n == "computed.compressor_pressure_pct"
           g == got[t]
<1>1. n \in Computed /\ n # Uptimes /\ n = arg[t]
  BY DEF Computed, Uptimes
<1>2. PlanOf(n) = <<Op("vm.compressor_bytes_used", "uint64"), Op("vm.compressor_pool_size", "uint64")>>
  <2>1. PlanOf(n) = Operands[n]
    BY <1>1, ComputedPlan
  <2> QED BY <1>1, <2>1 DEF Operands
<1>3. PICK j \in 1..Len(hist) :
         LET X == hist[j].obj["vm.compressor_bytes_used"]
             Y == hist[j].obj["vm.compressor_pool_size"]
         IN  /\ X # Gone /\ Y # Gone /\ Sane(hist[j].obj) /\ WellFormed(X) /\ WellFormed(Y)
             /\ X.ctype = "uint64" /\ Y.ctype = "uint64"
             /\ g[1] = Meaning(X) /\ g[2] = Meaning(Y)
  BY <1>1, <1>2, Together
<1> DEFINE X == hist[j].obj["vm.compressor_bytes_used"]
           Y == hist[j].obj["vm.compressor_pool_size"]
<1>4. PICK used \in Unsigned(8) : X.vals = <<used>>
  BY <1>3 DEF WellFormed, Members
<1>5. PICK pool \in Unsigned(8) : Y.vals = <<pool>>
  BY <1>3 DEF WellFormed, Members
<1>6. g[1] = used /\ g[2] = pool
  BY <1>3, <1>4, <1>5 DEF Meaning
<1>7. used \in 0..pool
  BY <1>3, <1>4, <1>5 DEF Sane, AtMost
<1>8. resp[t] = computeCompressorPressure(used, pool)
  <2>1. Finished(hist, n, at[t], g, resp[t])
    BY <1>1, AnsweredFacts
  <2>2. Info(n) # Nil
    BY <1>1, ComputedPlan
  <2> HIDE DEF g
  <2> QED BY <1>6, <2>1, <2>2 DEF Finished, Answer
<1>9. resp[t].value.value = Ratio(100 * used, pool)
  BY <1>8 DEF computeCompressorPressure, Value
<1>10. used \in Int /\ pool \in Int
  BY DEF Unsigned
<1> QED BY <1>7, <1>9, <1>10, RatioSane

\* The utilization of swap: one read, so never torn.
LEMMA SwapSane ==
  ASSUME ReadInv, NEW t \in Threads, Answered(t), arg[t] = "computed.swap_utilization_pct"
  PROVE  resp[t].value.value[1] \in 0 .. 100 * resp[t].value.value[2]
<1> DEFINE n == "computed.swap_utilization_pct"
           g == got[t]
           a == at[t]
           X == Objs(t)[1]
<1>1. n \in Computed /\ n # Uptimes /\ n = arg[t]
  BY DEF Computed, Uptimes
<1>2. PlanOf(n) = <<Op("vm.swapusage", "swap")>>
  <2>1. PlanOf(n) = Operands[n]
    BY <1>1, ComputedPlan
  <2> QED BY <1>1, <2>1 DEF Operands
<1>3. Len(PlanOf(n)) = 1 /\ PlanOf(n)[1].name = "vm.swapusage" /\ PlanOf(n)[1].type = "swap" /\ 1 \in 1..1
  BY <1>2 DEF Op
<1>4. HistInv(hist) /\ n \in KnownNames \cup Unknown /\ Instants(hist, a)
  BY <1>1, DoneFacts DEF Answered
<1>5. /\ Finished(hist, n, a, g, resp[t]) /\ X = Found(hist, n, a, 1) /\ X # Gone
      /\ g[1] = Result(hist, n, a, 1).val
  BY <1>1, <1>3, AnsweredFacts
<1>6. Len(a) = 2
  <2>1. Len(g) = 1
    BY <1>3, <1>5 DEF Finished
  <2>2. Len(a) = Len(g) + 1
    BY <1>1, <1>5 DEF Finished
  <2>3. 1 + 1 = 2
    OBVIOUS
  <2> HIDE DEF a, g
  <2> QED BY <2>1, <2>2, <2>3
<1>7. 1 \in 1..Len(PlanOf(n)) /\ 1 < Len(a)
  BY <1>3, <1>6
<1>8. a[2] \in 1..Len(hist)
  <2>1. 2 \in 1..2
    OBVIOUS
  <2> QED BY <1>4, <1>6, <2>1 DEF Instants
<1>9. Sane(hist[a[2]].obj) /\ X = hist[a[2]].obj["vm.swapusage"]
  BY <1>3, <1>4, <1>5, <1>8 DEF HistInv, Healthy, Found
<1> HIDE DEF X, a, g
<1>10. WellFormed(X) /\ X.ctype = "swap" /\ g[1] = Meaning(X)
  BY <1>1, <1>3, <1>4, <1>5, <1>7, FoundDecodes
<1>11. X.vals[1] \in Unsigned(8) /\ X.vals[3] \in Unsigned(8)
  BY <1>10 DEF WellFormed, Members
<1>12. X.vals[3] \in 0 .. X.vals[1]
  BY <1>5, <1>9 DEF Sane, AtMost
<1>13. g[1].Total = X.vals[1] /\ g[1].Used = X.vals[3]
  BY <1>10 DEF Meaning
<1>14. resp[t] = computeSwapUtil(g[1])
  <2>1. Info(n) # Nil
    BY <1>1, ComputedPlan
  <2> QED BY <1>5, <2>1 DEF Finished, Answer
<1>15. resp[t].value.value = Ratio(100 * X.vals[3], X.vals[1])
  BY <1>13, <1>14 DEF computeSwapUtil, Value
<1>16. X.vals[1] \in Int /\ X.vals[3] \in Int
  BY <1>11 DEF Unsigned
<1> QED BY <1>12, <1>15, <1>16, RatioSane

\* The percentages of a state that satisfies the invariant.
LEMMA PercentsSane == ReadInv => PercentSane
BY MemorySane, PressureSane, SwapSane DEF PercentSane, Percentages

-----------------------------------------------------------------------------
(* The theorems about answers. *)

\* readMetricLive, whatever the kernel does while it reads and however many
\* handlers call it: an answer is made of what the kernel held at the instants of
\* its reads, under the registry's type, and an error has one of the four causes.
THEOREM AnswersAreHeld ==
  ASSUME Startup # <<>>
  PROVE  RSpec => []AnswerHeld
<1>1. ReadInv /\ IndexInv => AnswerHeld
  BY AnswersHeld
<1> QED BY <1>1, ReadInvCorrect, PTL

\* computeUptime: the uptime answered is one the machine had during the call, off
\* by exactly what the clock was set by between the two things it is computed from.
THEOREM UptimeIsTrue ==
  ASSUME Startup # <<>>
  PROVE  RSpec => []UptimeTrue
<1>1. ReadInv /\ IndexInv => UptimeTrue
  BY UptimesTrue
<1> QED BY <1>1, ReadInvCorrect, PTL

\* computeMemoryUtil, computeSwapUtil and computeCompressorPressure: between 0 and
\* 100 per cent, unless the kernel never held the operands together.
THEOREM PercentIsSane ==
  ASSUME Startup # <<>>
  PROVE  RSpec => []PercentSane
<1>1. ReadInv /\ IndexInv => PercentSane
  BY PercentsSane
<1> QED BY <1>1, ReadInvCorrect, PTL
=============================================================================
