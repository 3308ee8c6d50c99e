-------------------------- MODULE SubscribeProofs ---------------------------
(***************************************************************************)
(* Theorems about Subscribe, for every set of metrics and values, every    *)
(* request, interval and window.                                           *)
(***************************************************************************)
EXTENDS Subscribe, SequenceTheorems, WellFoundedInduction, TLAPS

-----------------------------------------------------------------------------
(* What a client that applies deltas ends with. *)

\* The deltas of a metric, if there are any, have a last one.
LEMMA LatestExists ==
  ASSUME NEW ds \in Seq(Deltas), NEW m, Of(ds, m) # {}
  PROVE  Latest(ds, m) \in Of(ds, m)
<1> DEFINE R == OpToRel(<, Nat)
           T == {Len(ds) - k : k \in Of(ds, m)}
<1>1. Len(ds) \in Nat /\ Of(ds, m) \subseteq 1..Len(ds)
  BY DEF Of
<1>2. T \subseteq Nat /\ T # {}
  BY <1>1
<1>3. \A x, y \in Nat : <<y, x>> \in R <=> y < x
  BY DEF OpToRel
<1>4. \E x \in T : \A y \in T : ~ (<<y, x>> \in R)
  <2>1. IsWellFoundedOn(R, Nat)
    BY NatLessThanWellFounded
  <2> HIDE DEF R, T
  <2> QED BY <1>2, <2>1, WFMin
<1>5. PICK x \in T : \A y \in T : ~ (y < x)
  BY <1>2, <1>3, <1>4
<1>6. PICK k \in Of(ds, m) : x = Len(ds) - k
  OBVIOUS
<1>7. ASSUME NEW j \in Of(ds, m) PROVE j <= k
  <2>1. ~ (Len(ds) - j < x)
    BY <1>5
  <2>2. j \in Nat /\ k \in Nat /\ x = Len(ds) - k
    BY <1>1, <1>6
  <2> HIDE DEF T
  <2> QED BY <1>1, <2>1, <2>2
<1> QED BY <1>7 DEF Latest

\* A client that applies no delta keeps its copy.
LEMMA ApplyNone ==
  ASSUME NEW v \in [Metrics -> Values]
  PROVE  Apply(v, <<>>) = v
<1>1. \A m \in Metrics : Of(<<>>, m) = {}
  BY DEF Of
<1> QED BY <1>1 DEF Apply

\* One delta more sets one metric more.
LEMMA ApplyAppend ==
  ASSUME NEW v \in [Metrics -> Values], NEW ds \in Seq(Deltas), NEW d \in Deltas
  PROVE  \A m \in Metrics :
            Apply(v, Append(ds, d))[m] = IF m = d.name THEN d.value ELSE Apply(v, ds)[m]
<1> DEFINE l == Len(ds)
           es == Append(ds, d)
<1>1. /\ l \in Nat /\ Len(es) = l + 1 /\ es[l + 1] = d
      /\ \A k \in 1..l : es[k] = ds[k]
  BY AppendProperties
<1> HIDE DEF es, l
<1>2. ASSUME NEW m \in Metrics, m # d.name
      PROVE  Apply(v, es)[m] = Apply(v, ds)[m]
  <2>1. Of(es, m) = Of(ds, m)
    BY <1>1, <1>2 DEF Of, l
  <2>2. CASE Of(ds, m) = {}
    BY <2>1, <2>2 DEF Apply
  <2>3. CASE Of(ds, m) # {}
    <3>1. Latest(es, m) = Latest(ds, m)
      BY <2>1 DEF Latest
    <3>2. es[Latest(ds, m)] = ds[Latest(ds, m)]
      <4>1. Latest(ds, m) \in 1..l
        BY <2>3, LatestExists DEF Of, l
      <4> QED BY <1>1, <4>1
    <3> QED BY <2>1, <2>3, <3>1, <3>2 DEF Apply
  <2> QED BY <2>2, <2>3
<1>3. ASSUME NEW m \in Metrics, m = d.name
      PROVE  Apply(v, es)[m] = d.value
  <2>1. l + 1 \in Of(es, m) /\ \A j \in Of(es, m) : j \in Nat /\ j <= l + 1
    BY <1>1, <1>3 DEF Of
  <2>2. Latest(es, m) = l + 1
    BY <1>1, <2>1 DEF Latest
  <2> QED BY <1>1, <2>1, <2>2 DEF Apply
<1> QED BY <1>2, <1>3 DEF es

\* No delta, nothing to do.
LEMMA ExactNone ==
  ASSUME NEW v \in [Metrics -> Values]
  PROVE  Exact(v, <<>>, v)
  BY ApplyNone DEF Exact

\* A delta that changes what the client will hold extends an exact list of deltas.
LEMMA ExactAppend ==
  ASSUME NEW v \in [Metrics -> Values], NEW w \in [Metrics -> Values],
         NEW ds \in Seq(Deltas), NEW d \in Deltas, Exact(v, ds, w), w[d.name] # d.value
  PROVE  Exact(v, Append(ds, d), [w EXCEPT ![d.name] = d.value])
<1> DEFINE l == Len(ds)
           es == Append(ds, d)
<1>1. /\ l \in Nat /\ Len(es) = l + 1 /\ es[l + 1] = d
      /\ \A k \in 1..l : es[k] = ds[k]
  BY AppendProperties
<1>2. Apply(v, ds) = w
  BY DEF Exact
<1>3. Apply(v, es) = [w EXCEPT ![d.name] = d.value]
  <2>1. \A m \in Metrics : Apply(v, es)[m] = IF m = d.name THEN d.value ELSE w[m]
    BY <1>2, ApplyAppend
  <2>2. Apply(v, es) = [m \in Metrics |-> Apply(v, es)[m]]
    BY DEF Apply
  <2>3. [w EXCEPT ![d.name] = d.value] = [m \in Metrics |-> IF m = d.name THEN d.value ELSE w[m]]
    BY DEF Deltas
  <2> HIDE DEF es
  <2> QED BY <2>1, <2>2, <2>3
<1>4. ASSUME NEW k \in 1..(l + 1)
      PROVE  SubSeq(es, 1, k - 1) = SubSeq(ds, 1, k - 1)
  <2> HIDE DEF es, l
  <2> QED BY <1>1
<1>5. SubSeq(ds, 1, (l + 1) - 1) = ds
  BY SubSeqFull
<1> HIDE DEF es, l
<1>6. ASSUME NEW k \in 1..Len(es)
      PROVE  Apply(v, SubSeq(es, 1, k - 1))[es[k].name] # es[k].value
  <2>1. CASE k \in 1..l
    BY <1>1, <1>4, <2>1 DEF Exact, l
  <2>2. CASE k = l + 1
    BY <1>1, <1>2, <1>4, <1>5, <2>2
  <2> QED BY <1>1, <2>1, <2>2
<1> QED BY <1>3, <1>6 DEF Exact, es

-----------------------------------------------------------------------------
(* Types. *)

\* A stream begins with its request and nothing else.
LEMMA TypeInit == Init => TypeOK
<1> SUFFICES ASSUME Init PROVE TypeOK
  OBVIOUS
<1>1. reqNames \in Seq(Names) /\ Window \in Nat /\ Window >= 0
  BY SubscribeAssumption DEF Init
<1> QED BY <1>1, SubscribeAssumption DEF Init, TypeOK

\* One turn of the validation loop.
LEMMA ValidateType == ASSUME TypeOK, Validate PROVE TypeOK'
<1> USE DEF TypeOK
<1>1. /\ pc = "validate" /\ i \in 1..Len(reqNames) /\ i' = i + 1 /\ reqNames[i] \in Names
      /\ UNCHANGED <<kernel, pc, reqNames, first, prev, deltas, seen, tickC, status, ctx, net, view>>
  BY DEF Validate
<1>2. i' \in 1..(Len(reqNames) + 1)
  BY <1>1
<1>3. validNames' \in Seq(Metrics) /\ errors' \subseteq Names
  <2>1. CASE reqNames[i] \in Metrics
    <3>1. validNames' = Append(validNames, reqNames[i]) /\ errors' = errors
      BY <2>1 DEF Validate
    <3> QED BY <2>1, <3>1
  <2>2. CASE reqNames[i] \notin Metrics
    BY <1>1, <2>2 DEF Validate
  <2> QED BY <2>1, <2>2
<1> QED BY <1>1, <1>2, <1>3

\* One turn of the loop of a round.
LEMMA ReadType == ASSUME TypeOK, ReadFails \/ ReadDelta PROVE TypeOK'
<1> USE DEF TypeOK
<1>1. /\ pc = "round" /\ i \in 1..Len(validNames) /\ i' = i + 1 /\ Name \in Metrics
      /\ UNCHANGED <<kernel, pc, reqNames, validNames, first, tickC, status, ctx, net, view>>
  BY DEF ReadFails, ReadDelta, Name
<1>2. i' \in 1..(Len(validNames) + 1)
  BY <1>1
<1>3. CASE ReadFails
  BY <1>1, <1>2, <1>3 DEF ReadFails, Names
<1>4. CASE ReadDelta
  <2>1. kernel[Name] \in Values
    BY <1>1, <1>4 DEF ReadDelta
  <2>2. [name |-> Name, value |-> kernel[Name]] \in Deltas
    BY <1>1, <2>1 DEF Deltas
  <2>3. deltas' \in Seq(Deltas) /\ prev' \in [Metrics -> Values]
    <3>1. CASE kernel[Name] # prev[Name]
      <4>1. /\ deltas' = Append(deltas, [name |-> Name, value |-> kernel[Name]])
            /\ prev' = [prev EXCEPT ![Name] = kernel[Name]]
        BY <1>4, <3>1 DEF ReadDelta
      <4> QED BY <1>1, <2>1, <2>2, <4>1
    <3>2. CASE kernel[Name] = prev[Name]
      BY <1>4, <3>2 DEF ReadDelta
    <3> QED BY <3>1, <3>2
  <2>4. seen' \subseteq Metrics /\ errors' = errors
    BY <1>1, <1>4 DEF ReadDelta
  <2> QED BY <1>1, <1>2, <2>3, <2>4
<1> QED BY <1>3, <1>4

\* What is sent, named.
Message == [deltas |-> deltas, errors |-> IF first THEN errors ELSE {}, first |-> first,
            full |-> prev, failed |-> IF first THEN Range(validNames) \ seen ELSE {}]

\* A response is a response.
LEMMA MessageType == ASSUME TypeOK PROVE Message \in Responses
<1> USE DEF TypeOK
<1>1. Range(validNames) \subseteq Metrics
  BY DEF Range
<1> QED BY <1>1 DEF Message, Responses

\* Send and Receive.
LEMMA NetType == ASSUME TypeOK, Send \/ Receive, view' \in [Metrics -> Values] PROVE TypeOK'
<1> USE DEF TypeOK
<1>1. CASE Send
  <2>1. net' = Append(net, Message) /\ Len(net) < Window
    BY <1>1 DEF Send, Message
  <2>2. net' \in Seq(Responses) /\ Len(net') <= Window
    BY <2>1, MessageType, SubscribeAssumption
  <2>3. i' \in 1..(Len(validNames) + 1) /\ deltas' \in Seq(Deltas) /\ pc' = "select"
    BY <1>1 DEF Send
  <2> QED BY <1>1, <2>2, <2>3 DEF Send
<1>2. CASE Receive
  <2>1. net' \in Seq(Responses) /\ Len(net') <= Window
    BY <1>2, SubscribeAssumption DEF Receive
  <2> QED BY <1>2, <2>1 DEF Receive, handlerVars
<1> QED BY <1>1, <1>2

\* The other steps leave the data of the stream alone.
Quiet ==
    /\ UNCHANGED <<reqNames, validNames, errors, first, prev, deltas, seen, net, view>>
    /\ \/ pc = "call" /\ pc' \in {"validate", "ended"} /\ i' = i
       \/ pc = "validate" /\ i > Len(reqNames) /\ pc' \in {"round", "panicked"} /\ i' = 1
       \/ pc = "round" /\ i > Len(validNames) /\ pc' = "send" /\ i' = i
       \/ pc = "select" /\ pc' = "round" /\ i' = i
       \/ pc \in {"send", "select"} /\ pc' = "ended" /\ i' = i
       \/ pc' = pc /\ i' = i

\* Which steps those are.
LEMMA QuietSteps ==
  ASSUME [Next]_vars
  PROVE  Validate \/ ReadFails \/ ReadDelta \/ Send \/ Receive \/ Quiet
<1>1. CASE Reject \/ Accept \/ NewTicker \/ RoundDone
  BY <1>1 DEF Reject, Accept, NewTicker, RoundDone, handlerVars, Quiet
<1>2. CASE SendFails \/ SelectDone \/ SelectTick
  BY <1>2 DEF SendFails, SelectDone, SelectTick, handlerVars, Quiet
<1>3. CASE Tick \/ Cancel \/ \E m \in Metrics : KernelChange(m)
  BY <1>3 DEF Tick, Cancel, KernelChange, handlerVars, Quiet
<1>4. CASE UNCHANGED vars
  BY <1>4 DEF vars, handlerVars, Quiet
<1> QED BY <1>1, <1>2, <1>3, <1>4 DEF Next

\* They keep the types.
LEMMA QuietType == ASSUME TypeOK, pc = "call" => i = 1, [Next]_vars, Quiet PROVE TypeOK'
<1> USE DEF TypeOK
<1>1. kernel' \in [Metrics -> Values \cup {Unreadable}]
  BY DEF Next, vars, KernelChange, Reject, Accept, Validate, NewTicker, ReadFails, ReadDelta,
         RoundDone, Send, SendFails, SelectDone, SelectTick, Tick, Receive, Cancel
<1>2. /\ tickC' \in 0..1 /\ status' \in {"none", "Unknown", "Canceled"}
      /\ ctx' \in {"live", "cancelled"}
  BY DEF Next, vars, handlerVars, KernelChange, Reject, Accept, Validate, NewTicker, ReadFails,
         ReadDelta, RoundDone, Send, SendFails, SelectDone, SelectTick, Tick, Receive, Cancel
<1>3. pc' \in {"call", "validate", "round", "send", "select", "ended", "panicked"}
  BY DEF Quiet
<1>4. i' \in 1..(Len(IF pc' = "validate" THEN reqNames ELSE validNames) + 1)
  <2>1. i \in 1..(Len(IF pc = "validate" THEN reqNames ELSE validNames) + 1)
    OBVIOUS
  <2>2. Len(reqNames) \in Nat /\ Len(validNames) \in Nat
    OBVIOUS
  <2>3. CASE pc = "call" /\ pc' \in {"validate", "ended"} /\ i' = i
    BY <2>1, <2>2, <2>3
  <2> QED BY <2>1, <2>2, <2>3 DEF Quiet
<1> QED BY <1>1, <1>2, <1>3, <1>4 DEF Quiet

-----------------------------------------------------------------------------
(***************************************************************************)
(* The inductive invariant: DeltasExact, FirstAccounts, and what they need *)
(* to know of the loops they look back on.                                 *)
(***************************************************************************)

\* Every name of the request that validation has passed is valid or has an error.
ValidInv ==
    pc \notin {"call", "ended"} =>
        \A k \in 1..Len(reqNames) : (pc = "validate" => k < i) =>
            \/ reqNames[k] \in errors
            \/ \E j \in 1..Len(validNames) : validNames[j] = reqNames[k]

\* In the first round, every name passed was read or has an error, and a metric
\* whose value is not empty has a delta.
FirstInv ==
    first => /\ pc # "select"
             /\ \A m \in Metrics : prev[m] = Empty \/ Of(deltas, m) # {}
             /\ pc \in {"round", "send"} =>
                  \A j \in 1..Len(validNames) : j < i => validNames[j] \in errors \cup seen

\* Where the loops begin and end.
LoopInv == /\ pc = "call" => i = 1
           /\ pc = "send" => i > Len(validNames)

StreamInv == ValidInv /\ FirstInv /\ LoopInv /\ DeltasExact /\ FirstAccounts

\* The elements of a sequence have positions.
LEMMA RangeSeq ==
  ASSUME NEW S, NEW s \in Seq(S), NEW n \in Range(s)
  PROVE  \E k \in 1..Len(s) : s[k] = n
<1>1. DOMAIN s = 1..Len(s)
  OBVIOUS
<1> QED BY <1>1 DEF Range

\* A response lists the name of each of its deltas.
LEMMA OfAppend ==
  ASSUME NEW ds \in Seq(Deltas), NEW d \in Deltas, NEW m
  PROVE  /\ Of(ds, m) # {} => Of(Append(ds, d), m) # {}
         /\ d.name = m => Of(Append(ds, d), m) # {}
<1> DEFINE es == Append(ds, d)
<1>1. /\ Len(ds) \in Nat /\ Len(es) = Len(ds) + 1 /\ es[Len(ds) + 1] = d
      /\ \A k \in 1..Len(ds) : es[k] = ds[k]
  BY AppendProperties
<1> HIDE DEF es
<1>2. ASSUME Of(ds, m) # {} PROVE Of(es, m) # {}
  <2>1. PICK k \in 1..Len(ds) : ds[k].name = m
    BY <1>2 DEF Of
  <2>2. k \in Of(es, m)
    BY <1>1, <2>1 DEF Of
  <2> QED BY <2>2
<1>3. ASSUME d.name = m PROVE Of(es, m) # {}
  <2>1. Len(ds) + 1 \in Of(es, m)
    BY <1>1, <1>3 DEF Of
  <2> QED BY <2>1
<1> QED BY <1>2, <1>3 DEF es

\* What the client will hold is a copy of every metric.
LEMMA HeldType ==
  ASSUME TypeOK, NEW k \in 1..(Len(net) + 1)
  PROVE  Held(k) \in [Metrics -> Values]
<1> USE DEF TypeOK
<1>1. CASE k = 1
  BY <1>1 DEF Held
<1>2. CASE k # 1
  <2>1. k - 1 \in 1..Len(net)
    BY <1>2
  <2>2. net[k - 1] \in Responses
    BY <2>1
  <2> QED BY <1>2, <2>2 DEF Held, Responses
<1> QED BY <1>1, <1>2

\* DeltasExact and FirstAccounts look at what a quiet step leaves alone.
LEMMA SameNet ==
  ASSUME StreamInv, UNCHANGED <<reqNames, net>>
  PROVE  /\ FirstAccounts'
         /\ UNCHANGED <<prev, deltas, view>> => DeltasExact'
<1>1. FirstAccounts'
  BY DEF StreamInv, FirstAccounts, Explained, Range
<1>2. ASSUME UNCHANGED <<prev, deltas, view>> PROVE DeltasExact'
  BY <1>2 DEF StreamInv, DeltasExact, Held
<1> QED BY <1>1, <1>2

\* The steps that leave the data alone.
LEMMA QuietInv == ASSUME TypeOK, StreamInv, Quiet PROVE StreamInv'
<1> USE DEF StreamInv, TypeOK
<1>1. DeltasExact' /\ FirstAccounts'
  BY SameNet DEF Quiet
<1>2. ValidInv'
  BY DEF Quiet, ValidInv, LoopInv
<1>3. FirstInv'
  BY DEF Quiet, FirstInv, LoopInv
<1>4. LoopInv'
  BY DEF Quiet, LoopInv
<1> QED BY <1>1, <1>2, <1>3, <1>4

\* Validation.
LEMMA ValidateInv == ASSUME TypeOK, StreamInv, Validate PROVE StreamInv'
<1> USE DEF StreamInv, TypeOK
<1>1. /\ pc = "validate" /\ pc' = "validate" /\ i \in 1..Len(reqNames) /\ i' = i + 1
      /\ UNCHANGED <<reqNames, first, prev, deltas, seen, net, view>>
  BY DEF Validate
<1>2. DeltasExact' /\ FirstAccounts'
  BY <1>1, SameNet
<1>3. /\ errors \subseteq errors'
      /\ \A j \in 1..Len(validNames) : j \in 1..Len(validNames') /\ validNames'[j] = validNames[j]
      /\ \/ reqNames[i] \in errors'
         \/ \E j \in 1..Len(validNames') : validNames'[j] = reqNames[i]
  <2>1. CASE reqNames[i] \in Metrics
    <3>1. validNames' = Append(validNames, reqNames[i]) /\ errors' = errors
      BY <2>1 DEF Validate
    <3>2. /\ Len(validNames) \in Nat /\ Len(validNames') = Len(validNames) + 1
          /\ validNames'[Len(validNames) + 1] = reqNames[i]
          /\ \A j \in 1..Len(validNames) : validNames'[j] = validNames[j]
      BY <2>1, <3>1, AppendProperties
    <3>3. Len(validNames) + 1 \in 1..Len(validNames')
      BY <3>2
    <3>4. \A j \in 1..Len(validNames) : j \in 1..Len(validNames')
      BY <3>2
    <3> QED BY <3>1, <3>2, <3>3, <3>4
  <2>2. CASE reqNames[i] \notin Metrics
    BY <2>2 DEF Validate
  <2> QED BY <2>1, <2>2
<1>4. ValidInv'
  <2> SUFFICES ASSUME NEW k \in 1..Len(reqNames), k < i + 1
               PROVE  \/ reqNames[k] \in errors'
                      \/ \E j \in 1..Len(validNames') : validNames'[j] = reqNames[k]
    BY <1>1 DEF ValidInv
  <2>1. CASE k = i
    BY <1>3, <2>1
  <2>2. CASE k < i
    BY <1>1, <1>3, <2>2 DEF ValidInv
  <2> QED BY <1>1, <2>1, <2>2, SMTT(30)
<1>5. FirstInv' /\ LoopInv'
  BY <1>1 DEF FirstInv, LoopInv
<1> QED BY <1>2, <1>4, <1>5

\* A failed read has its error in the first round.
LEMMA ReadFailsInv == ASSUME TypeOK, StreamInv, ReadFails PROVE StreamInv'
<1> USE DEF StreamInv, TypeOK
<1>1. /\ pc = "round" /\ pc' = "round" /\ i \in 1..Len(validNames) /\ i' = i + 1
      /\ UNCHANGED <<reqNames, validNames, first, prev, deltas, seen, net, view>>
      /\ errors \subseteq errors' /\ (first => validNames[i] \in errors')
  BY DEF ReadFails, Name
<1>2. DeltasExact' /\ FirstAccounts'
  BY <1>1, SameNet
<1>3. ValidInv' /\ LoopInv'
  BY <1>1 DEF ValidInv, LoopInv
<1>4. FirstInv'
  <2>1. \A j \in 1..Len(validNames) : j < i + 1 => j < i \/ j = i
    BY <1>1
  <2> QED BY <1>1, <2>1 DEF FirstInv
<1> QED BY <1>2, <1>3, <1>4

\* A read that succeeds has a delta, unless the client will hold the value already.
LEMMA ReadDeltaInv == ASSUME TypeOK, StreamInv, ReadDelta PROVE StreamInv'
<1> USE DEF StreamInv, TypeOK
<1>1. /\ pc = "round" /\ pc' = "round" /\ i \in 1..Len(validNames) /\ i' = i + 1
      /\ Name \in Metrics /\ Name = validNames[i] /\ kernel[Name] \in Values
      /\ UNCHANGED <<reqNames, validNames, errors, first, net, view>>
      /\ seen \subseteq seen' /\ (first => Name \in seen')
  BY DEF ReadDelta, Name
<1> DEFINE d == [name |-> Name, value |-> kernel[Name]]
<1>2. d \in Deltas /\ d.name = Name /\ d.value = kernel[Name]
  BY <1>1 DEF Deltas
<1> HIDE DEF d
<1>3. \/ /\ kernel[Name] # prev[Name] /\ deltas' = Append(deltas, d)
         /\ prev' = [prev EXCEPT ![d.name] = d.value]
      \/ UNCHANGED <<prev, deltas>>
  BY <1>2 DEF ReadDelta, d
<1>4. FirstAccounts'
  BY <1>1, SameNet
<1>5. Held(Len(net) + 1) \in [Metrics -> Values]
  BY HeldType
<1>6. DeltasExact'
  <2>1. CASE UNCHANGED <<prev, deltas>>
    BY <1>1, <2>1, SameNet
  <2>2. CASE kernel[Name] # prev[Name] /\ deltas' = Append(deltas, d)
             /\ prev' = [prev EXCEPT ![d.name] = d.value]
    <3>1. Exact(Held(Len(net) + 1), deltas', prev')
      BY <1>2, <1>5, <2>2, ExactAppend DEF DeltasExact
    <3>2. \A k \in 1..Len(net) : Exact(Held(k), net[k].deltas, net[k].full)
      BY DEF DeltasExact
    <3> QED BY <1>1, <3>1, <3>2 DEF DeltasExact, Held
  <2> QED BY <1>3, <2>1, <2>2
<1>7. ValidInv' /\ LoopInv'
  BY <1>1 DEF ValidInv, LoopInv
<1>8. FirstInv'
  <2>1. ASSUME first, NEW m \in Metrics PROVE prev'[m] = Empty \/ Of(deltas', m) # {}
    <3>1. prev[m] = Empty \/ Of(deltas, m) # {}
      BY <2>1 DEF FirstInv
    <3>2. CASE UNCHANGED <<prev, deltas>>
      BY <3>1, <3>2
    <3>3. CASE deltas' = Append(deltas, d) /\ prev' = [prev EXCEPT ![d.name] = d.value]
      BY <1>2, <3>1, <3>3, OfAppend
    <3> QED BY <1>3, <3>2, <3>3
  <2>2. \A j \in 1..Len(validNames) : j < i + 1 => j < i \/ j = i
    BY <1>1
  <2> QED BY <1>1, <2>1, <2>2 DEF FirstInv
<1> QED BY <1>4, <1>6, <1>7, <1>8

\* A response accounts for every name, if it is the first, and leaves nothing over.
LEMMA SendInv == ASSUME TypeOK, StreamInv, Send PROVE StreamInv'
<1> USE DEF StreamInv, TypeOK
<1>1. /\ pc = "send" /\ pc' = "select" /\ first' = FALSE /\ deltas' = <<>>
      /\ net' = Append(net, Message)
      /\ UNCHANGED <<reqNames, validNames, errors, prev, view>>
  BY DEF Send, Message
<1>2. /\ Message.deltas = deltas /\ Message.first = first /\ Message.full = prev
      /\ first => Message.errors = errors /\ Message.failed = Range(validNames) \ seen
  BY DEF Message
<1>3. /\ Len(net) \in Nat /\ Len(net') = Len(net) + 1 /\ net'[Len(net) + 1] = Message
      /\ \A k \in 1..Len(net) : net'[k] = net[k]
  BY <1>1, MessageType, AppendProperties
<1>4. ValidInv' /\ FirstInv' /\ LoopInv'
  BY <1>1 DEF ValidInv, FirstInv, LoopInv
<1>5. DeltasExact'
  <2> DEFINE H(k) == IF k = 1 THEN view' ELSE net'[k - 1].full
  <2>1. ASSUME NEW k \in 1..(Len(net) + 1) PROVE H(k) = Held(k)
    <3>1. k # 1 => k - 1 \in 1..Len(net)
      BY <1>3
    <3> QED BY <1>1, <1>3, <3>1 DEF Held
  <2>2. H(Len(net') + 1) = prev
    BY <1>2, <1>3
  <2> HIDE DEF H
  <2>3. Exact(prev, <<>>, prev)
    BY ExactNone
  <2>4. ASSUME NEW k \in 1..Len(net') PROVE Exact(H(k), net'[k].deltas, net'[k].full)
    <3>1. CASE k \in 1..Len(net)
      <4>1. H(k) = Held(k)
        BY <1>3, <2>1, <3>1
      <4> QED BY <1>3, <3>1, <4>1 DEF DeltasExact
    <3>2. CASE k = Len(net) + 1
      <4>1. H(k) = Held(Len(net) + 1)
        BY <1>3, <2>1, <3>2
      <4> QED BY <1>2, <1>3, <3>2, <4>1 DEF DeltasExact
    <3> QED BY <1>3, <3>1, <3>2
  <2>5. Exact(H(Len(net') + 1), deltas', prev')
    BY <1>1, <2>2, <2>3
  <2> QED BY <2>4, <2>5 DEF DeltasExact, Held, H
<1>6. ASSUME first, NEW n \in Range(reqNames)
      PROVE  Explained(n, Message) \/ (n \in Metrics \ Message.failed /\ Message.full[n] = Empty)
  <2>1. PICK k \in 1..Len(reqNames) : reqNames[k] = n
    BY <1>6, RangeSeq
  <2>2. CASE n \in errors
    BY <1>2, <1>6, <2>2 DEF Explained
  <2>3. CASE n \notin errors
    <3>1. PICK j \in 1..Len(validNames) : validNames[j] = n
      BY <1>1, <2>1, <2>3 DEF ValidInv
    <3>2. n \in seen /\ n \in Metrics
      BY <1>1, <1>6, <2>3, <3>1 DEF FirstInv, LoopInv
    <3>3. prev[n] = Empty \/ Of(deltas, n) # {}
      BY <1>6, <3>2 DEF FirstInv
    <3>4. ASSUME Of(deltas, n) # {} PROVE Explained(n, Message)
      BY <1>2, <3>4 DEF Of, Explained
    <3> QED BY <1>2, <1>6, <3>2, <3>3, <3>4
  <2> QED BY <2>2, <2>3
<1>7. FirstAccounts'
  <2> SUFFICES ASSUME NEW k \in 1..Len(net'), net'[k].first, NEW n \in Range(reqNames)
               PROVE  \/ Explained(n, net'[k])
                      \/ n \in Metrics \ net'[k].failed /\ net'[k].full[n] = Empty
    BY <1>1 DEF FirstAccounts
  <2>1. CASE k \in 1..Len(net)
    BY <1>3, <2>1 DEF FirstAccounts
  <2>2. CASE k = Len(net) + 1
    BY <1>2, <1>3, <1>6, <2>2
  <2> QED BY <1>3, <2>1, <2>2
<1> QED BY <1>4, <1>5, <1>7

\* What the client holds after a response is the server's snapshot.
LEMMA ReceiveView ==
  ASSUME TypeOK, StreamInv, Receive
  PROVE  /\ net \in Seq(Responses) /\ net # <<>> /\ net' = Tail(net) /\ 1 \in 1..Len(net)
         /\ view' = net[1].full /\ view' \in [Metrics -> Values]
<1> USE DEF TypeOK
<1>1. net # <<>> /\ net' = Tail(net) /\ view' = Apply(view, Head(net).deltas)
  BY DEF Receive
<1>2. 1 \in 1..Len(net) /\ Head(net) = net[1] /\ net[1] \in Responses
  BY <1>1
<1>3. Exact(view, net[1].deltas, net[1].full)
  BY <1>2 DEF StreamInv, DeltasExact, Held
<1> QED BY <1>1, <1>2, <1>3 DEF Exact, Responses

\* A response leaves the net.
LEMMA ReceiveInv == ASSUME TypeOK, StreamInv, Receive PROVE StreamInv'
<1> USE DEF StreamInv
<1>1. UNCHANGED <<pc, reqNames, validNames, errors, first, prev, i, deltas, seen>>
  BY DEF Receive, handlerVars
<1>2. /\ Len(net) \in Nat /\ Len(net') = Len(net) - 1
      /\ \A k \in 1..Len(net') : net'[k] = net[k + 1] /\ k + 1 \in 1..Len(net)
  BY ReceiveView, HeadTailProperties
<1>3. ValidInv' /\ FirstInv' /\ LoopInv'
  BY <1>1 DEF ValidInv, FirstInv, LoopInv
<1>4. FirstAccounts'
  BY <1>1, <1>2 DEF FirstAccounts
<1> DEFINE H(k) == IF k = 1 THEN view' ELSE net'[k - 1].full
<1>5. ASSUME NEW k \in 1..(Len(net') + 1) PROVE H(k) = Held(k + 1)
  <2>1. CASE k = 1
    BY <2>1, ReceiveView DEF Held
  <2>2. CASE k # 1
    <3>1. k - 1 \in 1..Len(net') /\ net'[k - 1] = net[(k - 1) + 1] /\ (k - 1) + 1 = k
      BY <1>2, <2>2
    <3>2. k + 1 # 1 /\ (k + 1) - 1 = k
      BY <1>2
    <3> QED BY <2>2, <3>1, <3>2 DEF Held
  <2> QED BY <2>1, <2>2
<1> HIDE DEF H
<1>6. DeltasExact'
  <2>1. ASSUME NEW k \in 1..Len(net') PROVE Exact(H(k), net'[k].deltas, net'[k].full)
    <3>1. k \in 1..(Len(net') + 1)
      BY <1>2
    <3> QED BY <1>2, <1>5, <3>1 DEF DeltasExact
  <2>2. Exact(H(Len(net') + 1), deltas', prev')
    <3>1. Len(net') + 1 \in 1..(Len(net') + 1) /\ Len(net') + 1 = Len(net)
      BY <1>2, ReceiveView
    <3>2. H(Len(net') + 1) = Held(Len(net) + 1)
      BY <1>5, <3>1
    <3>3. Exact(Held(Len(net) + 1), deltas, prev)
      BY DEF DeltasExact
    <3> QED BY <1>1, <3>2, <3>3
  <2> QED BY <2>1, <2>2 DEF DeltasExact, Held, H
<1> QED BY <1>3, <1>4, <1>6

-----------------------------------------------------------------------------
(* The theorems. *)

\* The invariant is inductive.
LEMMA InvStep == TypeOK /\ StreamInv /\ [Next]_vars => TypeOK' /\ StreamInv'
<1> SUFFICES ASSUME TypeOK, StreamInv, [Next]_vars PROVE TypeOK' /\ StreamInv'
  OBVIOUS
<1>1. CASE Validate
  BY <1>1, ValidateType, ValidateInv
<1>2. CASE ReadFails
  BY <1>2, ReadType, ReadFailsInv
<1>3. CASE ReadDelta
  BY <1>3, ReadType, ReadDeltaInv
<1>4. CASE Send
  <2>1. view' \in [Metrics -> Values]
    BY <1>4 DEF Send, TypeOK
  <2> QED BY <1>4, <2>1, NetType, SendInv
<1>5. CASE Receive
  BY <1>5, ReceiveView, NetType, ReceiveInv
<1>6. CASE Quiet
  BY <1>6, QuietType, QuietInv DEF StreamInv, LoopInv
<1> QED BY <1>1, <1>2, <1>3, <1>4, <1>5, <1>6, QuietSteps

\* Before the call nothing is owed.
LEMMA InvInit == Init => StreamInv
<1> SUFFICES ASSUME Init PROVE StreamInv
  OBVIOUS
<1>1. ValidInv /\ FirstInv /\ LoopInv /\ FirstAccounts
  BY DEF Init, ValidInv, FirstInv, LoopInv, FirstAccounts
<1>2. DeltasExact
  <2>1. view \in [Metrics -> Values] /\ prev = view /\ net = <<>> /\ deltas = <<>>
    BY SubscribeAssumption DEF Init
  <2>2. Len(net) = 0 /\ Held(Len(net) + 1) = view
    BY <2>1 DEF Held
  <2>3. Exact(view, <<>>, view)
    BY <2>1, ExactNone
  <2> QED BY <2>1, <2>2, <2>3 DEF DeltasExact
<1> QED BY <1>1, <1>2 DEF StreamInv

\* The invariant holds in every state of every stream.
LEMMA InvCorrect == Spec => [](TypeOK /\ StreamInv)
  BY TypeInit, InvInit, InvStep, PTL DEF Spec

\* For every set of metrics, request and window: the handler's locals, the
\* responses in flight and the client's copy keep their types.
THEOREM TypeCorrect == Spec => []TypeOK
  BY InvCorrect, PTL

\* For every request, with names repeated or not, and every change the kernel makes
\* within or between rounds: the deltas Subscribe sends are exactly what takes the
\* client's copy to prev.
THEOREM DeltasAreExact == Spec => []DeltasExact
<1>1. StreamInv => DeltasExact
  BY DEF StreamInv
<1> QED BY <1>1, InvCorrect, PTL

\* For every request: the first response accounts for each of its names.
THEOREM FirstIsComplete == Spec => []FirstAccounts
<1>1. StreamInv => FirstAccounts
  BY DEF StreamInv
<1> QED BY <1>1, InvCorrect, PTL

-----------------------------------------------------------------------------
(* The deltas refine the snapshots. *)

\* The first snapshot in flight, and the others.
LEMMA SnapshotTail ==
  ASSUME NEW s \in Seq(Responses), s # <<>>
  PROVE  LET f == [k \in 1..Len(s) |-> s[k].full]
         IN  /\ f # <<>> /\ Head(f) = s[1].full
             /\ Tail(f) = [k \in 1..(Len(s) - 1) |-> s[k + 1].full]
<1> DEFINE f == [k \in 1..Len(s) |-> s[k].full]
           F == [Metrics -> Values]
<1>1. Len(s) \in Nat /\ Len(s) >= 1 /\ \A k \in 1..Len(s) : s[k] \in Responses
  OBVIOUS
<1>2. \A k \in 1..Len(s) : s[k].full \in F
  BY <1>1 DEF Responses
<1>3. f \in [1..Len(s) -> F]
  BY <1>2
<1>4. f \in Seq(F) /\ Len(f) = Len(s)
  <2> HIDE DEF f, F
  <2> QED BY <1>1, <1>3
<1>5. f[1] = s[1].full /\ \A k \in 1..(Len(s) - 1) : f[k + 1] = s[k + 1].full
  BY <1>1
<1> HIDE DEF f, F
<1>6. f # <<>> /\ Head(f) = f[1]
  BY <1>1, <1>4
<1>7. /\ Tail(f) \in Seq(F) /\ Len(Tail(f)) = Len(s) - 1
      /\ \A k \in 1..Len(Tail(f)) : Tail(f)[k] = f[k + 1]
  BY <1>4, <1>6, HeadTailProperties
<1>8. Tail(f) = [k \in 1..(Len(s) - 1) |-> s[k + 1].full]
  <2> DEFINE t == Tail(f)
  <2>1. t \in Seq(F) /\ Len(t) = Len(s) - 1
    BY <1>7
  <2>2. \A k \in 1..(Len(s) - 1) : t[k] = s[k + 1].full
    BY <1>5, <1>7
  <2> HIDE DEF t
  <2>3. t = [k \in 1..Len(t) |-> t[k]]
    BY <2>1
  <2>4. t = [k \in 1..(Len(s) - 1) |-> s[k + 1].full]
    BY <2>1, <2>2, <2>3
  <2> QED BY <2>4 DEF t
<1> QED BY <1>5, <1>6, <1>8 DEF f

\* The snapshots in flight.
Fulls == [k \in 1..Len(net) |-> net[k].full]

\* The stream of deltas begins as a stream of snapshots.
LEMMA RefineInit == Init => Abstract!Init
<1> SUFFICES ASSUME Init PROVE Abstract!Init
  OBVIOUS
<1>1. net = <<>>
  BY DEF Init
<1>2. [k \in 1..Len(net) |-> net[k].full] = <<>>
  BY <1>1
<1> QED BY <1>2 DEF Init, Abstract!Init

\* Every step is a change, a sample, a push, a pull, or nothing a client can see.
LEMMA RefineStep ==
  TypeOK /\ StreamInv /\ [Next]_vars => [Abstract!Next]_<<kernel, prev, Fulls, view>>
<1> SUFFICES ASSUME TypeOK, StreamInv, [Next]_vars
             PROVE  Abstract!Next \/ UNCHANGED <<kernel, prev, Fulls, view>>
  OBVIOUS
<1> USE DEF TypeOK
<1>1. CASE Validate \/ ReadFails
  <2>1. UNCHANGED <<kernel, prev, net, view>>
    BY <1>1 DEF Validate, ReadFails
  <2> QED BY <2>1 DEF Fulls
<1>2. CASE ReadDelta
  <2>1. Name \in Metrics /\ kernel[Name] # Unreadable /\ UNCHANGED <<kernel, net, view>>
    BY <1>2 DEF ReadDelta, Name
  <2>2. prev' = [prev EXCEPT ![Name] = kernel[Name]] \/ prev' = prev
    BY <1>2 DEF ReadDelta
  <2>3. Fulls' = Fulls
    BY <2>1 DEF Fulls
  <2>4. CASE prev' = [prev EXCEPT ![Name] = kernel[Name]]
    <3>1. Abstract!Sample(Name)
      BY <2>1, <2>3, <2>4 DEF Abstract!Sample, Fulls
    <3> QED BY <2>1, <3>1 DEF Abstract!Next
  <2> QED BY <2>1, <2>2, <2>3, <2>4
<1>3. CASE Send
  <2>1. Len(net) < Window /\ net' = Append(net, Message) /\ UNCHANGED <<kernel, prev, view>>
    BY <1>3 DEF Send, Message
  <2>2. /\ Len(net) \in Nat /\ Len(net') = Len(net) + 1 /\ net'[Len(net) + 1] = Message
        /\ \A k \in 1..Len(net) : net'[k] = net[k]
    BY <2>1, MessageType, AppendProperties
  <2>3. Message.full = prev
    BY DEF Message
  <2>4. Len(Fulls) = Len(net) /\ Fulls' = Append(Fulls, prev)
    BY <2>2, <2>3 DEF Fulls
  <2>5. Abstract!Push
    BY <2>1, <2>4 DEF Abstract!Push, Fulls
  <2> QED BY <2>5 DEF Abstract!Next
<1>4. CASE Receive
  <2>1. UNCHANGED <<kernel, prev>>
    BY <1>4 DEF Receive, handlerVars
  <2>2. /\ Len(net) \in Nat /\ Len(net') = Len(net) - 1
        /\ \A k \in 1..Len(net') : net'[k] = net[k + 1]
    <3> HIDE DEF TypeOK
    <3> QED BY <1>4, ReceiveView, HeadTailProperties
  <2>3. view' = net[1].full
    BY <1>4, ReceiveView
  <2>4. Fulls # <<>> /\ Head(Fulls) = net[1].full /\ Fulls' = Tail(Fulls)
    <3>1. net \in Seq(Responses) /\ net # <<>>
      <4> HIDE DEF TypeOK
      <4> QED BY <1>4, ReceiveView
    <3>2. Fulls' = [k \in 1..(Len(net) - 1) |-> net[k + 1].full]
      BY <2>2 DEF Fulls
    <3> QED BY <3>1, <3>2, SnapshotTail DEF Fulls
  <2>5. Abstract!Pull
    BY <2>1, <2>3, <2>4 DEF Abstract!Pull, Fulls
  <2> QED BY <2>5 DEF Abstract!Next
<1>5. CASE Quiet
  <2>1. Fulls' = Fulls /\ UNCHANGED <<prev, view>>
    BY <1>5 DEF Quiet, Fulls
  <2>2. kernel' = kernel \/ \E m \in Metrics : KernelChange(m)
    BY DEF Next, vars, Reject, Accept, Validate, NewTicker, ReadFails, ReadDelta,
           RoundDone, Send, SendFails, SelectDone, SelectTick, Tick, Receive, Cancel
  <2>3. ASSUME NEW m \in Metrics, KernelChange(m) PROVE Abstract!Next
    <3>1. Abstract!Change(m)
      BY <2>1, <2>3 DEF KernelChange, Abstract!Change, Fulls
    <3> QED BY <3>1 DEF Abstract!Next
  <2> QED BY <2>1, <2>2, <2>3
<1> QED BY <1>1, <1>2, <1>3, <1>4, <1>5, QuietSteps

\* For every request, window and kernel: a client that applies the deltas of
\* Subscribe sees exactly the snapshots the server took, in order.
THEOREM DeltasAreSnapshots == Spec => ImplementsSnapshots
<1>1. Init => Abstract!Init
  BY RefineInit
<1>2. TypeOK /\ StreamInv /\ [Next]_vars
        => [Abstract!Next]_<<kernel, prev, [k \in 1..Len(net) |-> net[k].full], view>>
  BY RefineStep DEF Fulls
<1> QED BY <1>1, <1>2, InvCorrect, PTL DEF Spec, ImplementsSnapshots, Abstract!Spec

-----------------------------------------------------------------------------
(* The interval. *)

\* A set of numbers above zero has a least element.
LEMMA LeastPositive ==
  ASSUME NEW S, S \subseteq Nat \ {0}, S # {}
  PROVE  Least(S) \in S
<1> DEFINE R == OpToRel(<, Nat)
<1>1. \A x, y \in Nat : <<y, x>> \in R <=> y < x
  BY DEF OpToRel
<1>2. \E x \in S : \A y \in S : ~ (<<y, x>> \in R)
  <2>1. IsWellFoundedOn(R, Nat)
    BY NatLessThanWellFounded
  <2> HIDE DEF R
  <2> QED BY <2>1, WFMin
<1>3. PICK x \in S : \A y \in S : ~ (y < x)
  BY <1>1, <1>2
<1>4. \A y \in S : x <= y
  BY <1>3
<1> QED BY <1>4 DEF Least

\* Whatever TTLs the registry has, the minimum is a duration a ticker can have.
LEMMA MinimumPositive == minSubscribeInterval \in Nat \ {0}
<1> DEFINE S == {Floor} \cup {t \in Ttls : 0 < t /\ t < Floor}
<1>1. S \subseteq Nat \ {0} /\ S # {}
  <2>1. Ttls \subseteq Int
    BY SubscribeAssumption
  <2>2. \A t \in S : t \in Nat \ {0}
    BY <2>1 DEF Floor
  <2>3. Floor \in S
    OBVIOUS
  <2> HIDE DEF S
  <2> QED BY <2>2, <2>3
<1>2. minSubscribeInterval = Least(S)
  BY DEF minSubscribeInterval
<1> HIDE DEF S
<1> QED BY <1>1, <1>2, LeastPositive

\* For every registry and every request, none, zero and negative intervals
\* included: Subscribe never makes time.NewTicker panic, which would end the server
\* with all its streams.
THEOREM NoRequestPanics == Spec => []ServerSurvives
<1> DEFINE Asked == reqInterval \in Int /\ ServerSurvives
<1>1. Init => Asked
  BY SubscribeAssumption DEF Init, ServerSurvives
<1>2. Asked /\ [Next]_vars => Asked'
  <2> SUFFICES ASSUME Asked, [Next]_vars PROVE Asked'
    OBVIOUS
  <2>1. CASE NewTicker
    <3>1. Wanted > 0
      BY MinimumPositive DEF Wanted
    <3> QED BY <2>1, <3>1 DEF NewTicker, ServerSurvives
  <2>2. CASE Reject \/ Accept \/ Validate \/ ReadFails \/ ReadDelta \/ RoundDone
    BY <2>2 DEF Reject, Accept, Validate, ReadFails, ReadDelta, RoundDone, ServerSurvives
  <2>3. CASE Send \/ SendFails \/ SelectDone \/ SelectTick
    BY <2>3 DEF Send, SendFails, SelectDone, SelectTick, ServerSurvives
  <2>4. CASE Tick \/ Receive \/ Cancel \/ \E m \in Metrics : KernelChange(m)
    BY <2>4 DEF Tick, Receive, Cancel, KernelChange, ServerSurvives
  <2>5. CASE UNCHANGED vars
    BY <2>5 DEF vars, ServerSurvives
  <2> QED BY <2>1, <2>2, <2>3, <2>4, <2>5 DEF Next
<1>3. Asked => ServerSurvives
  OBVIOUS
<1> QED BY <1>1, <1>2, <1>3, PTL DEF Spec
=============================================================================
