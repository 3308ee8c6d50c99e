--------------------------- MODULE Name2IntProofs ---------------------------
(***************************************************************************)
(* The theorems about darwin-name2int, for every table of names, every MIB *)
(* the kernel gives and every way it changes values meanwhile: what        *)
(* validateReads finds, what the summary counts, and which flat            *)
(* identifiers collide.                                                    *)
(***************************************************************************)
EXTENDS Name2Int, FoldProofs

Content == [ver : Nat, len : Lens]

\* What validateReads has seen so far: every attempt that went wrong cost a change
\* of the value, and so does a difference from what the read by MIB returned.
Reading ==
    /\ validate
    /\ attempt \in 0..2 /\ changed >= attempt
    /\ grew => changed >= 1
    /\ pc = "name" =>
          /\ mibRaw \in Content
          /\ value[Known[k]] # mibRaw => changed >= attempt + 1

\* What a row of the report may say.
RowExact(r) ==
    validate /\ r.row.mib # Nil =>
        /\ r.outcome # Unvalidated
        /\ r.outcome = Valid("volatile") => r.changed >= 3
        /\ r.changed = 0 => \/ r.outcome = Valid("")
                            \/ r.outcome = Invalid("mib read") /\ r.row.name \in Volatile
        /\ r.outcome \in {Invalid("size mismatch"), Invalid("name read")} => r.changed >= 1

\* The inductive invariant.
ToolInv ==
    /\ validate \in BOOLEAN
    /\ pc \in {"loop", "mib", "name", "done"}
    /\ k \in Nat /\ k >= 1 /\ (pc # "done" => k <= Len(Known))
    /\ attempt \in Nat /\ changed \in Nat /\ changes \in Nat /\ grew \in BOOLEAN
    /\ value \in [Names -> Content \cup {Nil}]
    /\ \A n \in Names : value[n] = Nil => n \in Volatile
    /\ results \in Seq(Range(results))
    /\ pc = "loop" => attempt = 0 /\ changed = 0 /\ grew = FALSE
    /\ pc \in {"mib", "name"} => Known[k] \in Names /\ Reading
    /\ \A r \in Range(results) : RowExact(r)

-----------------------------------------------------------------------------
\* Appending to a sequence adds one element to its range.
LEMMA RangeAppend ==
  ASSUME NEW s, s \in Seq(Range(s)), NEW e
  PROVE  /\ Append(s, e) \in Seq(Range(Append(s, e)))
         /\ Range(Append(s, e)) = Range(s) \cup {e}
<1> DEFINE t == Append(s, e)
           S == Range(s) \cup {e}
<1>1. s \in Seq(S) /\ e \in S
  <2>1. Range(s) \subseteq S
    OBVIOUS
  <2> HIDE DEF S
  <2>2. Len(s) \in Nat /\ s \in [1..Len(s) -> Range(s)]
    OBVIOUS
  <2>3. s \in [1..Len(s) -> S]
    BY <2>1, <2>2
  <2>4. s \in Seq(S)
    BY <2>2, <2>3
  <2> QED BY <2>4 DEF S
<1>2. /\ t \in Seq(S) /\ Len(s) \in Nat /\ Len(t) = Len(s) + 1 /\ t[Len(s) + 1] = e
      /\ \A j \in 1..Len(s) : t[j] = s[j]
  <2> HIDE DEF S
  <2> QED BY <1>1, AppendProperties
<1> HIDE DEF t
<1>3. DOMAIN s = 1..Len(s) /\ DOMAIN t = 1..Len(t)
  BY <1>2
<1>4. Range(t) = S
  <2>1. Range(t) \subseteq S
    BY <1>2, <1>3 DEF Range
  <2>2. e \in Range(t)
    <3>1. Len(s) + 1 \in DOMAIN t
      BY <1>2, <1>3
    <3> QED BY <1>2, <3>1 DEF Range
  <2>3. ASSUME NEW x \in Range(s) PROVE x \in Range(t)
    <3>1. PICK j \in 1..Len(s) : s[j] = x
      BY <1>3 DEF Range
    <3>2. j \in DOMAIN t /\ t[j] = x
      BY <1>2, <1>3, <3>1
    <3> QED BY <3>2 DEF Range
  <2> QED BY <2>1, <2>2, <2>3
<1> QED BY <1>2, <1>4 DEF t

\* The names the loop of main looks at are Known ones.
LEMMA KnownName ==
  ASSUME k \in Nat, k >= 1, k <= Len(Known), Known[k] \notin Computed
  PROVE  Known[k] \in Names
<1>1. k \in DOMAIN Known
  BY Name2IntAssumption
<1> QED BY <1>1 DEF Names, Range

\* Emit keeps the invariant, if the row it adds is exact.
LEMMA EmitKeeps ==
  ASSUME ToolInv, pc # "done", NEW row, NEW outcome, Emit(row, outcome),
         RowExact([row |-> row, outcome |-> outcome, changed |-> changed])
  PROVE  ToolInv'
<1> USE DEF ToolInv
<1> DEFINE r == [row |-> row, outcome |-> outcome, changed |-> changed]
<1>1. /\ results' = Append(results, r) /\ k' = k + 1
      /\ pc' = IF k < Len(Known) THEN "loop" ELSE "done"
      /\ attempt' = 0 /\ changed' = 0 /\ grew' = FALSE
      /\ UNCHANGED <<validate, value, changes>>
  BY DEF Emit, Kernel
<1> HIDE DEF r
<1>2. results' \in Seq(Range(results')) /\ Range(results') = Range(results) \cup {r}
  BY <1>1, RangeAppend
<1>3. \A q \in Range(results') : RowExact(q)
  BY <1>2 DEF r
<1>4. \A q \in Range(results') : RowExact(q)'
  BY <1>1, <1>3 DEF RowExact
<1>5. /\ k' \in Nat /\ k' >= 1 /\ (pc' # "done" => k' <= Len(Known))
      /\ pc' \in {"loop", "done"}
  <2>1. Len(Known) \in Nat
    BY Name2IntAssumption
  <2> QED BY <1>1, <2>1
<1> QED BY <1>1, <1>2, <1>4, <1>5

\* The fields of what is emitted.
LEMMA RowFields ==
  ASSUME NEW name, NEW mib, NEW outcome
  PROVE  /\ Row(name, mib).name = name /\ Row(name, mib).mib = mib
         /\ Failed(name).mib = Nil
  BY DEF Row, Failed

\* The kernel changes a value: the change is counted if it is the one being read.
LEMMA ChangeKeeps == ASSUME ToolInv, KernelChange PROVE ToolInv'
<1> USE DEF ToolInv
<1>1. PICK n \in Volatile, v \in {Nil} \cup {[ver |-> changes + 1, len |-> l] : l \in Lens} :
        /\ value[n] # v
        /\ value' = [value EXCEPT ![n] = v]
        /\ changes' = changes + 1
        /\ IF n = Known[k] /\ pc \in {"mib", "name"}
           THEN /\ changed' = changed + 1
                /\ grew' = (grew \/ (Nil \notin {v, value[n]} /\ v.len > value[n].len))
           ELSE UNCHANGED <<changed, grew>>
        /\ UNCHANGED <<validate, pc, k, attempt, mibRaw, results>>
  BY DEF KernelChange
<1>2. v \in Content \cup {Nil} /\ n \in Names
  BY Name2IntAssumption DEF Content, Names
<1>3. value' \in [Names -> Content \cup {Nil}] /\ \A x \in Names : value'[x] = Nil => x \in Volatile
  BY <1>1, <1>2
<1>4. grew' \in BOOLEAN
  <2>1. CASE n = Known[k] /\ pc \in {"mib", "name"}
    <3>1. grew' = (grew \/ (Nil \notin {v, value[n]} /\ v.len > value[n].len))
      BY <1>1, <2>1
    <3> QED BY <3>1, Zenon
  <2>2. CASE ~(n = Known[k] /\ pc \in {"mib", "name"})
    BY <1>1, <2>2
  <2> QED BY <2>1, <2>2
<1>5. \A r \in Range(results') : RowExact(r)'
  BY <1>1 DEF RowExact
<1>6. ASSUME pc \in {"mib", "name"} PROVE Reading'
  <2>1. CASE n = Known[k]
    <3>1. changed' = changed + 1
      BY <1>1, <1>6, <2>1
    <3> QED BY <1>1, <1>6, <3>1 DEF Reading
  <2>2. CASE n # Known[k]
    <3>1. changed' = changed /\ grew' = grew /\ value'[Known[k]] = value[Known[k]]
      BY <1>1, <1>6, <2>2
    <3> QED BY <1>1, <1>6, <3>1 DEF Reading
  <2> QED BY <2>1, <2>2
<1>7. changed' \in Nat /\ (pc = "loop" => changed' = 0 /\ grew' = FALSE)
  BY <1>1
<1> QED BY <1>1, <1>3, <1>4, <1>5, <1>6, <1>7

\* The loop of main before validation.
LEMMA MainKeeps ==
  ASSUME ToolInv, SkipComputed \/ ResolveFails \/ Resolve PROVE ToolInv'
<1> USE DEF ToolInv
<1>1. CASE SkipComputed
  <2>1. /\ pc = "loop" /\ k' = k + 1 /\ pc' = IF k < Len(Known) THEN "loop" ELSE "done"
        /\ UNCHANGED <<validate, attempt, results, value, changes, changed, grew>>
    BY <1>1 DEF SkipComputed, Kernel
  <2>2. Len(Known) \in Nat
    BY Name2IntAssumption
  <2>3. \A r \in Range(results') : RowExact(r)'
    BY <2>1 DEF RowExact
  <2> QED BY <2>1, <2>2, <2>3
<1>2. CASE ResolveFails
  <2>1. pc # "done" /\ Emit(Failed(Known[k]), Unvalidated)
    BY <1>2 DEF ResolveFails
  <2>2. RowExact([row |-> Failed(Known[k]), outcome |-> Unvalidated, changed |-> changed])
    BY RowFields DEF RowExact
  <2> HIDE DEF ToolInv
  <2> QED BY <2>1, <2>2, EmitKeeps
<1>3. CASE Resolve
  <2>1. pc = "loop" /\ Known[k] \in Names
    BY <1>3, KnownName DEF Resolve
  <2>2. CASE validate
    <3>1. pc' = "mib" /\ UNCHANGED <<validate, k, attempt, mibRaw, results, value, changes, changed, grew>>
      BY <1>3, <2>2 DEF Resolve, Kernel
    <3>2. \A r \in Range(results') : RowExact(r)'
      BY <3>1 DEF RowExact
    <3> QED BY <2>1, <2>2, <3>1, <3>2 DEF Reading
  <2>3. CASE ~validate
    <3>1. Emit(Row(Known[k], MibOf[Known[k]]), Unvalidated)
      BY <1>3, <2>3 DEF Resolve
    <3>2. RowExact([row |-> Row(Known[k], MibOf[Known[k]]), outcome |-> Unvalidated,
                    changed |-> changed])
      BY <2>3 DEF RowExact
    <3> HIDE DEF ToolInv
    <3> QED BY <2>1, <3>1, <3>2, EmitKeeps
  <2> QED BY <2>2, <2>3
<1> QED BY <1>1, <1>2, <1>3

\* A verdict that the changes seen so far justify.
LEMMA VerdictKeeps ==
  ASSUME ToolInv, pc \in {"mib", "name"}, NEW outcome, Verdict(outcome),
         outcome # Unvalidated,
         outcome = Valid("volatile") => changed >= 3,
         changed = 0 => \/ outcome = Valid("")
                        \/ outcome = Invalid("mib read") /\ Known[k] \in Volatile,
         outcome \in {Invalid("size mismatch"), Invalid("name read")} => changed >= 1
  PROVE  ToolInv'
<1> DEFINE row == Row(Known[k], MibOf[Known[k]])
           r == [row |-> row, outcome |-> outcome, changed |-> changed]
<1>1. row.name = Known[k]
  BY RowFields
<1>2. Emit(row, outcome)
  BY DEF Verdict
<1> HIDE DEF row
<1>3. r.row.name = Known[k] /\ r.outcome = outcome /\ r.changed = changed
  BY <1>1
<1>4. RowExact(r)
  <2> HIDE DEF r
  <2> QED BY <1>3 DEF RowExact
<1>5. pc # "done"
  OBVIOUS
<1> QED BY <1>2, <1>4, <1>5, EmitKeeps

\* The verdicts are told apart by their words.
LEMMA Outcomes ==
  /\ Valid("") # Unvalidated /\ Valid("volatile") # Unvalidated
  /\ Invalid("mib read") # Unvalidated /\ Invalid("name read") # Unvalidated
  /\ Invalid("size mismatch") # Unvalidated
  /\ Valid("") \notin {Valid("volatile"), Invalid("size mismatch"), Invalid("name read")}
  /\ Valid("volatile") \notin {Invalid("size mismatch"), Invalid("name read")}
  /\ Invalid("mib read") \notin {Valid("volatile"), Invalid("size mismatch"), Invalid("name read")}
  /\ Valid("volatile") # Invalid("size mismatch") /\ Valid("volatile") # Invalid("name read")
  BY DEF Valid, Invalid, Unvalidated

\* The read by MIB.
LEMMA MibReadKeeps == ASSUME ToolInv, MibRead PROVE ToolInv'
<1>1. pc = "mib" /\ Known[k] \in Names /\ Reading
  BY DEF MibRead, ToolInv
<1>2. CASE ReadError /\ Verdict(Invalid("mib read"))
  <2>1. changed = 0 => Known[k] \in Volatile
    <3>1. value[Known[k]] = Nil \/ grew
      BY <1>2 DEF ReadError
    <3>2. CASE value[Known[k]] = Nil
      BY <1>1, <3>2 DEF ToolInv
    <3>3. CASE grew
      <4>1. changed >= 1 /\ changed \in Nat
        BY <1>1, <3>3 DEF Reading, ToolInv
      <4> QED BY <4>1
    <3> QED BY <3>1, <3>2, <3>3
  <2> QED BY <1>1, <1>2, <2>1, VerdictKeeps, Outcomes
<1>3. CASE /\ value[Known[k]] # Nil
           /\ mibRaw' = value[Known[k]]
           /\ pc' = "name" /\ grew' = FALSE
           /\ UNCHANGED <<validate, k, attempt, results, Kernel, changed>>
  <2>1. mibRaw' \in Content /\ value' = value /\ changes' = changes
    BY <1>1, <1>3 DEF ToolInv, Kernel
  <2>2. \A r \in Range(results') : RowExact(r)'
    BY <1>3 DEF RowExact, ToolInv
  <2>3. Reading'
    BY <1>1, <1>3, <2>1 DEF Reading
  <2> QED BY <1>1, <1>3, <2>1, <2>2, <2>3 DEF ToolInv
<1> QED BY <1>2, <1>3 DEF MibRead

\* The read by name, and the comparison.
LEMMA NameReadKeeps == ASSUME ToolInv, NameRead PROVE ToolInv'
<1> DEFINE v == value[Known[k]]
<1>1. /\ pc = "name" /\ Known[k] \in Names /\ Reading
      /\ mibRaw \in Content /\ (v # mibRaw => changed >= attempt + 1)
      /\ attempt \in 0..2 /\ changed \in Nat
  BY DEF NameRead, ToolInv, Reading
<1>2. v \in Content \cup {Nil} /\ Nil \notin Content
  BY <1>1, Name2IntAssumption DEF ToolInv, Content
<1>3. CASE ReadError /\ Verdict(Invalid("name read"))
  <2>1. changed >= 1
    <3>1. v = Nil \/ grew
      BY <1>3 DEF ReadError
    <3>2. CASE v = Nil
      BY <1>1, <1>2, <3>2
    <3>3. CASE grew
      BY <1>1, <3>3 DEF Reading
    <3> QED BY <3>1, <3>2, <3>3
  <2>2. changed # 0
    BY <1>1, <2>1
  <2>3. Invalid("name read") # Valid("volatile")
    BY Outcomes
  <2> QED BY <1>1, <1>3, <2>1, <2>2, <2>3, VerdictKeeps, Outcomes
<1>4. CASE v # Nil /\ Compare(v)
  <2>1. CASE mibRaw = v
    <3>1. Verdict(Valid(""))
      BY <1>4, <2>1 DEF Compare
    <3> QED BY <1>1, <3>1, VerdictKeeps, Outcomes
  <2>2. CASE mibRaw # v
    <3>1. changed >= attempt + 1 /\ changed # 0 /\ changed >= 1
      BY <1>1, <2>2
    <3>2. CASE mibRaw.len # v.len
      <4>1. Verdict(Invalid("size mismatch"))
        BY <1>4, <2>2, <3>2 DEF Compare
      <4> QED BY <1>1, <3>1, <4>1, VerdictKeeps, Outcomes
    <3>3. CASE mibRaw.len = v.len /\ attempt = 2
      <4>1. Verdict(Valid("volatile")) /\ changed >= 3
        BY <1>1, <1>4, <2>2, <3>1, <3>3 DEF Compare
      <4> QED BY <1>1, <3>1, <4>1, VerdictKeeps, Outcomes
    <3>4. CASE mibRaw.len = v.len /\ attempt # 2
      <4>1. /\ attempt' = attempt + 1 /\ pc' = "mib" /\ grew' = FALSE
            /\ UNCHANGED <<validate, k, mibRaw, results, value, changes, changed>>
        BY <1>4, <2>2, <3>4 DEF Compare, Kernel
      <4>2. Reading'
        BY <1>1, <3>1, <3>4, <4>1 DEF Reading
      <4>3. \A r \in Range(results') : RowExact(r)'
        BY <4>1 DEF RowExact, ToolInv
      <4>4. attempt' \in Nat /\ Known[k'] \in Names /\ k' = k
        BY <1>1, <4>1
      <4>5. grew' \in BOOLEAN /\ pc' # "loop" /\ pc' # "done" /\ pc' \in {"loop", "mib", "name", "done"}
        BY <4>1
      <4>6. k <= Len(Known) /\ k \in Nat /\ k >= 1
        BY <1>1 DEF ToolInv
      <4>7. /\ validate' \in BOOLEAN /\ changed' \in Nat /\ changes' \in Nat
            /\ value' \in [Names -> Content \cup {Nil}]
            /\ \A n \in Names : value'[n] = Nil => n \in Volatile
            /\ results' \in Seq(Range(results'))
        BY <4>1 DEF ToolInv
      <4> QED BY <4>2, <4>3, <4>4, <4>5, <4>6, <4>7 DEF ToolInv
    <3> QED BY <3>2, <3>3, <3>4
  <2> QED BY <2>1, <2>2
<1> QED BY <1>3, <1>4 DEF NameRead

\* The invariant is inductive.
LEMMA ToolStep == ToolInv /\ [Next]_vars => ToolInv'
<1> SUFFICES ASSUME ToolInv, [Next]_vars PROVE ToolInv'
  OBVIOUS
<1>1. CASE UNCHANGED vars
  BY <1>1 DEF vars, ToolInv, Reading, RowExact
<1> QED BY <1>1, ChangeKeeps, MainKeeps, MibReadKeeps, NameReadKeeps DEF Next

\* main begins at the first of the Known names.
LEMMA ToolInit == Init => ToolInv
<1> SUFFICES ASSUME Init PROVE ToolInv
  OBVIOUS
<1>1. Len(Known) \in Nat /\ Len(Known) >= 1
  BY Name2IntAssumption
<1>2. PICK l \in Lens : value = [n \in Names |-> [ver |-> 0, len |-> l]]
  BY DEF Init
<1>3. [ver |-> 0, len |-> l] \in Content /\ Nil \notin Content
  BY Name2IntAssumption DEF Content
<1>4. value \in [Names -> Content \cup {Nil}] /\ \A n \in Names : value[n] # Nil
  BY <1>2, <1>3
<1>5. results \in Seq(Range(results)) /\ Range(results) = {}
  BY DEF Init, Range
<1>6. /\ pc = "loop" /\ k = 1 /\ attempt = 0 /\ changed = 0 /\ changes = 0
      /\ grew = FALSE /\ validate \in BOOLEAN
  BY DEF Init
<1>7. \A r \in Range(results) : RowExact(r)
  BY <1>5
<1>8. k \in Nat /\ k >= 1 /\ k <= Len(Known) /\ attempt \in Nat /\ changed \in Nat /\ changes \in Nat
  BY <1>1, <1>6
<1>9. grew \in BOOLEAN /\ pc \in {"loop", "mib", "name", "done"} /\ pc \notin {"mib", "name"}
  BY <1>6
<1> QED BY <1>4, <1>5, <1>6, <1>7, <1>8, <1>9, Zenon DEF ToolInv

\* For every table of names and every change of the kernel: validateReads fails a
\* mapping, or calls it volatile, only if its value changed as often as that takes.
THEOREM ValidationIsExact == Spec => []ValidationExact
<1>1. ToolInv => ValidationExact
  BY DEF ToolInv, ValidationExact, RowExact
<1> QED BY <1>1, ToolInit, ToolStep, PTL DEF Spec

-----------------------------------------------------------------------------
(* What the report is made from. *)

MIBs == Seq(Nat) \ {<< >>}
Verdicts == {Unvalidated, Valid(""), Valid("volatile"), Invalid("mib read"),
             Invalid("name read"), Invalid("size mismatch")}

\* What a row may hold.
RowShape(r) ==
    /\ r.row.mib \in MIBs \cup {Nil}
    /\ r.row.xnu \in {"none", "matched", "mismatched"}
    /\ r.row.mib = Nil => r.row.xnu = "none"
    /\ r.outcome \in Verdicts

\* The name that validateReads is reading has a MIB.
Mapped == pc \in {"mib", "name"} => MibOf[Known[k]] # Nil

\* One row for each entry before the k-th that the kernel answers for.
ReportInv ==
    /\ Mapped
    /\ Len(results) = Cardinality(Hits(Known, Names, k - 1))
    /\ pc = "done" => k = Len(Known) + 1
    /\ \A r \in Range(results) : RowShape(r)

\* A step that adds a row.
Adds(row, outcome) ==
    /\ Emit(row, outcome) /\ pc # "done" /\ Known[k] \in Names
    /\ RowShape([row |-> row, outcome |-> outcome, changed |-> changed])

\* The row of a name that has a MIB.
LEMMA RowIsShaped ==
  ASSUME NEW n \in Names, MibOf[n] # Nil, NEW outcome \in Verdicts, NEW c
  PROVE  RowShape([row |-> Row(n, MibOf[n]), outcome |-> outcome, changed |-> c])
<1> DEFINE r == [row |-> Row(n, MibOf[n]), outcome |-> outcome, changed |-> c]
<1>1. MibOf[n] \in MIBs
  BY Name2IntAssumption DEF Names, MIBs
<1>2. r.row = Row(n, MibOf[n]) /\ r.outcome = outcome
  OBVIOUS
<1>3. Row(n, MibOf[n]).mib = MibOf[n] /\ Row(n, MibOf[n]).xnu = matchXNU(n, MibOf[n])
  BY DEF Row
<1>4. matchXNU(n, MibOf[n]) \in {"none", "matched", "mismatched"}
  BY DEF matchXNU
<1> HIDE DEF r
<1> QED BY <1>1, <1>2, <1>3, <1>4 DEF RowShape

\* The name that validateReads is reading has a MIB.
LEMMA ReadsResolved ==
  ASSUME ToolInv, pc \in {"mib", "name"}
  PROVE  Known[k] \in Names
  BY DEF ToolInv

\* Every step adds a row, passes over a computed metric, or leaves the report alone.
LEMMA ReportSteps ==
  ASSUME ToolInv, Mapped, [Next]_vars
  PROVE  \/ \E row, outcome : Adds(row, outcome)
         \/ SkipComputed
         \/ UNCHANGED <<results, k>> /\ (pc' = "done" => pc = "done")
<1> DEFINE Still == UNCHANGED <<results, k>> /\ (pc' = "done" => pc = "done")
<1>1. CASE UNCHANGED vars \/ KernelChange
  BY <1>1 DEF vars, KernelChange
<1>2. CASE ResolveFails
  <2>1. pc = "loop" /\ Known[k] \in Names /\ Emit(Failed(Known[k]), Unvalidated)
    BY <1>2, KnownName DEF ResolveFails, ToolInv
  <2>2. RowShape([row |-> Failed(Known[k]), outcome |-> Unvalidated, changed |-> changed])
    BY DEF RowShape, Failed, Verdicts
  <2>3. Adds(Failed(Known[k]), Unvalidated)
    BY <2>1, <2>2 DEF Adds
  <2> QED BY <2>3
<1>3. ASSUME NEW outcome \in Verdicts, Verdict(outcome), pc # "done", Known[k] \in Names,
             MibOf[Known[k]] # Nil
      PROVE  \E row, o : Adds(row, o)
  <2>1. Adds(Row(Known[k], MibOf[Known[k]]), outcome)
    BY <1>3, RowIsShaped DEF Adds, Verdict
  <2> QED BY <2>1
<1>4. CASE Resolve
  <2>1. pc = "loop" /\ Known[k] \in Names /\ MibOf[Known[k]] # Nil
    BY <1>4, KnownName DEF Resolve, ToolInv
  <2>2. CASE validate
    <3>1. Still
      BY <1>4, <2>2 DEF Resolve
    <3> QED BY <3>1
  <2>3. CASE ~validate
    <3>1. Verdict(Unvalidated) /\ Unvalidated \in Verdicts
      BY <1>4, <2>3 DEF Resolve, Verdict, Verdicts
    <3> QED BY <1>3, <2>1, <3>1
  <2> QED BY <2>2, <2>3
<1>5. CASE MibRead
  <2>1. pc = "mib" /\ Known[k] \in Names /\ MibOf[Known[k]] # Nil
    BY <1>5, ReadsResolved DEF MibRead, Mapped
  <2>2. CASE Verdict(Invalid("mib read"))
    BY <1>3, <2>1, <2>2 DEF Verdicts
  <2>3. CASE ~Verdict(Invalid("mib read"))
    <3>1. Still
      BY <1>5, <2>3 DEF MibRead
    <3> QED BY <3>1
  <2> QED BY <2>2, <2>3
<1>6. CASE NameRead
  <2>1. pc = "name" /\ Known[k] \in Names /\ MibOf[Known[k]] # Nil
    BY <1>6, ReadsResolved DEF NameRead, Mapped
  <2>2. CASE \E outcome \in Verdicts : Verdict(outcome)
    BY <1>3, <2>1, <2>2
  <2>3. CASE ~\E outcome \in Verdicts : Verdict(outcome)
    <3>1. Still
      BY <1>6, <2>3 DEF NameRead, Compare, Verdicts
    <3> QED BY <3>1
  <2> QED BY <2>2, <2>3
<1> QED BY <1>1, <1>2, <1>4, <1>5, <1>6 DEF Next

\* The invariant of the report is inductive.
LEMMA ReportStep == ToolInv /\ ReportInv /\ [Next]_vars => ReportInv'
<1> SUFFICES ASSUME ToolInv, ReportInv, [Next]_vars PROVE ReportInv'
  OBVIOUS
<1>0. /\ Len(results) = Cardinality(Hits(Known, Names, k - 1)) /\ Mapped
      /\ \A r \in Range(results) : RowShape(r)
      /\ k \in Nat /\ k >= 1 /\ Len(Known) \in Nat
      /\ pc \in {"loop", "mib", "name", "done"} /\ (pc # "done" => k <= Len(Known))
      /\ (pc = "done" => k = Len(Known) + 1)
      /\ results \in Seq(Range(results))
  BY Name2IntAssumption DEF ReportInv, ToolInv
<1>1. Cardinality(Hits(Known, Names, k))
        = Cardinality(Hits(Known, Names, k - 1)) + (IF Known[k] \in Names THEN 1 ELSE 0)
  BY <1>0, HitsFacts
<1>2. CASE \E row, outcome : Adds(row, outcome)
  <2>1. PICK row, outcome : Adds(row, outcome)
    BY <1>2
  <2> DEFINE r == [row |-> row, outcome |-> outcome, changed |-> changed]
  <2>2. /\ results' = Append(results, r) /\ k' = k + 1 /\ pc # "done" /\ Known[k] \in Names
        /\ pc' = IF k < Len(Known) THEN "loop" ELSE "done"
        /\ RowShape(r)
    BY <2>1 DEF Adds, Emit
  <2> HIDE DEF r
  <2>3. Range(results') = Range(results) \cup {r}
    BY <1>0, <2>2, RangeAppend
  <2>4. \A q \in Range(results') : RowShape(q)
    BY <1>0, <2>2, <2>3
  <2>5. Len(results') = Len(results) + 1
    BY <1>0, <2>2
  <2>6. k' - 1 = k
    BY <1>0, <2>2
  <2>7. Len(results') = Cardinality(Hits(Known, Names, k' - 1))
    BY <1>0, <1>1, <2>2, <2>5, <2>6
  <2>8. pc' = "done" => k' = Len(Known) + 1
    BY <1>0, <2>2
  <2>9. Mapped'
    BY <2>2 DEF Mapped
  <2>10. \A q \in Range(results') : RowShape(q)'
    BY <2>4 DEF RowShape
  <2> QED BY <2>7, <2>8, <2>9, <2>10 DEF ReportInv, Hits, Names
<1>3. CASE SkipComputed
  <2>1. /\ k' = k + 1 /\ results' = results /\ pc = "loop" /\ Known[k] \in Computed
        /\ pc' = IF k < Len(Known) THEN "loop" ELSE "done"
    BY <1>3 DEF SkipComputed
  <2>2. Known[k] \notin Names /\ k' - 1 = k
    BY <1>0, <2>1 DEF Names
  <2>3. Len(results') = Cardinality(Hits(Known, Names, k' - 1))
    <3>1. Cardinality(Hits(Known, Names, k - 1)) \in Nat
      BY <1>0, HitsFacts
    <3> QED BY <1>0, <1>1, <2>1, <2>2, <3>1
  <2>4. pc' = "done" => k' = Len(Known) + 1
    BY <1>0, <2>1
  <2>5. Mapped'
    BY <2>1 DEF Mapped
  <2>6. \A q \in Range(results') : RowShape(q)'
    BY <1>0, <2>1 DEF RowShape
  <2> QED BY <2>3, <2>4, <2>5, <2>6 DEF ReportInv
<1>4. CASE UNCHANGED <<results, k>> /\ (pc' = "done" => pc = "done")
  <2>1. Mapped'
    <3>1. CASE Resolve /\ pc = "loop"
      BY <1>4, <3>1 DEF Resolve, Mapped
    <3>2. CASE ~Resolve /\ pc = "loop"
      <4>1. pc' = "loop" \/ pc' = "done"
        BY <3>2 DEF Next, vars, KernelChange, SkipComputed, ResolveFails, MibRead, NameRead, Emit
      <4> QED BY <4>1 DEF Mapped
    <3>3. CASE pc \in {"mib", "name"}
      BY <1>0, <1>4, <3>3 DEF Mapped
    <3>4. CASE pc = "done"
      <4>1. pc' = "done"
        BY <3>4 DEF Next, vars, KernelChange, SkipComputed, ResolveFails, Resolve, MibRead, NameRead
      <4> QED BY <4>1 DEF Mapped
    <3> QED BY <1>0, <3>1, <3>2, <3>3, <3>4
  <2>2. \A q \in Range(results') : RowShape(q)'
    BY <1>0, <1>4 DEF RowShape
  <2> QED BY <1>0, <1>4, <2>1, <2>2 DEF ReportInv
<1> QED BY <1>0, <1>2, <1>3, <1>4, ReportSteps

\* The report is empty at the start.
LEMMA ReportInit == Init => ReportInv
<1> SUFFICES ASSUME Init PROVE ReportInv
  OBVIOUS
<1>1. k = 1 /\ results = << >> /\ pc = "loop"
  BY DEF Init
<1>2. Cardinality(Hits(Known, Names, 0)) = 0
  BY HitsFacts
<1>3. Range(results) = {} /\ Len(results) = 0 /\ k - 1 = 0
  BY <1>1 DEF Range
<1> QED BY <1>1, <1>2, <1>3 DEF ReportInv, Mapped

\* Both invariants hold in every state.
LEMMA ReportCorrect == Spec => [](ToolInv /\ ReportInv)
<1>1. ToolInv /\ ReportInv /\ [Next]_vars => (ToolInv /\ ReportInv)'
  BY ToolStep, ReportStep
<1> QED BY <1>1, ToolInit, ReportInit, PTL DEF Spec

-----------------------------------------------------------------------------
(* Flat identifiers. *)

\* A level of a MIB, or zero where it has none.
Level(mib, i) == IF i <= Len(mib) THEN mib[i] ELSE 0

\* A number of four digits.
Digits(a, b, c, d) == ((a * LevelBase + b) * LevelBase + c) * LevelBase + d

\* The products of the places.
LEMMA PlaceFacts ==
  /\ LevelBase \in Nat /\ LevelBase > 0
  /\ \A i \in 1..4 : Places[i] \in Nat
  /\ \A a, b, c, d \in Nat :
        Digits(a, b, c, d) = a * Places[1] + b * Places[2] + c * Places[3] + d * Places[4]
<1>1. LevelBase \in Nat /\ LevelBase > 0
  BY Name2IntAssumption
<1>2. PICK p \in Nat : p = LevelBase * LevelBase
  BY <1>1
<1>3. PICK q \in Nat : q = LevelBase * LevelBase * LevelBase
  BY <1>1
<1>4. Places[1] = q /\ Places[2] = p /\ Places[3] = LevelBase /\ Places[4] = 1
  BY <1>2, <1>3 DEF Places
<1>5. ASSUME NEW a \in Nat, NEW b \in Nat, NEW c \in Nat, NEW d \in Nat
      PROVE  Digits(a, b, c, d) = a * q + b * p + c * LevelBase + d
  <2>1. (a * LevelBase + b) * LevelBase = a * p + b * LevelBase
    BY <1>1, <1>2
  <2>2. (a * p + b * LevelBase) * LevelBase = a * q + b * p
    BY <1>1, <1>2, <1>3
  <2>3. ((a * p + b * LevelBase) + c) * LevelBase = (a * p + b * LevelBase) * LevelBase + c * LevelBase
    BY <1>1, <1>2
  <2> QED BY <2>1, <2>2, <2>3 DEF Digits
<1>6. \A i \in 1..4 : Places[i] \in Nat
  BY <1>1, <1>4
<1>7. \A d \in Nat : d * 1 = d
  OBVIOUS
<1> QED BY <1>1, <1>4, <1>5, <1>6, <1>7

\* Two numbers in the base are equal only if their last digits and the rest are.
LEMMA LastDigit ==
  ASSUME NEW x \in Nat, NEW y \in Nat, NEW u \in Nat, NEW v \in Nat, NEW B \in Nat,
         u < B, v < B, x * B + u = y * B + v
  PROVE  x = y /\ u = v
<1>1. ASSUME NEW s \in Nat, NEW t \in Nat, s > t PROVE s * B >= t * B + B
  <2>1. PICK d \in Nat : s = t + 1 + d
    BY <1>1
  <2>2. s * B = t * B + B + d * B /\ d * B >= 0
    BY <2>1
  <2>3. d * B \in Nat /\ t * B \in Nat
    OBVIOUS
  <2> QED BY <2>2, <2>3
<1>2. x * B \in Nat /\ y * B \in Nat
  OBVIOUS
<1>3. ~(x > y) /\ ~(y > x)
  BY <1>1, <1>2
<1>4. x = y
  BY <1>3
<1> QED BY <1>2, <1>4

\* A number of four digits determines them, ...
LEMMA DigitsUnique ==
  ASSUME NEW p \in [1..4 -> Nat], NEW q \in [1..4 -> Nat],
         \A i \in 1..4 : p[i] < LevelBase /\ q[i] < LevelBase,
         Digits(p[1], p[2], p[3], p[4]) = Digits(q[1], q[2], q[3], q[4])
  PROVE  \A i \in 1..4 : p[i] = q[i]
<1>a. PICK a \in Nat, b \in Nat, c \in Nat, d \in Nat : a = p[1] /\ b = p[2] /\ c = p[3] /\ d = p[4]
  OBVIOUS
<1>b. PICK w \in Nat, x \in Nat, y \in Nat, z \in Nat : w = q[1] /\ x = q[2] /\ y = q[3] /\ z = q[4]
  OBVIOUS
<1> DEFINE B == LevelBase
<1>0. B \in Nat
  BY PlaceFacts
<1> HIDE DEF B
<1>1. (a * B + b) \in Nat /\ (w * B + x) \in Nat
  BY <1>0
<1>2. ((a * B + b) * B + c) \in Nat /\ ((w * B + x) * B + y) \in Nat
  BY <1>0, <1>1
<1>3. ((a * B + b) * B + c) * B + d = ((w * B + x) * B + y) * B + z
  BY <1>a, <1>b DEF Digits, B
<1>3a. /\ b < B /\ c < B /\ d < B /\ x < B /\ y < B /\ z < B
  BY <1>a, <1>b DEF B
<1>4. d = z /\ (a * B + b) * B + c = (w * B + x) * B + y
  BY <1>0, <1>2, <1>3, <1>3a, LastDigit
<1>5. c = y /\ a * B + b = w * B + x
  BY <1>0, <1>1, <1>3a, <1>4, LastDigit
<1>6. b = x /\ a = w
  BY <1>0, <1>3a, <1>5, LastDigit
<1>7. p[1] = q[1] /\ p[2] = q[2] /\ p[3] = q[3] /\ p[4] = q[4]
  BY <1>a, <1>b, <1>4, <1>5, <1>6
<1> QED BY <1>7

\* ... and is in range.
LEMMA DigitsRange ==
  ASSUME NEW a \in Nat, NEW b \in Nat, NEW c \in Nat, NEW d \in Nat,
         a < LevelBase, b < LevelBase, c < LevelBase, d < LevelBase
  PROVE  Digits(a, b, c, d) \in 0 .. LevelBase * LevelBase * LevelBase * LevelBase - 1
<1>1. ASSUME NEW B \in Nat, NEW q \in Nat, NEW s \in Nat, NEW u \in Nat, s < q, u < B
      PROVE  s * B + u \in Nat /\ s * B + u < q * B
  <2>1. PICK e \in Nat : q = s + 1 + e
    BY <1>1
  <2>2. q * B = s * B + B + e * B /\ e * B \in Nat /\ s * B \in Nat
    BY <2>1
  <2> QED BY <1>1, <2>2
<1> DEFINE B == LevelBase
<1>0. B \in Nat /\ a < B /\ b < B /\ c < B /\ d < B
  BY PlaceFacts
<1> HIDE DEF B
<1>2. a * B + b \in Nat /\ a * B + b < B * B
  BY <1>0, <1>1
<1>3. B * B \in Nat /\ B * B * B \in Nat /\ B * B * B * B \in Nat
  BY <1>0
<1>4. (a * B + b) * B + c \in Nat /\ (a * B + b) * B + c < B * B * B
  BY <1>0, <1>1, <1>2, <1>3
<1>5. ((a * B + b) * B + c) * B + d \in Nat /\ ((a * B + b) * B + c) * B + d < B * B * B * B
  BY <1>0, <1>1, <1>3, <1>4
<1>6. ((a * B + b) * B + c) * B + d \in 0 .. B * B * B * B - 1
  BY <1>3, <1>5
<1> QED BY <1>6 DEF Digits, B

\* A MIB has a first level.
LEMMA MibFacts ==
  ASSUME NEW mib \in MIBs
  PROVE  /\ mib \in Seq(Nat) /\ Len(mib) \in Nat /\ Len(mib) >= 1 /\ DOMAIN mib = 1..Len(mib)
         /\ \A j \in 1..Len(mib) : mib[j] \in Nat
<1>1. mib \in Seq(Nat) /\ mib # << >>
  BY DEF MIBs
<1>2. Len(mib) \in Nat /\ DOMAIN mib = 1..Len(mib) /\ \A j \in 1..Len(mib) : mib[j] \in Nat
  BY <1>1
<1>3. Len(mib) # 0
  BY <1>1, EmptySeq
<1> QED BY <1>1, <1>2, <1>3

\* flattenMIB, level by level.
LEMMA FlatTrace ==
  ASSUME NEW mib \in MIBs, Len(mib) <= 4
  PROVE  \E h \in [0..Len(mib) -> Nat] :
            /\ h[0] = 0 /\ flattenMIB(mib) = h[Len(mib)]
            /\ \A j \in 1..Len(mib) : h[j] = h[j - 1] + mib[j] * Places[j]
<1>0. Len(mib) \in 1..4 /\ \A j \in 1..Len(mib) : mib[j] \in Nat
  <2>1. /\ Len(mib) \in Nat /\ Len(mib) >= 1
        /\ \A j \in 1..Len(mib) : mib[j] \in Nat
    BY MibFacts
  <2>2. PICK n \in Nat : n = Len(mib)
    BY <2>1
  <2>3. n >= 1 /\ n <= 4
    BY <2>1, <2>2, Zenon
  <2>4. n \in 1..4
    BY <2>3
  <2> QED BY <2>1, <2>2, <2>4, Zenon
<1>1. PICK n \in Nat : n \in 1..4 /\ n = Len(mib) /\ \A j \in 1..n : mib[j] \in Nat
  BY <1>0
<1> DEFINE op(v, j) == v + mib[j] * Places[j]
           g == [j \in 1..n |-> [v \in Nat |-> op(v, j)]]
           Eq(f) == f = [j \in 0..n |-> IF j = 0 THEN 0 ELSE f[j - 1] + mib[j] * Places[j]]
           C == CHOOSE f : Eq(f)
<1>2. flattenMIB(mib) = C[n]
  BY <1>1 DEF flattenMIB
<1>3. ASSUME NEW v \in Nat, NEW j \in 1..n PROVE op(v, j) \in Nat
  <2>1. j \in 1..4
    BY <1>1
  <2>1a. Places[j] \in Nat /\ mib[j] \in Nat
    BY <1>1, <2>1, PlaceFacts
  <2>2. mib[j] * Places[j] \in Nat
    BY <2>1a
  <2> QED BY <2>2
<1>5. g \in Turns(1..n, Nat)
  <2> HIDE DEF op
  <2> QED BY <1>3 DEF Turns
<1>6. PICK h \in [0..n -> Nat] : Trace(h, n, 0, g)
  <2> HIDE DEF g
  <2> QED BY <1>5, TraceExists
<1>7. h[0] = 0 /\ \A j \in 1..n : h[j] = op(h[j - 1], j)
  <2>1. ASSUME NEW j \in 1..n PROVE h[j] = op(h[j - 1], j)
    <3> HIDE DEF op
    <3>1. h[j - 1] \in Nat
      OBVIOUS
    <3> QED BY <1>6, <3>1 DEF Trace
  <2> QED BY <1>6, <2>1 DEF Trace
<1>8. Eq(h)
  <2>1. \A j \in 0..n : j # 0 => j \in 1..n
    OBVIOUS
  <2> QED BY <1>7, <2>1
<1>9. Eq(C)
  <2> HIDE DEF Eq
  <2> QED BY <1>8
<1> HIDE DEF C
<1>10. \A j \in 0..n : C[j] = IF j = 0 THEN 0 ELSE C[j - 1] + mib[j] * Places[j]
  BY <1>9, Zenon
<1> DEFINE S == {j \in 0..n : C[j] = h[j]}
<1>11. \A j \in 0..n : j \in S
  <2>1. 0 \in S
    BY <1>7, <1>10
  <2>2. ASSUME NEW j \in 1..n, j - 1 \in S PROVE j \in S
    <3>1. C[j - 1] = h[j - 1] /\ j \in 0..n /\ j # 0
      BY <2>2
    <3>2. C[j] = h[j]
      BY <1>7, <1>10, <3>1, Zenon
    <3> QED BY <3>2
  <2> HIDE DEF S
  <2> QED BY <2>1, <2>2, UpTo, Zenon
<1>12. flattenMIB(mib) = h[n]
  BY <1>2, <1>11
<1> QED BY <1>1, <1>7, <1>12

\* What flattenMIB computes: the levels are the digits.
LEMMA FlatDigits ==
  ASSUME NEW mib \in MIBs, Len(mib) <= 4
  PROVE  /\ \A i \in 1..4 : Level(mib, i) \in Nat
         /\ flattenMIB(mib) = Digits(Level(mib, 1), Level(mib, 2), Level(mib, 3), Level(mib, 4))
<1>0. Len(mib) \in 1..4 /\ \A j \in 1..Len(mib) : mib[j] \in Nat
  <2>1. /\ Len(mib) \in Nat /\ Len(mib) >= 1
        /\ \A j \in 1..Len(mib) : mib[j] \in Nat
    BY MibFacts
  <2>2. PICK n \in Nat : n = Len(mib)
    BY <2>1
  <2>3. n >= 1 /\ n <= 4
    BY <2>1, <2>2, Zenon
  <2>4. n \in 1..4
    BY <2>3
  <2> QED BY <2>1, <2>2, <2>4, Zenon
<1>1. PICK n \in Nat : n \in 1..4 /\ n = Len(mib) /\ \A j \in 1..n : mib[j] \in Nat
  BY <1>0
<1>2. PICK h \in [0..n -> Nat] :
         /\ h[0] = 0 /\ flattenMIB(mib) = h[n]
         /\ \A j \in 1..n : h[j] = h[j - 1] + mib[j] * Places[j]
  BY <1>1, FlatTrace
<1>3. \A i \in 1..4 : Level(mib, i) \in Nat
  BY <1>1 DEF Level
<1> DEFINE t(i) == Level(mib, i) * Places[i]
<1>4. \A i \in 1..4 : t(i) \in Nat /\ (i > n => t(i) = 0) /\ (i <= n => t(i) = mib[i] * Places[i])
  <2> SUFFICES ASSUME NEW i \in 1..4
               PROVE  /\ t(i) \in Nat /\ (i > n => t(i) = 0)
                      /\ (i <= n => t(i) = mib[i] * Places[i])
    OBVIOUS
  <2>1. PICK p \in Nat : p = Places[i]
    BY PlaceFacts
  <2>2. PICK l \in Nat : l = Level(mib, i)
    BY <1>3
  <2>3. (i > n => l = 0) /\ (i <= n => l = mib[i])
    BY <1>1, <2>2 DEF Level
  <2>4. l * p \in Nat /\ 0 * p = 0
    BY <2>1, <2>2
  <2> QED BY <2>1, <2>2, <2>3, <2>4
<1>4a. \A a, b, c, d \in Nat : Digits(a, b, c, d)
          = a * Places[1] + b * Places[2] + c * Places[3] + d * Places[4]
  BY PlaceFacts
<1>4b. Digits(Level(mib, 1), Level(mib, 2), Level(mib, 3), Level(mib, 4)) = t(1) + t(2) + t(3) + t(4)
  <2>1. Level(mib, 1) \in Nat /\ Level(mib, 2) \in Nat /\ Level(mib, 3) \in Nat /\ Level(mib, 4) \in Nat
    BY <1>3
  <2>2. ASSUME NEW a \in Nat, NEW b \in Nat, NEW c \in Nat, NEW d \in Nat
        PROVE  Digits(a, b, c, d) = a * Places[1] + b * Places[2] + c * Places[3] + d * Places[4]
    BY <1>4a
  <2>3. Digits(Level(mib, 1), Level(mib, 2), Level(mib, 3), Level(mib, 4))
          = Level(mib, 1) * Places[1] + Level(mib, 2) * Places[2]
              + Level(mib, 3) * Places[3] + Level(mib, 4) * Places[4]
    BY <2>1, <2>2
  <2> QED BY <2>3
<1> HIDE DEF t
<1>5. h[n] = t(1) + t(2) + t(3) + t(4)
  <2>1. \A j \in 1..n : h[j] = h[j - 1] + t(j)
    <3>1. \A j \in 1..n : j \in 1..4 /\ j <= n
      BY <1>1
    <3> QED BY <1>2, <1>4, <3>1
  <2>2. h[1] = t(1)
    <3>1. 1 \in 1..n /\ 1 - 1 = 0 /\ t(1) \in Nat
      BY <1>1, <1>4
    <3>2. h[1] = 0 + t(1)
      BY <1>2, <2>1, <3>1, Zenon
    <3> QED BY <3>1, <3>2
  <2>3. n >= 2 => h[2] = t(1) + t(2)
    BY <1>4, <2>1, <2>2
  <2>4. n >= 3 => h[3] = t(1) + t(2) + t(3)
    BY <1>4, <2>1, <2>3
  <2>5. n >= 4 => h[4] = t(1) + t(2) + t(3) + t(4)
    BY <1>4, <2>1, <2>4
  <2>6. /\ t(1) \in Nat /\ t(2) \in Nat /\ t(3) \in Nat /\ t(4) \in Nat
        /\ (n < 2 => t(2) = 0) /\ (n < 3 => t(3) = 0) /\ (n < 4 => t(4) = 0)
    BY <1>4
  <2> QED BY <1>1, <2>2, <2>3, <2>4, <2>5, <2>6
<1> QED BY <1>2, <1>3, <1>4b, <1>5

\* The rows of the report.
LEMMA RowsFacts ==
  ASSUME ToolInv, ReportInv
  PROVE  /\ Len(results) \in Nat /\ DOMAIN results = 1..Len(results)
         /\ DOMAIN Rows = 1..Len(results) /\ Len(Rows) = Len(results)
         /\ \A j \in DOMAIN Rows :
               /\ Rows[j] = results[j].row /\ RowShape(results[j]) /\ RowExact(results[j])
               /\ Rows[j].mib \in MIBs \cup {Nil}
         /\ IsFiniteSet(DOMAIN Rows) /\ IsFiniteSet(Resolved(Rows))
         /\ \A j \in Resolved(Rows) : j \in DOMAIN Rows /\ Rows[j].mib \in MIBs
<1>1. results \in Seq(Range(results))
  BY DEF ToolInv
<1>2. PICK n \in Nat : n = Len(results) /\ DOMAIN results = 1..n
  BY <1>1
<1>3. DOMAIN Rows = 1..n /\ \A j \in 1..n : Rows[j] = results[j].row
  BY <1>2 DEF Rows
<1>4. Len(Rows) = n
  <2>1. Rows = [j \in 1..n |-> results[j].row]
    BY <1>2 DEF Rows
  <2> QED BY <2>1
<1>5. \A j \in 1..n : results[j] \in Range(results)
  BY <1>2 DEF Range
<1>6. \A j \in 1..n : RowShape(results[j]) /\ RowExact(results[j])
  BY <1>5 DEF ReportInv, ToolInv
<1>7. \A j \in 1..n : Rows[j].mib \in MIBs \cup {Nil}
  BY <1>3, <1>6 DEF RowShape
<1>8. IsFiniteSet(1..n)
  BY FS_Interval
<1>9. Resolved(Rows) \in SUBSET (1..n)
  BY <1>3 DEF Resolved
<1>10. IsFiniteSet(Resolved(Rows))
  BY <1>8, <1>9, FS_Subset
<1>11. \A j \in Resolved(Rows) : j \in 1..n /\ Rows[j].mib \in MIBs
  BY <1>3, <1>7 DEF Resolved
<1> QED BY <1>2, <1>3, <1>4, <1>6, <1>7, <1>8, <1>10, <1>11

\* The flat identifiers of the report are exact.
LEMMA FlatLemma == ASSUME ToolInv, ReportInv PROVE FlatExact
<1> DEFINE flat == flatMap(Rows)
           level(j, i) == IF i <= Len(Rows[j].mib) THEN Rows[j].mib[i] ELSE 0
           fits == {j \in Resolved(Rows) : /\ Len(Rows[j].mib) <= 4
                                           /\ \A v \in Range(Rows[j].mib) : v < LevelBase}
           id(j) == flattenMIB(Rows[j].mib)
           key == [j \in fits |-> id(j)]
<1>1. fits = Flattenable(Rows)
  BY DEF Flattenable, flattenableMIB
<1>2. fits \in SUBSET Resolved(Rows) /\ IsFiniteSet(fits) /\ IsFiniteSet(Resolved(Rows))
  <2>1. fits \in SUBSET Resolved(Rows)
    OBVIOUS
  <2> QED BY <2>1, RowsFacts, FS_Subset
<1>3. flat = [x \in {id(j) : j \in fits} |-> {j \in fits : id(j) = x}]
  BY <1>1 DEF flatMap, Group, Range
<1>4. ASSUME NEW j \in fits
      PROVE  /\ \A i \in 1..4 : level(j, i) \in Nat /\ level(j, i) < LevelBase
             /\ id(j) = Digits(level(j, 1), level(j, 2), level(j, 3), level(j, 4))
  <2> DEFINE m == Rows[j].mib
  <2>1. m \in MIBs /\ Len(m) <= 4 /\ \A v \in Range(m) : v < LevelBase
    BY RowsFacts
  <2> HIDE DEF m
  <2>2. /\ \A i \in 1..4 : Level(m, i) \in Nat
        /\ flattenMIB(m) = Digits(Level(m, 1), Level(m, 2), Level(m, 3), Level(m, 4))
    BY <2>1, FlatDigits
  <2>3. DOMAIN m = 1..Len(m) /\ Len(m) \in Nat
    BY <2>1, MibFacts
  <2>4. ASSUME NEW i \in 1..4 PROVE Level(m, i) < LevelBase
    <3>1. CASE i <= Len(m)
      <4>1. m[i] \in Range(m)
        BY <2>3, <3>1 DEF Range
      <4> QED BY <2>1, <3>1, <4>1 DEF Level
    <3>2. CASE ~(i <= Len(m))
      BY <3>2, PlaceFacts DEF Level
    <3> QED BY <3>1, <3>2
  <2>5. \A i : level(j, i) = Level(m, i)
    BY DEF Level, m
  <2>6. id(j) = flattenMIB(m)
    BY DEF m
  <2> HIDE DEF level, id
  <2> QED BY <2>2, <2>4, <2>5, <2>6
<1>5. \A x \in DOMAIN flat : x \in 0 .. LevelBase * LevelBase * LevelBase * LevelBase - 1
  <2> SUFFICES ASSUME NEW j \in fits
               PROVE  id(j) \in 0 .. LevelBase * LevelBase * LevelBase * LevelBase - 1
    <3> HIDE DEF id, fits, flat
    <3> QED BY <1>3
  <2> HIDE DEF id, level, fits
  <2>1. /\ level(j, 1) \in Nat /\ level(j, 2) \in Nat /\ level(j, 3) \in Nat /\ level(j, 4) \in Nat
        /\ level(j, 1) < LevelBase /\ level(j, 2) < LevelBase
        /\ level(j, 3) < LevelBase /\ level(j, 4) < LevelBase
    BY <1>4
  <2>2. Digits(level(j, 1), level(j, 2), level(j, 3), level(j, 4))
          \in 0 .. LevelBase * LevelBase * LevelBase * LevelBase - 1
    BY <2>1, DigitsRange
  <2> QED BY <1>4, <2>2
<1>6. ASSUME NEW a \in fits, NEW b \in fits
      PROVE  (\E x \in DOMAIN flat : {a, b} \subseteq flat[x])
                 <=> \A i \in 1 .. 4 : level(a, i) = level(b, i)
  <2>1. (\E x \in DOMAIN flat : {a, b} \subseteq flat[x]) <=> id(a) = id(b)
    <3> HIDE DEF id, fits, flat
    <3> QED BY <1>3
  <2>2. (\A i \in 1 .. 4 : level(a, i) = level(b, i)) => id(a) = id(b)
    <3> HIDE DEF id, level, fits
    <3> QED BY <1>4
  <2>3. ASSUME id(a) = id(b) PROVE \A i \in 1 .. 4 : level(a, i) = level(b, i)
    <3> HIDE DEF id, level, fits
    <3> DEFINE p == [i \in 1..4 |-> level(a, i)]
               q == [i \in 1..4 |-> level(b, i)]
    <3>1. \A i \in 1..4 : p[i] = level(a, i) /\ q[i] = level(b, i)
      OBVIOUS
    <3>2. p \in [1..4 -> Nat] /\ q \in [1..4 -> Nat]
      BY <1>4
    <3> HIDE DEF p, q
    <3>3. \A i \in 1..4 : p[i] < LevelBase /\ q[i] < LevelBase
      BY <1>4, <3>1
    <3>4. Digits(p[1], p[2], p[3], p[4]) = Digits(q[1], q[2], q[3], q[4])
      BY <1>4, <2>3, <3>1
    <3>5. \A i \in 1..4 : p[i] = q[i]
      BY <3>2, <3>3, <3>4, DigitsUnique
    <3> QED BY <3>1, <3>5
  <2> HIDE DEF id, level, fits, flat
  <2> QED BY <2>1, <2>2, <2>3
<1>7. SumFunction([x \in DOMAIN flat |-> Cardinality(flat[x])]) = Cardinality(fits)
  <2> DEFINE f == [x \in DOMAIN flat |-> Cardinality(flat[x])]
  <2>1. f = [x \in {key[j] : j \in fits} |-> Cardinality({j \in fits : key[j] = x})]
    <3>1. \A j \in fits : key[j] = id(j)
      OBVIOUS
    <3> HIDE DEF key, id, fits, flat
    <3>2. {key[j] : j \in fits} = {id(j) : j \in fits}
      BY <3>1
    <3>3. \A x : {j \in fits : key[j] = x} = {j \in fits : id(j) = x}
      BY <3>1
    <3>4. DOMAIN flat = {id(j) : j \in fits} /\ \A x \in DOMAIN flat : flat[x] = {j \in fits : id(j) = x}
      BY <1>3
    <3> QED BY <3>2, <3>3, <3>4
  <2> HIDE DEF f, key, fits, flat
  <2>2. SumFunction(f) = Cardinality(fits)
    BY <1>2, <2>1, SumPartition
  <2> QED BY <2>2 DEF f
<1>8. unflattenable(Rows) + Cardinality(fits) = Cardinality(Resolved(Rows))
  <2> DEFINE un == {j \in Resolved(Rows) : ~flattenableMIB(Rows[j].mib)}
  <2>1. unflattenable(Rows) = Cardinality(un)
    BY DEF unflattenable
  <2>2. un \cup fits = Resolved(Rows) /\ un \cap fits = {}
    BY <1>1 DEF Flattenable
  <2> HIDE DEF un, fits
  <2>3. Cardinality(un) + Cardinality(fits) = Cardinality(Resolved(Rows))
    BY <1>2, <2>2, SplitInTwo
  <2> QED BY <2>1, <2>3
<1>9. ASSUME NEW m \in Collisions(keyMap(Rows)), flattenableMIB(m)
      PROVE  flattenMIB(m) \in Collisions(flat)
  <2> DEFINE same == {j \in Resolved(Rows) : Rows[j].mib = m}
             under == {j \in fits : id(j) = flattenMIB(m)}
  <2>1. Cardinality(same) > 1 /\ \E j \in Resolved(Rows) : Rows[j].mib = m
    BY <1>9 DEF Collisions, keyMap, Group, Range
  <2>2. same \in SUBSET under
    BY <1>1, <1>9 DEF Flattenable
  <2>3. IsFiniteSet(under)
    <3>1. under \in SUBSET fits
      OBVIOUS
    <3> HIDE DEF under, fits
    <3> QED BY <1>2, <3>1, FS_Subset
  <2>4. Cardinality(under) > 1
    <3> HIDE DEF under, same
    <3>1. IsFiniteSet(same) /\ Cardinality(same) <= Cardinality(under)
      BY <2>2, <2>3, FS_Subset
    <3>2. Cardinality(same) \in Nat /\ Cardinality(under) \in Nat
      BY <2>3, <3>1, FS_CardinalityType
    <3> QED BY <2>1, <3>1, <3>2
  <2>5. flattenMIB(m) \in DOMAIN flat /\ flat[flattenMIB(m)] = under
    <3>1. PICK j \in fits : id(j) = flattenMIB(m)
      BY <2>1, <2>2
    <3> HIDE DEF id, fits, flat
    <3> QED BY <1>3, <3>1
  <2> HIDE DEF under, flat
  <2> QED BY <2>4, <2>5 DEF Collisions
<1> HIDE DEF flat, fits, key, level, id
<1>10. /\ \A x \in DOMAIN flat : x \in 0 .. LevelBase * LevelBase * LevelBase * LevelBase - 1
       /\ \A a, b \in fits :
             (\E x \in DOMAIN flat : {a, b} \subseteq flat[x])
                  <=> \A i \in 1 .. 4 : level(a, i) = level(b, i)
       /\ SumFunction([x \in DOMAIN flat |-> Cardinality(flat[x])]) = Cardinality(fits)
       /\ unflattenable(Rows) + Cardinality(fits) = Cardinality(Resolved(Rows))
       /\ \A m \in Collisions(keyMap(Rows)) :
              flattenableMIB(m) => flattenMIB(m) \in Collisions(flat)
  BY <1>5, <1>6, <1>7, <1>8, <1>9
<1> QED BY <1>10, Zenon DEF FlatExact, flat, fits, level

-----------------------------------------------------------------------------
(* The ranges. *)

RangeInfos == [min : Nat, max : Nat, count : Nat]
RangeTables == UNION {[S -> RangeInfos] : S \in SUBSET Nat}

\* Rows, as topRanges is given them.
IsReport(rows) ==
    /\ Len(rows) \in Nat /\ DOMAIN rows = 1..Len(rows)
    /\ \A j \in 1..Len(rows) : rows[j].mib \in MIBs \cup {Nil}

IsDeep(r) == r.mib # Nil /\ Len(r.mib) >= 2

\* One turn of the loop keeps a table a table.
LEMMA AddType ==
  ASSUME NEW v \in RangeTables, NEW mib \in MIBs, Len(mib) >= 2
  PROVE  /\ AddToRange(v, mib) \in RangeTables
         /\ DOMAIN AddToRange(v, mib) = DOMAIN v \cup {mib[1]}
         /\ \A t \in DOMAIN v : t # mib[1] => AddToRange(v, mib)[t] = v[t]
         /\ LET ri == AddToRange(v, mib)[mib[1]]
            IN  /\ ri.min <= mib[2] /\ mib[2] <= ri.max
                /\ mib[1] \notin DOMAIN v => ri.count = 1
                /\ mib[1] \in DOMAIN v => /\ ri.count = v[mib[1]].count + 1
                                          /\ ri.min <= v[mib[1]].min
                                          /\ v[mib[1]].max <= ri.max
<1>1. mib[1] \in Nat /\ mib[2] \in Nat
  BY MibFacts
<1>2. PICK a \in Nat, b \in Nat : a = mib[1] /\ b = mib[2]
  BY <1>1
<1>3. PICK S \in SUBSET Nat : v \in [S -> RangeInfos]
  BY DEF RangeTables
<1>4. PICK ri \in RangeInfos :
         ri = IF a \in S THEN v[a] ELSE [min |-> b, max |-> b, count |-> 0]
  <2>1. [min |-> b, max |-> b, count |-> 0] \in RangeInfos
    BY DEF RangeInfos
  <2>2. a \in S => v[a] \in RangeInfos
    BY <1>3
  <2> QED BY <2>1, <2>2, Zenon
<1> DEFINE new == [min |-> IF b < ri.min THEN b ELSE ri.min,
                   max |-> IF b > ri.max THEN b ELSE ri.max,
                   count |-> ri.count + 1]
<1>5. new \in RangeInfos
  BY <1>4 DEF RangeInfos
<1>6. /\ new.min <= b /\ b <= new.max /\ new.min <= ri.min /\ ri.max <= new.max
      /\ new.count = ri.count + 1
  BY <1>4 DEF RangeInfos
<1>7. AddToRange(v, mib) = [t \in S \cup {a} |-> IF t # a THEN v[t] ELSE new]
  BY <1>2, <1>3, <1>4 DEF AddToRange
<1>8. a \in S => ri = v[a]
  BY <1>4
<1>9. a \notin S => ri.count = 0
  BY <1>4
<1> HIDE DEF new
<1>10. AddToRange(v, mib) \in [S \cup {a} -> RangeInfos] /\ S \cup {a} \in SUBSET Nat
  BY <1>3, <1>5, <1>7
<1>11. AddToRange(v, mib)[a] = new /\ DOMAIN v = S
  BY <1>3, <1>7
<1>12. a \notin S => new.count = 1
  BY <1>6, <1>9
<1>13. \A t \in S : t # a => AddToRange(v, mib)[t] = v[t]
  BY <1>7
<1>14. AddToRange(v, mib) \in RangeTables /\ DOMAIN AddToRange(v, mib) = S \cup {a}
  BY <1>10 DEF RangeTables
<1> QED BY <1>2, <1>6, <1>8, <1>11, <1>12, <1>13, <1>14

\* topRanges, row by row.
RangesRun(h, rows) ==
    /\ DOMAIN h[0] = {} /\ topRanges(rows) = h[Len(rows)]
    /\ \A j \in 1..Len(rows) :
          h[j] = IF IsDeep(rows[j]) THEN AddToRange(h[j - 1], rows[j].mib) ELSE h[j - 1]

\* topRanges runs through all the rows.
LEMMA RangesTrace ==
  ASSUME NEW rows, IsReport(rows)
  PROVE  \E h \in [0..Len(rows) -> RangeTables] : RangesRun(h, rows)
<1>1. PICK n \in Nat : n = Len(rows) /\ \A j \in 1..n : rows[j].mib \in MIBs \cup {Nil}
  BY DEF IsReport
<1> DEFINE V == RangeTables
           op(v, j) == IF IsDeep(rows[j]) THEN AddToRange(v, rows[j].mib) ELSE v
           g == [j \in 1..n |-> [v \in V |-> op(v, j)]]
           Eq(f) == f = [j \in 0..n |->
                           IF j = 0 THEN << >>
                           ELSE IF rows[j].mib = Nil \/ Len(rows[j].mib) < 2 THEN f[j - 1]
                           ELSE AddToRange(f[j - 1], rows[j].mib)]
           C == CHOOSE f : Eq(f)
<1>2. topRanges(rows) = C[n]
  BY <1>1 DEF topRanges
<1>3. ASSUME NEW v \in V, NEW j \in 1..n PROVE op(v, j) \in V
  <2>1. CASE IsDeep(rows[j])
    <3>1. rows[j].mib \in MIBs /\ Len(rows[j].mib) >= 2
      BY <1>1, <2>1 DEF IsDeep
    <3> QED BY <2>1, <3>1, AddType
  <2>2. CASE ~IsDeep(rows[j])
    BY <2>2
  <2> QED BY <2>1, <2>2
<1>3a. ASSUME NEW j \in 1..n
       PROVE  rows[j].mib = Nil \/ Len(rows[j].mib) < 2 <=> ~IsDeep(rows[j])
  <2>1. CASE rows[j].mib = Nil
    BY <2>1 DEF IsDeep
  <2>2. CASE rows[j].mib # Nil
    <3>1. Len(rows[j].mib) \in Nat
      BY <1>1, <2>2, MibFacts
    <3>2. Len(rows[j].mib) < 2 <=> ~(Len(rows[j].mib) >= 2)
      BY <3>1
    <3> QED BY <2>2, <3>2 DEF IsDeep
  <2> QED BY <2>1, <2>2
<1>4. << >> \in V /\ DOMAIN << >> = {}
  <2>1. << >> \in [{} -> RangeInfos]
    OBVIOUS
  <2> QED BY <2>1 DEF RangeTables
<1>5. g \in Turns(1..n, V)
  <2> HIDE DEF V, op
  <2> QED BY <1>3 DEF Turns
<1>6. PICK h \in [0..n -> V] : Trace(h, n, << >>, g)
  <2> HIDE DEF V, g
  <2> QED BY <1>4, <1>5, TraceExists
<1>7. h[0] = << >> /\ \A j \in 1..n : h[j] = op(h[j - 1], j)
  <2>1. ASSUME NEW j \in 1..n PROVE h[j] = op(h[j - 1], j)
    <3> HIDE DEF op, V
    <3>1. h[j - 1] \in V
      OBVIOUS
    <3> QED BY <1>6, <3>1 DEF Trace
  <2> QED BY <1>6, <2>1 DEF Trace
<1>8. Eq(h)
  <2> HIDE DEF V
  <2>1. \A j \in 0..n : j # 0 => j \in 1..n
    OBVIOUS
  <2> QED BY <1>3a, <1>7, <2>1
<1>9. Eq(C)
  <2> HIDE DEF Eq
  <2> QED BY <1>8
<1> HIDE DEF C
<1>10. \A j \in 0..n : C[j] = IF j = 0 THEN << >>
                              ELSE IF rows[j].mib = Nil \/ Len(rows[j].mib) < 2 THEN C[j - 1]
                              ELSE AddToRange(C[j - 1], rows[j].mib)
  BY <1>9, Zenon
<1>10a. C[0] = << >> /\ \A j \in 1..n : C[j] = op(C[j - 1], j)
  BY <1>3a, <1>10
<1> DEFINE S == {j \in 0..n : C[j] = h[j]}
<1>11. \A j \in 0..n : j \in S
  <2>1. 0 \in S
    BY <1>7, <1>10a
  <2>2. ASSUME NEW j \in 1..n, j - 1 \in S PROVE j \in S
    <3>1. C[j - 1] = h[j - 1] /\ j \in 0..n
      BY <2>2
    <3>2. C[j] = h[j]
      BY <1>7, <1>10a, <3>1, Zenon
    <3> QED BY <3>1, <3>2
  <2> HIDE DEF S
  <2> QED BY <2>1, <2>2, UpTo, Zenon
<1>12. topRanges(rows) = h[n]
  BY <1>2, <1>11
<1>13. DOMAIN h[0] = {}
  BY <1>4, <1>7
<1> QED BY <1>1, <1>7, <1>12, <1>13 DEF V, RangesRun

\* The rows up to k that have a second level, those of them under t, ...
DeepUpTo(rows, k0) == {j \in 1..k0 : IsDeep(rows[j])}
DeepUnder(rows, k0, t) == {j \in DeepUpTo(rows, k0) : rows[j].mib[1] = t}

\* ... and a table that is right about them.
RangesRight(v, rows, k0) ==
    /\ DOMAIN v = {rows[j].mib[1] : j \in DeepUpTo(rows, k0)}
    /\ \A t \in DOMAIN v : v[t].count = Cardinality(DeepUnder(rows, k0, t))
    /\ \A j \in DeepUpTo(rows, k0) :
          v[rows[j].mib[1]].min <= rows[j].mib[2] /\ rows[j].mib[2] <= v[rows[j].mib[1]].max

\* There are finitely many of them.
LEMMA DeepFinite ==
  ASSUME NEW rows, NEW m \in Nat, NEW t
  PROVE  /\ IsFiniteSet(DeepUpTo(rows, m)) /\ IsFiniteSet(DeepUnder(rows, m, t))
         /\ Cardinality(DeepUnder(rows, m, t)) \in Nat
<1>1. IsFiniteSet(1..m)
  BY FS_Interval
<1>2. DeepUpTo(rows, m) \in SUBSET (1..m) /\ DeepUnder(rows, m, t) \in SUBSET (1..m)
  BY DEF DeepUpTo, DeepUnder
<1> QED BY <1>1, <1>2, FS_Subset, FS_CardinalityType

\* A turn keeps the table right.
LEMMA RangesTurn ==
  ASSUME NEW rows, IsReport(rows), NEW m \in 1..Len(rows), NEW v \in RangeTables,
         RangesRight(v, rows, m - 1)
  PROVE  RangesRight(IF IsDeep(rows[m]) THEN AddToRange(v, rows[m].mib) ELSE v, rows, m)
<1>0. Len(rows) \in Nat /\ m \in Nat /\ m - 1 \in Nat /\ rows[m].mib \in MIBs \cup {Nil}
  BY DEF IsReport
<1>1. CASE ~IsDeep(rows[m])
  <2>1. DeepUpTo(rows, m) = DeepUpTo(rows, m - 1)
    BY <1>0, <1>1 DEF DeepUpTo
  <2> QED BY <1>1, <2>1 DEF RangesRight, DeepUnder
<1>2. CASE IsDeep(rows[m])
  <2> DEFINE mib == rows[m].mib
             w == AddToRange(v, mib)
             D == DeepUpTo(rows, m - 1)
             E == DeepUpTo(rows, m)
  <2>1. mib \in MIBs /\ Len(mib) >= 2
    BY <1>0, <1>2 DEF IsDeep
  <2>2. E = D \cup {m} /\ m \notin D
    BY <1>0, <1>2 DEF DeepUpTo
  <2>3. PICK t \in Nat, b \in Nat : t = mib[1] /\ b = mib[2]
    BY <2>1, MibFacts
  <2>4. /\ w \in RangeTables /\ DOMAIN w = DOMAIN v \cup {t}
        /\ \A x \in DOMAIN v : x # t => w[x] = v[x]
        /\ w[t].min <= b /\ b <= w[t].max
        /\ t \notin DOMAIN v => w[t].count = 1
        /\ t \in DOMAIN v => w[t].count = v[t].count + 1 /\ w[t].min <= v[t].min /\ v[t].max <= w[t].max
    <3> HIDE DEF mib
    <3> QED BY <2>1, <2>3, AddType
  <2>5. /\ DOMAIN v = {rows[j].mib[1] : j \in D}
        /\ \A x \in DOMAIN v : v[x].count = Cardinality(DeepUnder(rows, m - 1, x))
        /\ \A j \in D : /\ v[rows[j].mib[1]].min <= rows[j].mib[2]
                        /\ rows[j].mib[2] <= v[rows[j].mib[1]].max
    BY DEF RangesRight
  <2>6. \A x : DeepUnder(rows, m, x) = IF x = t THEN DeepUnder(rows, m - 1, x) \cup {m}
                                       ELSE DeepUnder(rows, m - 1, x)
    BY <2>2, <2>3 DEF DeepUnder
  <2>7. m \notin DeepUnder(rows, m - 1, t)
    BY <2>2 DEF DeepUnder
  <2>8. Cardinality(DeepUnder(rows, m, t)) = Cardinality(DeepUnder(rows, m - 1, t)) + 1
    <3> DEFINE X == DeepUnder(rows, m - 1, t)
    <3>1. DeepUnder(rows, m, t) = X \cup {m}
      BY <2>6
    <3>2. IsFiniteSet(X) /\ m \notin X
      BY <1>0, <2>7, DeepFinite
    <3> HIDE DEF X
    <3>3. Cardinality(X \cup {m}) = Cardinality(X) + 1
      BY <3>2, FS_AddElement
    <3> QED BY <3>1, <3>3 DEF X
  <2>9. t \notin DOMAIN v => Cardinality(DeepUnder(rows, m - 1, t)) = 0
    <3> SUFFICES ASSUME t \notin DOMAIN v PROVE DeepUnder(rows, m - 1, t) = {}
      BY FS_EmptySet
    <3> QED BY <2>5 DEF DeepUnder
  <2>10. DOMAIN w = {rows[j].mib[1] : j \in E}
    <3>1. t = rows[m].mib[1]
      BY <2>3 DEF mib
    <3> HIDE DEF w, D, E, mib
    <3>2. {rows[j].mib[1] : j \in E} = {rows[j].mib[1] : j \in D} \cup {rows[m].mib[1]}
      BY <2>2, Zenon
    <3> QED BY <2>4, <2>5, <3>1, <3>2, Zenon
  <2>11. ASSUME NEW x \in DOMAIN w PROVE w[x].count = Cardinality(DeepUnder(rows, m, x))
    <3> HIDE DEF w, D, E, mib
    <3>1. CASE x # t
      BY <2>4, <2>5, <2>6, <2>11, <3>1
    <3>2. CASE x = t /\ t \in DOMAIN v
      BY <2>4, <2>5, <2>8, <3>2
    <3>3. CASE x = t /\ t \notin DOMAIN v
      BY <2>4, <2>8, <2>9, <3>3
    <3> QED BY <3>1, <3>2, <3>3
  <2>12. ASSUME NEW j \in E
         PROVE  w[rows[j].mib[1]].min <= rows[j].mib[2] /\ rows[j].mib[2] <= w[rows[j].mib[1]].max
    <3>1. CASE j = m
      BY <2>3, <2>4, <3>1
    <3>2. CASE j # m
      <4>1. j \in D /\ rows[j].mib[1] \in DOMAIN v
        BY <2>2, <2>5, <3>2
      <4>2. CASE rows[j].mib[1] # t
        <5> HIDE DEF w, D, E, mib
        <5> QED BY <2>4, <2>5, <4>1, <4>2
      <4>3. CASE rows[j].mib[1] = t
        <5>1. rows[j].mib[2] \in Nat
          <6>1. j \in 1..Len(rows) /\ IsDeep(rows[j])
            BY <1>0, <2>2, <4>1 DEF DeepUpTo
          <6>2. rows[j].mib \in MIBs /\ Len(rows[j].mib) >= 2
            BY <6>1 DEF IsReport, IsDeep
          <6> QED BY <6>2, MibFacts
        <5>2. w[t].min \in Nat /\ w[t].max \in Nat /\ v[t].min \in Nat /\ v[t].max \in Nat
          <6>1. \A y \in RangeTables : \A x \in DOMAIN y : y[x].min \in Nat /\ y[x].max \in Nat
            BY DEF RangeTables, RangeInfos
          <6> HIDE DEF w
          <6> QED BY <2>4, <4>1, <4>3, <6>1
        <5> HIDE DEF w, D, E, mib
        <5>3. v[t].min <= rows[j].mib[2] /\ rows[j].mib[2] <= v[t].max
          BY <2>5, <4>1, <4>3
        <5>4. w[t].min <= v[t].min /\ v[t].max <= w[t].max
          BY <2>4, <4>1, <4>3
        <5>5. w[t].min <= rows[j].mib[2] /\ rows[j].mib[2] <= w[t].max
          <6>1. PICK l \in Nat : l = rows[j].mib[2]
            BY <5>1
          <6>2. \A x, y, z \in Nat : x <= y /\ y <= z => x <= z
            OBVIOUS
          <6>3. w[t].min <= l /\ l <= w[t].max
            BY <5>2, <5>3, <5>4, <6>1, <6>2, Zenon
          <6> QED BY <6>1, <6>3, Zenon
        <5> QED BY <4>3, <5>5, Zenon
      <4> QED BY <4>2, <4>3
    <3> QED BY <3>1, <3>2
  <2>13. RangesRight(w, rows, m)
    BY <2>10, <2>11, <2>12 DEF RangesRight
  <2> HIDE DEF w
  <2> QED BY <1>2, <2>13 DEF w
<1> QED BY <1>1, <1>2

\* The ranges of the report are right.
LEMMA RangesCorrect ==
  ASSUME NEW rows, IsReport(rows)
  PROVE  RangesRight(topRanges(rows), rows, Len(rows))
<1>1. PICK n \in Nat : n = Len(rows)
  BY DEF IsReport
<1>2. PICK h \in [0..n -> RangeTables] : RangesRun(h, rows)
  BY <1>1, RangesTrace
<1>3. /\ DOMAIN h[0] = {} /\ topRanges(rows) = h[n]
      /\ \A j \in 1..n : h[j] = IF IsDeep(rows[j]) THEN AddToRange(h[j - 1], rows[j].mib) ELSE h[j - 1]
  BY <1>1, <1>2 DEF RangesRun
<1> DEFINE S == {j \in 0..n : RangesRight(h[j], rows, j)}
<1>4. 0 \in S
  <2>1. DeepUpTo(rows, 0) = {}
    BY DEF DeepUpTo
  <2> QED BY <1>3, <2>1 DEF RangesRight
<1>5. ASSUME NEW j \in 1..n, j - 1 \in S PROVE j \in S
  <2>1. RangesRight(h[j - 1], rows, j - 1) /\ h[j - 1] \in RangeTables /\ j \in 1..Len(rows)
    BY <1>1, <1>5
  <2>2. RangesRight(IF IsDeep(rows[j]) THEN AddToRange(h[j - 1], rows[j].mib) ELSE h[j - 1], rows, j)
    BY <2>1, RangesTurn, Zenon
  <2>3. RangesRight(h[j], rows, j)
    BY <1>3, <2>2, Zenon
  <2> QED BY <2>3
<1>6. \A j \in 0..n : j \in S
  <2> HIDE DEF S
  <2> QED BY <1>4, <1>5, UpTo, Zenon
<1> QED BY <1>1, <1>3, <1>6

-----------------------------------------------------------------------------
(* The summary. *)

\* A table that printSummary keeps, by some key of the rows, counts every row once.
LEMMA CountsAddUp ==
  ASSUME NEW S, IsFiniteSet(S), NEW key,
         NEW groups, groups = [x \in {key[j] : j \in S} |-> {j \in S : key[j] = x}]
  PROVE  SumFunction(Sizes(groups)) = Cardinality(S)
<1>1. Sizes(groups) = [x \in {key[j] : j \in S} |-> Cardinality({j \in S : key[j] = x})]
  BY DEF Sizes
<1> QED BY <1>1, SumPartition

\* The numbers of the top levels.
LEMMA TopLevels ==
  /\ {knownTopLevel[n] : n \in {"kern", "vm", "net", "hw", "debug", "machdep"}} = {1, 2, 4, 5, 6, 7}
  /\ Range(knownTopLevel) = {1, 2, 3, 4, 5, 6, 7, 8}
<1>1. DOMAIN knownTopLevel = {"kern", "vm", "vfs", "net", "debug", "hw", "machdep", "user"}
  BY DEF knownTopLevel
<1>2. /\ knownTopLevel["kern"] = 1 /\ knownTopLevel["vm"] = 2 /\ knownTopLevel["vfs"] = 3
      /\ knownTopLevel["net"] = 4 /\ knownTopLevel["debug"] = 5 /\ knownTopLevel["hw"] = 6
      /\ knownTopLevel["machdep"] = 7 /\ knownTopLevel["user"] = 8
  BY DEF knownTopLevel
<1>3. Range(knownTopLevel) = {1, 2, 3, 4, 5, 6, 7, 8}
  BY <1>1, <1>2 DEF Range
<1>4. {knownTopLevel[n] : n \in {"kern", "vm", "net", "hw", "debug", "machdep"}} = {1, 2, 4, 5, 6, 7}
  BY <1>2
<1> QED BY <1>3, <1>4

\* The parts of printSummary that count rows.
LEMMA CountsExact ==
  ASSUME ToolInv, ReportInv
  PROVE  LET sum == printSummary(Rows)
             ok == Resolved(Rows)
         IN  /\ sum.resolved + sum.failed = Len(results)
             /\ SumFunction(sum.depthCounts) = sum.resolved
             /\ SumFunction(sum.topCounts) = sum.resolved
             /\ sum.noConstant = Cardinality({j \in ok : Rows[j].xnu = "none"})
             /\ sum.resolved = Cardinality(ok)
<1> DEFINE sum == printSummary(Rows)
           ok == Resolved(Rows)
           all == DOMAIN Rows
           matched == {j \in all : Rows[j].xnu = "matched"}
           mismatched == {j \in all : Rows[j].xnu = "mismatched"}
           none == {j \in ok : Rows[j].xnu = "none"}
           failed == {j \in all : Rows[j].mib = Nil}
           depth == [j \in ok |-> Len(Rows[j].mib)]
           top == [j \in ok |-> Rows[j].top]
<1>1. /\ sum.resolved = Cardinality(ok) /\ sum.failed = Cardinality(failed)
      /\ sum.depthCounts = Sizes(Group(depth))
      /\ sum.topCounts = Sizes(Group(top))
      /\ sum.noConstant = Cardinality(ok) - Cardinality(matched) - Cardinality(mismatched)
  BY DEF printSummary
<1>2. IsFiniteSet(all) /\ IsFiniteSet(ok) /\ all = 1..Len(results) /\ Len(results) \in Nat
  BY RowsFacts
<1>3. sum.resolved + sum.failed = Len(results)
  <2>1. ok \cup failed = all /\ ok \cap failed = {}
    BY DEF Resolved
  <2>2. Cardinality(all) = Len(results)
    BY <1>2, FS_Interval
  <2> HIDE DEF ok, failed, all, sum
  <2>3. Cardinality(ok) + Cardinality(failed) = Cardinality(all)
    BY <1>2, <2>1, SplitInTwo
  <2> QED BY <1>1, <2>2, <2>3
<1>4. SumFunction(sum.depthCounts) = sum.resolved
  <2> DEFINE groups == Group(depth)
  <2>1. groups = [x \in {depth[j] : j \in ok} |-> {j \in ok : depth[j] = x}]
    BY DEF Group, Range
  <2> HIDE DEF ok, groups, depth
  <2>2. SumFunction(Sizes(groups)) = Cardinality(ok)
    BY <1>2, <2>1, CountsAddUp
  <2> HIDE DEF sum
  <2> QED BY <1>1, <2>2 DEF groups
<1>5. SumFunction(sum.topCounts) = sum.resolved
  <2> DEFINE groups == Group(top)
  <2>1. groups = [x \in {top[j] : j \in ok} |-> {j \in ok : top[j] = x}]
    BY DEF Group, Range
  <2> HIDE DEF ok, groups, top
  <2>2. SumFunction(Sizes(groups)) = Cardinality(ok)
    BY <1>2, <2>1, CountsAddUp
  <2> HIDE DEF sum
  <2> QED BY <1>1, <2>2 DEF groups
<1>6. sum.noConstant = Cardinality(none)
  <2>1. \A j \in all : /\ Rows[j].xnu \in {"none", "matched", "mismatched"}
                       /\ Rows[j].mib = Nil => Rows[j].xnu = "none"
    BY RowsFacts DEF RowShape
  <2> DEFINE const == matched \cup mismatched
  <2>2. none \cup const = ok /\ none \cap const = {} /\ matched \cap mismatched = {}
    BY <2>1 DEF Resolved
  <2>3. IsFiniteSet(const)
    <3>1. const \in SUBSET all
      OBVIOUS
    <3> HIDE DEF const, all
    <3> QED BY <1>2, <3>1, FS_Subset
  <2>4. matched \cup mismatched = const
    OBVIOUS
  <2> HIDE DEF sum, ok, all, none, matched, mismatched, const
  <2>5. /\ Cardinality(none) + Cardinality(const) = Cardinality(ok)
        /\ Cardinality(none) \in Nat /\ Cardinality(const) \in Nat /\ Cardinality(ok) \in Nat
    BY <1>2, <2>2, SplitInTwo
  <2>6. /\ Cardinality(matched) + Cardinality(mismatched) = Cardinality(const)
        /\ Cardinality(matched) \in Nat /\ Cardinality(mismatched) \in Nat
    BY <2>2, <2>3, <2>4, SplitInTwo
  <2>7. PICK a \in Nat, b \in Nat, c \in Nat, d \in Nat, e \in Nat :
           /\ a = Cardinality(none) /\ b = Cardinality(const) /\ c = Cardinality(ok)
           /\ d = Cardinality(matched) /\ e = Cardinality(mismatched)
    BY <2>5, <2>6
  <2>8. a + b = c /\ d + e = b
    BY <2>5, <2>6, <2>7
  <2>9. sum.noConstant = c - d - e
    BY <1>1, <2>7
  <2>10. c - d - e = a
    BY <2>8
  <2> QED BY <2>7, <2>9, <2>10
<1> QED BY <1>1, <1>3, <1>4, <1>5, <1>6

\* A verdict is a success or gives a reason.
LEMMA VerdictSays ==
  ASSUME NEW o \in Verdicts, o # Unvalidated
  PROVE  o.validated \/ o.err # ""
<1>1. \A e : Valid(e).validated = TRUE
  BY DEF Valid
<1>2. \A e : Invalid(e).err = e
  BY DEF Invalid
<1>3. CASE o \in {Valid(""), Valid("volatile")}
  BY <1>1, <1>3, Zenon
<1>4. CASE o \in {Invalid("mib read"), Invalid("name read"), Invalid("size mismatch")}
  <2>1. o.err \in {"mib read", "name read", "size mismatch"}
    BY <1>2, <1>4, Zenon
  <2>2. o.err # ""
    BY <2>1
  <2> QED BY <2>2
<1> QED BY <1>3, <1>4 DEF Verdicts

\* The validation statistics: a row with a MIB is OK or has failed.
LEMMA ValidationAddsUp ==
  ASSUME ToolInv, ReportInv, validate
  PROVE  validationStats.validOK + validationStats.validFail = Cardinality(Resolved(Rows))
<1> DEFINE ok == Resolved(Rows)
           good == {j \in ok : results[j].outcome.validated}
           bad == {j \in ok : ~results[j].outcome.validated /\ results[j].outcome.err # ""}
<1>1. validationStats.validOK = Cardinality(good) /\ validationStats.validFail = Cardinality(bad)
  BY DEF validationStats
<1>2. ASSUME NEW j \in ok PROVE results[j].outcome.validated \/ results[j].outcome.err # ""
  <2>1. results[j].outcome # Unvalidated /\ results[j].outcome \in Verdicts
    <3>1. j \in DOMAIN Rows /\ Rows[j].mib # Nil
      BY DEF Resolved
    <3>2. Rows[j] = results[j].row /\ RowShape(results[j]) /\ RowExact(results[j])
      BY <3>1, RowsFacts
    <3> QED BY <3>1, <3>2 DEF RowExact, RowShape
  <2> QED BY <2>1, VerdictSays
<1>3. good \cup bad = ok /\ good \cap bad = {}
  BY <1>2
<1>4. IsFiniteSet(ok)
  BY RowsFacts
<1> HIDE DEF good, bad, ok
<1>5. Cardinality(good) + Cardinality(bad) = Cardinality(ok)
  BY <1>3, <1>4, SplitInTwo
<1> QED BY <1>1, <1>5 DEF ok

\* The lines of the ranges.
LEMMA LinesAddUp ==
  ASSUME ToolInv, ReportInv
  PROVE  LET ranges == topRanges(Rows)
             deep == {j \in Resolved(Rows) : Len(Rows[j].mib) >= 2}
         IN  /\ \A j \in deep :
                   Rows[j].mib[2] \in ranges[Rows[j].mib[1]].min .. ranges[Rows[j].mib[1]].max
             /\ SumFunction([t \in RangeLines(Rows) |-> ranges[t].count])
                   = Cardinality({j \in deep : Rows[j].mib[1] \notin {3, 8}})
<1> DEFINE ranges == topRanges(Rows)
           deep == {j \in Resolved(Rows) : Len(Rows[j].mib) >= 2}
           shown == {j \in deep : Rows[j].mib[1] \notin {3, 8}}
           first == [j \in shown |-> Rows[j].mib[1]]
           lines == RangeLines(Rows)
           n == Len(Rows)
<1>1. IsReport(Rows) /\ n \in Nat /\ DOMAIN Rows = 1..n
  BY RowsFacts DEF IsReport
<1>2. deep = DeepUpTo(Rows, n)
  BY <1>1 DEF DeepUpTo, IsDeep, Resolved
<1>3. RangesRight(ranges, Rows, n)
  BY <1>1, RangesCorrect
<1>4. /\ DOMAIN ranges = {Rows[j].mib[1] : j \in deep}
      /\ \A t \in DOMAIN ranges : ranges[t].count = Cardinality({j \in deep : Rows[j].mib[1] = t})
      /\ \A j \in deep : /\ ranges[Rows[j].mib[1]].min <= Rows[j].mib[2]
                         /\ Rows[j].mib[2] <= ranges[Rows[j].mib[1]].max
  <2> HIDE DEF deep, ranges, n
  <2> QED BY <1>2, <1>3 DEF RangesRight, DeepUnder
<1>5. ranges \in RangeTables
  <2>1. PICK h \in [0..n -> RangeTables] : RangesRun(h, Rows)
    BY <1>1, RangesTrace
  <2> QED BY <1>1, <2>1 DEF RangesRun
<1>6. ASSUME NEW j \in deep
      PROVE  Rows[j].mib[1] \in Nat /\ Rows[j].mib[2] \in Nat
  BY RowsFacts, MibFacts
<1>7. ASSUME NEW j \in deep
      PROVE  Rows[j].mib[2] \in ranges[Rows[j].mib[1]].min .. ranges[Rows[j].mib[1]].max
  <2>1. \A t \in DOMAIN ranges : ranges[t].min \in Nat /\ ranges[t].max \in Nat
    <3> HIDE DEF ranges
    <3> QED BY <1>5 DEF RangeTables, RangeInfos
  <2>2. Rows[j].mib[1] \in DOMAIN ranges
    BY <1>4
  <2> HIDE DEF ranges, deep
  <2> QED BY <1>4, <1>6, <2>1, <2>2
<1>8. lines = {first[j] : j \in shown}
  <2>1. lines = {t \in DOMAIN ranges : t \in {1, 2, 4, 5, 6, 7} \/ t \notin {1, 2, 3, 4, 5, 6, 7, 8}}
    BY TopLevels DEF RangeLines
  <2>2. lines = {t \in DOMAIN ranges : t \notin {3, 8}}
    <3> HIDE DEF lines, ranges
    <3> QED BY <2>1
  <2>3. \A j \in shown : first[j] = Rows[j].mib[1]
    OBVIOUS
  <2> HIDE DEF lines, ranges, first, deep
  <2> QED BY <1>4, <2>2, <2>3
<1>9. [t \in lines |-> ranges[t].count]
        = [t \in {first[j] : j \in shown} |-> Cardinality({j \in shown : first[j] = t})]
  <2>1. ASSUME NEW t \in lines
        PROVE  ranges[t].count = Cardinality({j \in shown : first[j] = t})
    <3>1. t \in DOMAIN ranges /\ t \notin {3, 8}
      <4>1. PICK j \in shown : first[j] = t
        BY <1>8
      <4> QED BY <1>4, <4>1
    <3>2. {j \in shown : first[j] = t} = {j \in deep : Rows[j].mib[1] = t}
      BY <3>1
    <3> HIDE DEF ranges, first, deep, shown
    <3> QED BY <1>4, <3>1, <3>2
  <2> HIDE DEF ranges, first, deep, shown, lines
  <2> QED BY <1>8, <2>1
<1>10. IsFiniteSet(shown)
  <2>1. shown \in SUBSET Resolved(Rows)
    OBVIOUS
  <2> HIDE DEF shown
  <2> QED BY <2>1, RowsFacts, FS_Subset
<1>11. SumFunction([t \in lines |-> ranges[t].count]) = Cardinality(shown)
  <2> DEFINE f == [t \in lines |-> ranges[t].count]
  <2>1. f = [t \in {first[j] : j \in shown} |-> Cardinality({j \in shown : first[j] = t})]
    BY <1>9
  <2> HIDE DEF f, first, shown
  <2>2. SumFunction(f) = Cardinality(shown)
    BY <1>10, <2>1, SumPartition
  <2> QED BY <2>2 DEF f
<1> HIDE DEF ranges, deep, shown, lines
<1>12. /\ \A j \in deep :
             Rows[j].mib[2] \in ranges[Rows[j].mib[1]].min .. ranges[Rows[j].mib[1]].max
       /\ SumFunction([t \in lines |-> ranges[t].count]) = Cardinality(shown)
  BY <1>7, <1>11
<1> QED BY <1>12, Zenon DEF ranges, deep, shown, lines

\* The summary accounts for every entry.
LEMMA SummaryLemma == ASSUME ToolInv, ReportInv PROVE SummaryAccounts
<1> SUFFICES ASSUME pc = "done" PROVE SummaryAccounts
  BY DEF SummaryAccounts
<1> DEFINE sum == printSummary(Rows)
           ranges == topRanges(Rows)
           ok == Resolved(Rows)
           deep == {j \in ok : Len(Rows[j].mib) >= 2}
           counted == {j \in DOMAIN Known : Known[j] \notin Computed}
<1>1. Len(results) = Cardinality(counted)
  <2>1. Len(Known) \in Nat /\ DOMAIN Known = 1..Len(Known)
    BY Name2IntAssumption
  <2>2. k - 1 = Len(Known)
    BY <2>1 DEF ReportInv
  <2>3. counted = Hits(Known, Names, Len(Known))
    <3>1. \A j \in 1..Len(Known) : Known[j] \in Range(Known)
      BY <2>1 DEF Range
    <3> QED BY <2>1, <3>1 DEF Hits, Names
  <2> HIDE DEF counted
  <2> QED BY <2>2, <2>3 DEF ReportInv
<1>2. /\ sum.resolved + sum.failed = Len(results)
      /\ SumFunction(sum.depthCounts) = sum.resolved
      /\ SumFunction(sum.topCounts) = sum.resolved
      /\ sum.noConstant = Cardinality({j \in ok : Rows[j].xnu = "none"})
      /\ sum.resolved = Cardinality(ok)
  BY CountsExact, Zenon
<1>3. /\ \A j \in deep :
            Rows[j].mib[2] \in ranges[Rows[j].mib[1]].min .. ranges[Rows[j].mib[1]].max
      /\ SumFunction([t \in RangeLines(Rows) |-> ranges[t].count])
            = Cardinality({j \in deep : Rows[j].mib[1] \notin {3, 8}})
  BY LinesAddUp, Zenon
<1>4. validate => validationStats.validOK + validationStats.validFail = sum.resolved
  <2> HIDE DEF sum
  <2> QED BY <1>2, ValidationAddsUp
<1>5. sum.resolved + sum.failed = Cardinality(counted)
  <2> HIDE DEF sum, counted
  <2> QED BY <1>1, <1>2
<1> HIDE DEF sum, ranges, ok, deep, counted
<1>6. /\ sum.resolved + sum.failed = Cardinality(counted)
      /\ SumFunction(sum.depthCounts) = sum.resolved
      /\ SumFunction(sum.topCounts) = sum.resolved
      /\ sum.noConstant = Cardinality({j \in ok : Rows[j].xnu = "none"})
      /\ validate => validationStats.validOK + validationStats.validFail = sum.resolved
      /\ \A j \in deep : Rows[j].mib[2] \in ranges[Rows[j].mib[1]].min .. ranges[Rows[j].mib[1]].max
      /\ SumFunction([t \in RangeLines(Rows) |-> ranges[t].count])
            = Cardinality({j \in deep : Rows[j].mib[1] \notin {3, 8}})
  BY <1>2, <1>3, <1>4, <1>5, Zenon
<1> QED BY <1>6, Zenon DEF SummaryAccounts, sum, ranges, ok, deep, counted

-----------------------------------------------------------------------------
(* The theorems about the report. *)

\* For every table of names and all their MIBs: flattenMIB gives two of them the same
\* identifier exactly if they are the same but for zeros at the end, and
\* analyzeFlattenability reports the collisions and no others.
THEOREM FlatIsExact == Spec => []FlatExact
<1>1. ToolInv /\ ReportInv => FlatExact
  BY FlatLemma
<1> QED BY <1>1, ReportCorrect, PTL

\* For every table of names and all their MIBs: printSummary and analyzeFlattenability
\* count every entry that is not computed exactly once in every breakdown, but for
\* the ranges of vfs and user.
THEOREM SummaryIsComplete == Spec => []SummaryAccounts
<1>1. ToolInv /\ ReportInv => SummaryAccounts
  BY SummaryLemma
<1> QED BY <1>1, ReportCorrect, PTL
=============================================================================
