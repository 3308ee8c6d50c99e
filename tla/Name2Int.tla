------------------------------ MODULE Name2Int ------------------------------
(***************************************************************************)
(* cmd/darwin-name2int: resolves every Known name to its MIB, compares the *)
(* MIB with the constants of the XNU headers, reads the value both by MIB  *)
(* and by name while the kernel goes on changing it, and reports whether   *)
(* the MIBs could serve as flat integer identifiers.                       *)
(*                                                                         *)
(* A level of a MIB has LevelBase values in a flat identifier: 2^16 in the *)
(* program.  How a row or a number is printed is left out.                 *)
(***************************************************************************)
EXTENDS Integers, Sequences, SequencesExt, FiniteSetsExt, Functions, TLC

CONSTANTS
    Known,        \* the names of metrics.Known, in order
    Computed,     \* those of TypeComputed
    MibOf,        \* the kernel's MIB for a name, or Nil
    Volatile,     \* names whose value changes
    Lens,         \* lengths their values may have
    LevelBase,
    Nil,          \* no MIB; no value
    MaxChanges    \* bound of the model: changes of values

ASSUME Name2IntAssumption ==
    /\ LevelBase \in Nat \ {0} /\ MaxChanges \in Nat
    /\ Known \in Seq(STRING) /\ Known # << >>
    /\ Volatile \subseteq Range(Known) \ Computed
    /\ Lens \subseteq Nat /\ Nil \notin [ver : Nat, len : Lens]
    /\ Nil \notin Seq(Nat)
    /\ \A n \in Range(Known) \ Computed : MibOf[n] \in (Seq(Nat) \ {<< >>}) \cup {Nil}

knownTopLevel ==
    [kern |-> 1, vm |-> 2, vfs |-> 3, net |-> 4, debug |-> 5, hw |-> 6, machdep |-> 7,
     user |-> 8]

knownKern ==
    "kern.ostype" :> 1 @@ "kern.osrelease" :> 2 @@ "kern.osrev" :> 3 @@
    "kern.version" :> 4 @@ "kern.maxvnodes" :> 5 @@ "kern.maxproc" :> 6 @@
    "kern.maxfiles" :> 7 @@ "kern.argmax" :> 8 @@ "kern.securelevel" :> 9 @@
    "kern.hostname" :> 10 @@ "kern.hostid" :> 11 @@ "kern.clockrate" :> 12 @@
    "kern.boottime" :> 21 @@ "kern.nisdomainname" :> 22 @@
    "kern.maxfilesperproc" :> 29 @@ "kern.maxprocperuid" :> 30 @@ "kern.ipc" :> 32 @@
    "kern.aiomax" :> 46 @@ "kern.aioprocmax" :> 47 @@ "kern.corefile" :> 50 @@
    "kern.coredump" :> 51 @@ "kern.osversion" :> 65 @@ "kern.safeboot" :> 66

knownHW ==
    "hw.machine" :> 1 @@ "hw.model" :> 2 @@ "hw.ncpu" :> 3 @@ "hw.byteorder" :> 4 @@
    "hw.pagesize" :> 7 @@ "hw.memsize" :> 24 @@ "hw.availcpu" :> 25

knownVM   == "vm.loadavg" :> 2 @@ "vm.swapusage" :> 5
knownKIPC == "kern.ipc.maxsockbuf" :> 1 @@ "kern.ipc.somaxconn" :> 3

\* The tables in the order matchXNU tries them, each with the MIB it is under.
XnuTables ==
    <<[under |-> <<1>>, sub |-> knownKern], [under |-> <<6>>, sub |-> knownHW],
      [under |-> <<2>>, sub |-> knownVM], [under |-> <<1, 32>>, sub |-> knownKIPC]>>

matchXNU(name, mib) ==
    LET tables == SelectSeq(XnuTables, LAMBDA t : name \in DOMAIN t.sub)
    IN  IF tables = << >> THEN "none"
        ELSE IF IsPrefix(Append(tables[1].under, tables[1].sub[name]), mib)
        THEN "matched" ELSE "mismatched"

\* The name of the first level, with its number: "unknown(%d)" shows it.
TopLevel(mib) ==
    LET names == {n \in DOMAIN knownTopLevel : knownTopLevel[n] = mib[1]}
    IN  <<IF names = {} THEN "unknown" ELSE CHOOSE n \in names : TRUE, mib[1]>>

Failed(name) == [name |-> name, mib |-> Nil, top |-> <<"", 0>>, xnu |-> "none"]
Row(name, mib) ==
    [name |-> name, mib |-> mib, top |-> TopLevel(mib), xnu |-> matchXNU(name, mib)]

Valid(err)   == [validated |-> TRUE, err |-> err]
Invalid(err) == [validated |-> FALSE, err |-> err]
Unvalidated  == Invalid("")

-----------------------------------------------------------------------------
VARIABLES
    validate,    \* the -validate flag
    pc,
    k,           \* the loop of main, over Known
    attempt,     \* the loop of validateReads
    mibRaw,      \* what the read by MIB returned
    results,     \* results of main; each with its outcome of validateReads and,
                 \* for the properties, how often the value changed meanwhile
    value,       \* value[n]: version and length of the kernel's value, or Nil
    changes,     \* changes of values so far
    changed,     \* changes of Known[k]'s since its validation began
    grew         \* it has become longer since the last read

vars == <<validate, pc, k, attempt, mibRaw, results, value, changes, changed, grew>>

Names == Range(Known) \ Computed

Init ==
    /\ validate \in BOOLEAN
    /\ pc = "loop" /\ k = 1 /\ attempt = 0 /\ mibRaw = Nil /\ results = << >>
    /\ value \in {[n \in Names |-> [ver |-> 0, len |-> l]] : l \in Lens}
    /\ changes = 0 /\ changed = 0 /\ grew = FALSE

KernelChange ==
    \E n \in Volatile, v \in {Nil} \cup {[ver |-> changes + 1, len |-> l] : l \in Lens} :
        /\ changes < MaxChanges /\ pc # "done" /\ value[n] # v
        /\ value' = [value EXCEPT ![n] = v]
        /\ changes' = changes + 1
        /\ IF n = Known[k] /\ pc \in {"mib", "name"}
           THEN /\ changed' = changed + 1
                /\ grew' = (grew \/ (Nil \notin {v, value[n]} /\ v.len > value[n].len))
           ELSE UNCHANGED <<changed, grew>>
        /\ UNCHANGED <<validate, pc, k, attempt, mibRaw, results>>

Kernel == <<value, changes>>

\* The row of Known[k] is complete; the loop of main goes on.
Emit(row, outcome) ==
    /\ results' = Append(results, [row |-> row, outcome |-> outcome, changed |-> changed])
    /\ k' = k + 1
    /\ pc' = IF k < Len(Known) THEN "loop" ELSE "done"
    /\ attempt' = 0 /\ mibRaw' = Nil /\ changed' = 0 /\ grew' = FALSE
    /\ UNCHANGED <<validate, Kernel>>

SkipComputed ==
    /\ pc = "loop" /\ Known[k] \in Computed
    /\ k' = k + 1
    /\ pc' = IF k < Len(Known) THEN "loop" ELSE "done"
    /\ UNCHANGED <<validate, attempt, mibRaw, results, Kernel, changed, grew>>

ResolveFails ==
    /\ pc = "loop" /\ Known[k] \notin Computed /\ MibOf[Known[k]] = Nil
    /\ Emit(Failed(Known[k]), Unvalidated)

Resolve ==
    /\ pc = "loop" /\ Known[k] \notin Computed /\ MibOf[Known[k]] # Nil
    /\ IF validate THEN /\ pc' = "mib"
                        /\ UNCHANGED <<validate, k, attempt, mibRaw, results, Kernel,
                                       changed, grew>>
       ELSE Emit(Row(Known[k], MibOf[Known[k]]), Unvalidated)

Verdict(outcome) == Emit(Row(Known[k], MibOf[Known[k]]), outcome)

\* A read fails if the value is gone, or has grown between its two calls.
ReadError == value[Known[k]] = Nil \/ grew

\* cache.GetRaw
MibRead ==
    /\ pc = "mib"
    /\ \/ ReadError /\ Verdict(Invalid("mib read"))
       \/ /\ value[Known[k]] # Nil
          /\ mibRaw' = value[Known[k]]
          /\ pc' = "name" /\ grew' = FALSE
          /\ UNCHANGED <<validate, k, attempt, results, Kernel, changed>>

\* Mutant: one attempt.
CompareOnce(nameRaw) ==
    IF mibRaw = nameRaw THEN Verdict(Valid(""))
    ELSE IF mibRaw.len # nameRaw.len THEN Verdict(Invalid("size mismatch"))
    ELSE Verdict(Valid("volatile"))

Compare(nameRaw) ==
    IF mibRaw = nameRaw THEN Verdict(Valid(""))
    ELSE IF mibRaw.len # nameRaw.len THEN Verdict(Invalid("size mismatch"))
    ELSE IF attempt = 2 THEN Verdict(Valid("volatile"))
    ELSE /\ attempt' = attempt + 1
         /\ pc' = "mib" /\ grew' = FALSE
         /\ UNCHANGED <<validate, k, mibRaw, results, Kernel, changed>>

\* macosasmsysctl.GetRaw, and what validateReads makes of the pair.
NameRead ==
    /\ pc = "name"
    /\ \/ ReadError /\ Verdict(Invalid("name read"))
       \/ value[Known[k]] # Nil /\ Compare(value[Known[k]])

Next == KernelChange \/ SkipComputed \/ ResolveFails \/ Resolve \/ MibRead \/ NameRead

Spec == Init /\ [][Next]_vars

-----------------------------------------------------------------------------
(* printSummary and analyzeFlattenability. *)

Rows == [j \in DOMAIN results |-> results[j].row]

\* The positions of the rows that have a MIB.
Resolved(rows) == {j \in DOMAIN rows : rows[j].mib # Nil}

\* The rows that have a key, under each key, as the maps of the report collect
\* their names or count them; a row stands for its name.
Group(key) == [x \in Range(key) |-> {j \in DOMAIN key : key[j] = x}]
Sizes(groups) == [x \in DOMAIN groups |-> Cardinality(groups[x])]
Collisions(groups) == {x \in DOMAIN groups : Cardinality(groups[x]) > 1}

printSummary(rows) ==
    LET ok == Resolved(rows)
        matched == Cardinality({j \in DOMAIN rows : rows[j].xnu = "matched"})
        mismatched == Cardinality({j \in DOMAIN rows : rows[j].xnu = "mismatched"})
    IN  [resolved    |-> Cardinality(ok),
         failed      |-> Cardinality({j \in DOMAIN rows : rows[j].mib = Nil}),
         depthCounts |-> Sizes(Group([j \in ok |-> Len(rows[j].mib)])),
         topCounts   |-> Sizes(Group([j \in ok |-> rows[j].top])),
         matched     |-> matched,
         mismatched  |-> mismatched,
         noConstant  |-> Cardinality(ok) - matched - mismatched]

validationStats ==
    LET ok == Resolved(Rows)
        outcome(j) == results[j].outcome
    IN  [validOK   |-> Cardinality({j \in ok : outcome(j).validated}),
         validFail |-> Cardinality({j \in ok : ~outcome(j).validated /\ outcome(j).err # ""})]

flattenableMIB(mib) == Len(mib) <= 4 /\ \A v \in Range(mib) : v < LevelBase

\* What a shift by 48, 32, 16 and 0 bits multiplies by.
Places == <<LevelBase * LevelBase * LevelBase, LevelBase * LevelBase, LevelBase, 1>>

\* Mutant: the last level, not the first, has a fixed place.
flattenMIBPacked(mib) == FoldLeft(LAMBDA flat, v : flat * LevelBase + v, 0, mib)

\* The levels do not overlap, so that the or is a sum.
flattenMIB(mib) ==
    LET flat[j \in 0 .. Len(mib)] == IF j = 0 THEN 0 ELSE flat[j - 1] + mib[j] * Places[j]
    IN  flat[Len(mib)]

Flattenable(rows) == {j \in Resolved(rows) : flattenableMIB(rows[j].mib)}

keyMap(rows)  == Group([j \in Resolved(rows) |-> rows[j].mib])
flatMap(rows) == Group([j \in Flattenable(rows) |-> flattenMIB(rows[j].mib)])
unflattenable(rows) == Cardinality({j \in Resolved(rows) : ~flattenableMIB(rows[j].mib)})

\* Mutant: the first metric of a top level is not counted.
AddToRangeFirstFree(ranges, mib) ==
    LET ri == IF mib[1] \in DOMAIN ranges THEN ranges[mib[1]]
              ELSE [min |-> mib[2], max |-> mib[2], count |-> -1]
    IN  [t \in DOMAIN ranges \cup {mib[1]} |->
            IF t # mib[1] THEN ranges[t]
            ELSE [min |-> IF mib[2] < ri.min THEN mib[2] ELSE ri.min,
                  max |-> IF mib[2] > ri.max THEN mib[2] ELSE ri.max,
                  count |-> ri.count + 1]]

AddToRange(ranges, mib) ==
    LET ri == IF mib[1] \in DOMAIN ranges THEN ranges[mib[1]]
              ELSE [min |-> mib[2], max |-> mib[2], count |-> 0]
    IN  [t \in DOMAIN ranges \cup {mib[1]} |->
            IF t # mib[1] THEN ranges[t]
            ELSE [min |-> IF mib[2] < ri.min THEN mib[2] ELSE ri.min,
                  max |-> IF mib[2] > ri.max THEN mib[2] ELSE ri.max,
                  count |-> ri.count + 1]]

topRanges(rows) ==
    LET ranges[j \in 0 .. Len(rows)] ==
            IF j = 0 THEN << >>
            ELSE IF rows[j].mib = Nil \/ Len(rows[j].mib) < 2 THEN ranges[j - 1]
            ELSE AddToRange(ranges[j - 1], rows[j].mib)
    IN  ranges[Len(rows)]

\* The top levels a line of ranges is printed for: six of the known ones by
\* name, then those that knownTopLevel does not have.
RangeLines(rows) ==
    {t \in DOMAIN topRanges(rows) :
        \/ t \in {knownTopLevel[n] : n \in {"kern", "vm", "net", "hw", "debug", "machdep"}}
        \/ t \notin Range(knownTopLevel)}

-----------------------------------------------------------------------------
\* validateReads judges the mapping and not the clock: a value that did not
\* change while it was validated is validated, or was not there at all; a
\* failure needs a change, "volatile" one in each of the three attempts.
ValidationExact ==
    \A r \in Range(results) : validate /\ r.row.mib # Nil =>
        /\ r.outcome # Unvalidated
        /\ r.outcome = Valid("volatile") => r.changed >= 3
        /\ r.changed = 0 => \/ r.outcome = Valid("")
                            \/ r.outcome = Invalid("mib read") /\ r.row.name \in Volatile
        /\ r.outcome \in {Invalid("size mismatch"), Invalid("name read")} => r.changed >= 1

\* Every entry of Known that the kernel answers for is counted once in every
\* breakdown of the summary: by depth, by top level, by header constant, by outcome
\* of the validation, and by range of its second level - unless it is under vfs or
\* user, which have no range line.
SummaryAccounts ==
    pc = "done" =>
        LET sum == printSummary(Rows)
            ranges == topRanges(Rows)
            ok == Resolved(Rows)
            mib(j) == Rows[j].mib
            deep == {j \in ok : Len(mib(j)) >= 2}
        IN /\ sum.resolved + sum.failed = Cardinality({j \in DOMAIN Known : Known[j] \notin Computed})
           /\ SumFunction(sum.depthCounts) = sum.resolved
           /\ SumFunction(sum.topCounts) = sum.resolved
           /\ sum.noConstant = Cardinality({j \in ok : Rows[j].xnu = "none"})
           /\ validate => validationStats.validOK + validationStats.validFail = sum.resolved
           /\ \A j \in deep : mib(j)[2] \in ranges[mib(j)[1]].min .. ranges[mib(j)[1]].max
           /\ SumFunction([t \in RangeLines(Rows) |-> ranges[t].count])
                 = Cardinality({j \in deep : mib(j)[1] \notin {3, 8}})

\* Two names share a flat identifier exactly if their MIBs are the same but for
\* zeros at the end; those printed as collisions are the shared ones; and what
\* is printed as flattenable, which counts identifiers and not names, is short
\* of the names by what the collisions swallow.
FlatExact ==
    LET flat == flatMap(Rows)
        level(j, i) == IF i <= Len(Rows[j].mib) THEN Rows[j].mib[i] ELSE 0
        fits == {j \in Resolved(Rows) : /\ Len(Rows[j].mib) <= 4
                                        /\ \A v \in Range(Rows[j].mib) : v < LevelBase}
    IN  /\ \A id \in DOMAIN flat :
              id \in 0 .. LevelBase * LevelBase * LevelBase * LevelBase - 1
        /\ \A a, b \in fits :
              (\E id \in DOMAIN flat : {a, b} \subseteq flat[id])
                  <=> \A i \in 1 .. 4 : level(a, i) = level(b, i)
        /\ SumFunction([id \in DOMAIN flat |-> Cardinality(flat[id])]) = Cardinality(fits)
        /\ unflattenable(Rows) + Cardinality(fits) = Cardinality(Resolved(Rows))
        /\ \A m \in Collisions(keyMap(Rows)) :
              flattenableMIB(m) => flattenMIB(m) \in Collisions(flat)
=============================================================================
