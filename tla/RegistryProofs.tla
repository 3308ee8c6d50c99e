--------------------------- MODULE RegistryProofs ---------------------------
(***************************************************************************)
(* Theorems about Registry, and about Client, which shares its server: for *)
(* every Known table, whatever happens to the registry file.               *)
(***************************************************************************)
EXTENDS Client, FoldProofs

Entries     == [name : KnownNames \cup {Stray}, kernel : Patterns \cup {Nil},
                rec : Patterns \cup {Nil}]
Cats        == {info.cat : info \in Range(Known)}
FullEntries == [name : KnownNames, cat : Cats, kernel : Patterns \cup {Nil},
                rec : Patterns \cup {Nil}]

\* The inductive invariant: the file and what was loaded are lists of entries, and
\* what is served is the merge of what was loaded.
RegistryInv ==
    /\ file \in Seq(Entries)
    /\ kernelRegistry = Nil \/ kernelRegistry \in Seq(Entries)
    /\ fullRegistry = << >> \/ fullRegistry = FullRegistry(kernelRegistry)

-----------------------------------------------------------------------------
(* The generator and the edits. *)

\* The generator writes an entry for each metric it is given.
LEMMA GeneratedType ==
  ASSUME NEW info \in Range(Known)
  PROVE  Generated(info) \in Entries
<1>1. info.name \in KnownNames
  BY DEF KnownNames
<1>2. ASSUME NEW p \in PatternNames PROVE Bare(p) \in Patterns
  BY DEF Bare, Patterns, NoTtl
<1>3. ASSUME NEW n \in Nat PROVE Sec(n) \in Patterns
  BY DEF Sec, Patterns, PatternNames
<1>4. classifyKernel(info.name, info.cat) \in PatternNames
  BY DEF classifyKernel, PatternNames
<1>5. /\ [pattern |-> "CONSTRAINED", ttl |-> 60000] \in Patterns
      /\ Bare("STATIC") \in Patterns /\ Bare("DYNAMIC") \in Patterns
  BY DEF Patterns, PatternNames, Bare, NoTtl
<1>6. classifyRecommended(info.name, info.cat) \in Patterns
  BY <1>3, <1>5 DEF classifyRecommended
<1>7. Bare(classifyKernel(info.name, info.cat)) \in Patterns
  BY <1>2, <1>4
<1> QED BY <1>1, <1>6, <1>7 DEF Generated, Entries

\* An edit leaves a list of entries.
LEMMA EditType ==
  ASSUME file \in Seq(Entries),
         RemoveEntry \/ CopyEntry \/ RenameEntry \/ SetRecommended \/ UnsetKernel \/ Garble
  PROVE  file' \in Seq(Entries)
<1> USE DEF Edit
<1>1. ASSUME NEW k \in Spots PROVE k \in 1..Len(file) /\ file[k] \in Entries
  BY DEF Spots
<1>2. CASE RemoveEntry
  <2>1. PICK k \in Spots : file' = RemoveAt(file, k)
    BY <1>2 DEF RemoveEntry
  <2>2. SubSeq(file, 1, k - 1) \in Seq(Entries) /\ SubSeq(file, k + 1, Len(file)) \in Seq(Entries)
    BY <1>1, SubSeqProperties
  <2> QED BY <2>1, <2>2 DEF RemoveAt
<1>3. CASE CopyEntry
  <2>1. PICK k \in Spots : file' = Append(file, file[k])
    BY <1>3 DEF CopyEntry
  <2> QED BY <1>1, <2>1
<1>4. ASSUME NEW k \in Spots, NEW e \in Entries, file' = [file EXCEPT ![k] = e]
      PROVE  file' \in Seq(Entries)
  BY <1>1, <1>4
<1>5. CASE RenameEntry
  <2>1. PICK k \in Spots : file' = [file EXCEPT ![k] = [file[k] EXCEPT !.name = Stray]]
    BY <1>5 DEF RenameEntry
  <2>2. [file[k] EXCEPT !.name = Stray] \in Entries
    BY <1>1 DEF Entries
  <2> QED BY <1>4, <2>1, <2>2
<1>6. CASE SetRecommended
  <2>1. PICK k \in Spots, a \in {Nil} \cup [pattern : {"POLLED"}, ttl : EditTtls \cup {NoTtl}] :
          file' = [file EXCEPT ![k] = [file[k] EXCEPT !.rec = a]]
    BY <1>6 DEF SetRecommended
  <2>2. a \in Patterns \cup {Nil}
    <3>1. \A t \in EditTtls \cup {NoTtl} : t \in Int
      BY RegistryAssumption DEF NoTtl
    <3>2. CASE a \in [pattern : {"POLLED"}, ttl : EditTtls \cup {NoTtl}]
      BY <3>1, <3>2 DEF Patterns, PatternNames
    <3> QED BY <3>2
  <2>3. [file[k] EXCEPT !.rec = a] \in Entries
    BY <1>1, <2>2 DEF Entries
  <2> QED BY <1>4, <2>1, <2>3
<1>7. CASE UnsetKernel
  <2>1. PICK k \in Spots : file' = [file EXCEPT ![k] = [file[k] EXCEPT !.kernel = Nil]]
    BY <1>7 DEF UnsetKernel
  <2>2. [file[k] EXCEPT !.kernel = Nil] \in Entries
    BY <1>1 DEF Entries
  <2> QED BY <1>4, <2>1, <2>2
<1>8. CASE Garble
  BY <1>8 DEF Garble
<1> QED BY <1>2, <1>3, <1>5, <1>6, <1>7, <1>8

-----------------------------------------------------------------------------
(* The merge. *)

Own(reg, n) == IF reg = Nil THEN {} ELSE {e \in Range(reg) : e.name = n}

\* buildFullRegistry looks an entry up by name, and finds one if there is one.
LEMMA MergeFacts ==
  ASSUME NEW reg, reg = Nil \/ reg \in Seq(Entries), NEW k \in DOMAIN Known
  PROVE  LET km == FullRegistry(reg)[k]
         IN  /\ km \in FullEntries
             /\ km.name = Known[k].name /\ km.cat = Known[k].cat
             /\ IF Own(reg, Known[k].name) = {}
                THEN km.kernel = Bare("DYNAMIC") /\ km.rec = Bare("DYNAMIC")
                ELSE \E e \in Own(reg, Known[k].name) : km.kernel = e.kernel /\ km.rec = e.rec
<1> DEFINE n  == Known[k].name
           km == FullRegistry(reg)[k]
           byName == IF reg = Nil THEN << >> ELSE KernelRegistryByName(reg)
<1>1. n \in KnownNames /\ Known[k].cat \in Cats
  <2>1. Known[k] \in Range(Known)
    BY DEF Range
  <2> QED BY <2>1 DEF KnownNames, Cats
<1>2. Bare("DYNAMIC") \in Patterns
  BY DEF Bare, Patterns, PatternNames, NoTtl
<1>3. km = [name |-> n, cat |-> Known[k].cat,
            kernel |-> IF n \in DOMAIN byName THEN byName[n].kernel ELSE Bare("DYNAMIC"),
            rec    |-> IF n \in DOMAIN byName THEN byName[n].rec ELSE Bare("DYNAMIC")]
  BY DEF FullRegistry
<1>4. CASE n \notin DOMAIN byName
  <2>1. Own(reg, n) = {}
    <3>1. CASE reg = Nil
      BY <3>1 DEF Own
    <3>2. CASE reg # Nil
      <4>1. n \notin {e.name : e \in Range(reg)}
        BY <1>4, <3>2 DEF KernelRegistryByName
      <4> QED BY <3>2, <4>1 DEF Own
    <3> QED BY <3>1, <3>2
  <2>2. /\ km.name = n /\ km.cat = Known[k].cat
        /\ km.kernel = Bare("DYNAMIC") /\ km.rec = Bare("DYNAMIC")
    BY <1>3, <1>4
  <2>3. km \in FullEntries
    BY <1>1, <1>2, <1>3, <1>4 DEF FullEntries
  <2> QED BY <2>1, <2>2, <2>3
<1>5. CASE n \in DOMAIN byName
  <2>1. reg # Nil /\ reg \in Seq(Entries) /\ byName = KernelRegistryByName(reg)
    <3>1. reg # Nil
      BY <1>5
    <3> QED BY <3>1
  <2> DEFINE S == {j \in DOMAIN reg : reg[j].name = n}
  <2>2. DOMAIN reg = 1..Len(reg) /\ Len(reg) \in Nat
    BY <2>1
  <2>3. S \subseteq 0..Len(reg) /\ S # {}
    <3>1. n \in {e.name : e \in Range(reg)}
      BY <1>5, <2>1 DEF KernelRegistryByName
    <3> QED BY <2>2, <3>1 DEF Range
  <2>4. Max(S) \in S
    <3> HIDE DEF S
    <3> QED BY <2>2, <2>3, MaxFacts
  <2>5. byName[n] = reg[Max(S)]
    BY <1>5, <2>1 DEF KernelRegistryByName
  <2> DEFINE e == reg[Max(S)]
  <2>6. e \in Range(reg) /\ e \in Entries /\ e.name = n
    <3>1. Max(S) \in 1..Len(reg) /\ e.name = n
      BY <2>2, <2>4
    <3> HIDE DEF S, n
    <3> QED BY <2>1, <2>2, <3>1 DEF Range
  <2> HIDE DEF e, km, n, S, byName
  <2>7. /\ km.name = n /\ km.cat = Known[k].cat /\ km.kernel = e.kernel /\ km.rec = e.rec
        /\ km = [name |-> n, cat |-> Known[k].cat, kernel |-> e.kernel, rec |-> e.rec]
    <3>1. byName[n] = e
      BY <2>5 DEF e
    <3>2. km = [name |-> n, cat |-> Known[k].cat, kernel |-> e.kernel, rec |-> e.rec]
      BY <1>3, <1>5, <3>1
    <3> QED BY <3>2
  <2>8. e \in Own(reg, n)
    BY <2>1, <2>6 DEF Own
  <2>9. km \in FullEntries
    BY <1>1, <2>6, <2>7 DEF FullEntries, Entries
  <2> QED BY <2>7, <2>8, <2>9 DEF km, n
<1> QED BY <1>4, <1>5

\* The merged registry is as long as Known.
LEMMA MergeType ==
  ASSUME NEW reg, reg = Nil \/ reg \in Seq(Entries)
  PROVE  FullRegistry(reg) \in Seq(FullEntries) /\ Len(FullRegistry(reg)) = Len(Known)
<1> DEFINE f == FullRegistry(reg)
<1>1. DOMAIN Known = 1..Len(Known) /\ Len(Known) \in Nat
  BY RegistryAssumption
<1>2. \A k \in DOMAIN Known : f[k] \in FullEntries
  BY MergeFacts
<1>3. f = [k \in DOMAIN Known |-> f[k]]
  BY DEF FullRegistry
<1> HIDE DEF f
<1>4. f \in [1..Len(Known) -> FullEntries]
  BY <1>1, <1>2, <1>3
<1>5. f \in Seq(FullEntries) /\ Len(f) = Len(Known)
  BY <1>1, <1>4
<1> QED BY <1>5 DEF f

-----------------------------------------------------------------------------
(* The categories. *)

\* Known is a list of n metrics with the categories of registry.go.
LEMMA KnownFacts ==
  /\ Len(Known) \in Nat /\ DOMAIN Known = 1..Len(Known) /\ Known \in Seq([name : STRING, cat : STRING])
  /\ \A k \in 1..Len(Known) : Known[k].cat \in STRING /\ Known[k].cat # "" /\ Known[k].name \in STRING
<1>1. Len(Known) \in Nat /\ DOMAIN Known = 1..Len(Known) /\ Known \in Seq([name : STRING, cat : STRING])
  BY RegistryAssumption
<1>2. "" \notin Category
  BY DEF Category
<1>3. ASSUME NEW k \in 1..Len(Known)
      PROVE  Known[k].cat \in STRING /\ Known[k].cat # "" /\ Known[k].name \in STRING
  <2> DEFINE R == [name : STRING, cat : STRING]
  <2>1. Known[k] \in R
    <3>1. Known \in Seq(R)
      BY <1>1
    <3> HIDE DEF R
    <3> QED BY <3>1
  <2>2. Known[k].cat \in Category
    BY <1>1, KnownAssumption, Zenon
  <2> QED BY <1>2, <2>1, <2>2
<1> QED BY <1>1, <1>3

\* Categories, turn by turn.
CategoriesRun(h) ==
    /\ h[0] = << >> /\ Categories = h[Len(Known)]
    /\ \A k \in 1..Len(Known) :
          h[k] = IF Contains(h[k - 1], Known[k].cat) THEN h[k - 1]
                 ELSE Append(h[k - 1], Known[k].cat)

\* Categories runs through the whole of Known.
LEMMA CategoriesTrace == \E h \in [0..Len(Known) -> Seq(STRING)] : CategoriesRun(h)
<1>1. PICK n \in Nat : n = Len(Known) /\ DOMAIN Known = 1..n /\ \A k \in 1..n : Known[k].cat \in STRING
  BY KnownFacts
<1> DEFINE V == Seq(STRING)
           op(v, k) == IF Contains(v, Known[k].cat) THEN v ELSE Append(v, Known[k].cat)
           g == [k \in 1..n |-> [v \in V |-> op(v, k)]]
           Eq(it) == it = [p \in SUBSET (1..n) |->
                             IF p = {} THEN << >> ELSE op(it[p \ {Max(p)}], Max(p))]
           C == CHOOSE it : Eq(it)
<1>2. Categories = C[1..n]
  BY <1>1 DEF Categories, FoldLeft, MapThenFoldSet
<1>3. ASSUME NEW v \in V, NEW k \in 1..n PROVE op(v, k) \in V
  <2>1. Append(v, Known[k].cat) \in V
    BY <1>1
  <2> QED BY <2>1
<1>4. << >> \in V
  OBVIOUS
<1> HIDE DEF V, op
<1>5. g \in Turns(1..n, V)
  BY <1>3 DEF Turns
<1>6. \A v \in V, k \in 1..n : g[k][v] = op(v, k)
  OBVIOUS
<1> HIDE DEF g
<1>7. PICK it \in [SUBSET (1..n) -> V] : LeftEq(it, n, << >>, g)
  BY <1>4, <1>5, LeftEqExists
<1>8. ASSUME NEW p \in SUBSET (1..n)
      PROVE it[p] = IF p = {} THEN << >> ELSE op(it[p \ {Max(p)}], Max(p))
  <2>1. CASE p # {}
    <3>1. Max(p) \in 1..n /\ p \ {Max(p)} \in SUBSET (1..n)
      BY <2>1, LeftRest
    <3>2. it[p \ {Max(p)}] \in V
      BY <3>1
    <3> QED BY <1>6, <1>7, <2>1, <3>1, <3>2 DEF LeftEq
  <2>2. CASE p = {}
    BY <1>7, <2>2 DEF LeftEq
  <2> QED BY <2>1, <2>2
<1>9. Eq(C)
  <2>1. Eq(it)
    BY <1>8, Zenon
  <2> HIDE DEF Eq
  <2> QED BY <2>1
<1> HIDE DEF C
<1>10. \A p \in SUBSET (1..n) : C[p] = IF p = {} THEN << >> ELSE op(C[p \ {Max(p)}], Max(p))
  BY <1>9, Zenon
<1>11. LeftEqIn(C, n, V, << >>, g)
  <2>1. \A p \in SUBSET (1..n) : p # {} => Max(p) \in 1..n
    BY LeftRest
  <2> QED BY <1>6, <1>10, <2>1 DEF LeftEqIn
<1>12. PICK h \in [0..n -> V] : LeftEnd(h, C, n, << >>, g)
  BY <1>4, <1>5, <1>11, LeftTrace
<1>13. \A k \in 1..n : h[k] = op(h[k - 1], k)
  <2>1. ASSUME NEW k \in 1..n PROVE h[k] = op(h[k - 1], k)
    <3>1. h[k - 1] \in V
      OBVIOUS
    <3> QED BY <1>6, <1>12, <3>1 DEF LeftEnd, Trace
  <2> QED BY <2>1
<1>14. CategoriesRun(h)
  BY <1>1, <1>2, <1>12, <1>13 DEF op, LeftEnd, Trace, CategoriesRun
<1> QED BY <1>1, <1>14 DEF V

\* After k turns the categories of the first k metrics have been seen, each once.
Seen(s, k) ==
    /\ \A a, b \in 1..Len(s) : s[a] = s[b] => a = b
    /\ \A c : Contains(s, c) <=> \E j \in 1..k : Known[j].cat = c

\* After k turns the loop of Categories has each category of the first k entries once.
LEMMA CategoriesSeen ==
  ASSUME NEW h \in [0..Len(Known) -> Seq(STRING)], CategoriesRun(h)
  PROVE  \A k \in 0..Len(Known) : Seen(h[k], k)
<1>1. PICK n \in Nat : n = Len(Known) /\ \A k \in 1..n : Known[k].cat \in STRING
  BY KnownFacts
<1>2. h \in [0..n -> Seq(STRING)]
  BY <1>1
<1>3. /\ h[0] = << >> /\ Categories = h[n]
      /\ \A k \in 1..n : h[k] = IF Contains(h[k - 1], Known[k].cat) THEN h[k - 1]
                                ELSE Append(h[k - 1], Known[k].cat)
  BY <1>1 DEF CategoriesRun
<1> DEFINE Distinct(s) == \A a, b \in 1..Len(s) : s[a] = s[b] => a = b
           Has(s, k) == \A c : Contains(s, c) <=> \E j \in 1..k : Known[j].cat = c
           S == {k \in 0..n : Distinct(h[k]) /\ Has(h[k], k)}
<1>4. 0 \in S
  BY <1>3 DEF Contains
<1>5. ASSUME NEW k \in 1..n, k - 1 \in S PROVE k \in S
  <2>1. h[k - 1] \in Seq(STRING) /\ Known[k].cat \in STRING
    BY <1>1, <1>2
  <2>2. Distinct(h[k - 1]) /\ Has(h[k - 1], k - 1)
    BY <1>5
  <2>3. CASE Contains(h[k - 1], Known[k].cat)
    <3>1. h[k] = h[k - 1]
      BY <1>3, <2>3
    <3>2. Has(h[k], k)
      <4>1. ASSUME NEW c PROVE (\E j \in 1..(k - 1) : Known[j].cat = c) <=> \E j \in 1..k : Known[j].cat = c
        <5>1. Contains(h[k - 1], c) <=> \E j \in 1..(k - 1) : Known[j].cat = c
          BY <2>2
        <5>2. 1..k = (1..(k - 1)) \cup {k}
          OBVIOUS
        <5>3. c = Known[k].cat => \E j \in 1..(k - 1) : Known[j].cat = c
          BY <2>2, <2>3
        <5> QED BY <5>2, <5>3
      <4> QED BY <2>2, <3>1, <4>1
    <3> QED BY <2>2, <3>1, <3>2
  <2>4. CASE ~ Contains(h[k - 1], Known[k].cat)
    <3>1. h[k] = Append(h[k - 1], Known[k].cat)
      BY <1>3, <2>4
    <3>2. /\ Len(h[k]) = Len(h[k - 1]) + 1 /\ Len(h[k - 1]) \in Nat
          /\ \A a \in 1..Len(h[k - 1]) : h[k][a] = h[k - 1][a]
          /\ h[k][Len(h[k - 1]) + 1] = Known[k].cat
      BY <2>1, <3>1
    <3>3. \A a \in 1..Len(h[k - 1]) : h[k - 1][a] # Known[k].cat
      BY <2>4 DEF Contains
    <3>4. Distinct(h[k])
      <4>1. ASSUME NEW a \in 1..Len(h[k]), NEW b \in 1..Len(h[k]), h[k][a] = h[k][b] PROVE a = b
        <5> DEFINE m == Len(h[k - 1])
        <5>1. CASE a \in 1..m /\ b \in 1..m
          <6>1. h[k - 1][a] = h[k - 1][b]
            BY <3>2, <4>1, <5>1
          <6> QED BY <2>2, <5>1, <6>1
        <5>2. \A i \in 1..m : h[k][i] # h[k][m + 1]
          BY <3>2, <3>3
        <5>3. a \in 1..m \/ a = m + 1
          BY <3>2
        <5>4. b \in 1..m \/ b = m + 1
          BY <3>2
        <5> QED BY <4>1, <5>1, <5>2, <5>3, <5>4
      <4> QED BY <4>1
    <3>5. Has(h[k], k)
      <4>1. ASSUME NEW c PROVE Contains(h[k], c) <=> \E j \in 1..k : Known[j].cat = c
        <5>1. Contains(h[k - 1], c) <=> \E j \in 1..(k - 1) : Known[j].cat = c
          BY <2>2
        <5>2. 1..k = (1..(k - 1)) \cup {k}
          OBVIOUS
        <5>3. Contains(h[k], c) <=> Contains(h[k - 1], c) \/ c = Known[k].cat
          <6>1. 1..Len(h[k]) = (1..Len(h[k - 1])) \cup {Len(h[k - 1]) + 1}
            BY <3>2
          <6> QED BY <3>2, <6>1, Zenon DEF Contains
        <5> QED BY <5>1, <5>2, <5>3
      <4> QED BY <4>1
    <3> QED BY <3>4, <3>5
  <2> QED BY <2>3, <2>4
<1>6. \A k \in 0..n : k \in S
  <2> HIDE DEF S
  <2>1. \A k \in 1..n : k - 1 \in S => k \in S
    BY <1>5
  <2> QED BY <1>4, <2>1, UpTo, Zenon
<1> QED BY <1>1, <1>6 DEF Seen

\* The categories listed are distinct, and are those of Known.
LEMMA CategoriesFacts ==
  /\ Categories \in Seq(STRING)
  /\ \A a, b \in DOMAIN Categories : Categories[a] = Categories[b] => a = b
  /\ Range(Categories) = {Known[k].cat : k \in 1..Len(Known)}
<1>1. PICK n \in Nat : n = Len(Known)
  BY KnownFacts
<1>2. PICK h \in [0..n -> Seq(STRING)] : CategoriesRun(h)
  BY <1>1, CategoriesTrace
<1>3. Categories = h[n]
  BY <1>1, <1>2 DEF CategoriesRun
<1>4. Categories \in Seq(STRING) /\ Seen(Categories, n)
  <2>1. Seen(h[n], n)
    BY <1>1, <1>2, CategoriesSeen
  <2> QED BY <1>3, <2>1
<1>5. Range(Categories) = {Known[k].cat : k \in 1..n}
  <2>1. ASSUME NEW c PROVE c \in Range(Categories) <=> Contains(Categories, c)
    BY <1>4 DEF Range, Contains
  <2>2. ASSUME NEW c PROVE c \in Range(Categories) <=> c \in {Known[k].cat : k \in 1..n}
    BY <1>4, <2>1 DEF Seen
  <2> QED BY <2>2, Zenon
<1> QED BY <1>1, <1>4, <1>5 DEF Seen

CatCounts == [name : STRING, count : Nat]

\* Total, turn by turn.
TotalRun(h, cs) ==
    /\ h[0] = 0 /\ Total(cs) = h[Len(cs)]
    /\ \A k \in 1..Len(cs) : h[k] = h[k - 1] + cs[k].count

\* The loop that adds the counts runs through all of them.
LEMMA TotalTrace ==
  ASSUME NEW cs \in Seq(CatCounts)
  PROVE  \E h \in [0..Len(cs) -> Nat] : TotalRun(h, cs)
<1>1. PICK n \in Nat : n = Len(cs) /\ DOMAIN cs = 1..n /\ \A k \in 1..n : cs[k].count \in Nat
  <2>1. \A k \in 1..Len(cs) : cs[k] \in CatCounts
    OBVIOUS
  <2> QED BY <2>1 DEF CatCounts
<1> DEFINE V == Nat
           op(v, k) == v + cs[k].count
           g == [k \in 1..n |-> [v \in V |-> op(v, k)]]
           Eq(it) == it = [p \in SUBSET (1..n) |->
                             IF p = {} THEN 0 ELSE op(it[p \ {Max(p)}], Max(p))]
           C == CHOOSE it : Eq(it)
<1>2. Total(cs) = C[1..n]
  BY <1>1 DEF Total, FoldLeft, MapThenFoldSet
<1>3. ASSUME NEW v \in V, NEW k \in 1..n PROVE op(v, k) \in V
  BY <1>1
<1>4. 0 \in V
  OBVIOUS
<1> HIDE DEF V, op
<1>5. g \in Turns(1..n, V)
  BY <1>3 DEF Turns
<1>6. \A v \in V, k \in 1..n : g[k][v] = op(v, k)
  OBVIOUS
<1> HIDE DEF g
<1>7. PICK it \in [SUBSET (1..n) -> V] : LeftEq(it, n, 0, g)
  BY <1>4, <1>5, LeftEqExists
<1>8. ASSUME NEW p \in SUBSET (1..n)
      PROVE it[p] = IF p = {} THEN 0 ELSE op(it[p \ {Max(p)}], Max(p))
  <2>1. CASE p # {}
    <3>1. Max(p) \in 1..n /\ p \ {Max(p)} \in SUBSET (1..n)
      BY <2>1, LeftRest
    <3>2. it[p \ {Max(p)}] \in V
      BY <3>1
    <3> QED BY <1>6, <1>7, <2>1, <3>1, <3>2 DEF LeftEq
  <2>2. CASE p = {}
    BY <1>7, <2>2 DEF LeftEq
  <2> QED BY <2>1, <2>2
<1>9. Eq(C)
  <2>1. Eq(it)
    BY <1>8, Zenon
  <2> HIDE DEF Eq
  <2> QED BY <2>1
<1> HIDE DEF C
<1>10. \A p \in SUBSET (1..n) : C[p] = IF p = {} THEN 0 ELSE op(C[p \ {Max(p)}], Max(p))
  BY <1>9, Zenon
<1>11. LeftEqIn(C, n, V, 0, g)
  <2>1. \A p \in SUBSET (1..n) : p # {} => Max(p) \in 1..n
    BY LeftRest
  <2> QED BY <1>6, <1>10, <2>1 DEF LeftEqIn
<1>12. PICK h \in [0..n -> V] : LeftEnd(h, C, n, 0, g)
  BY <1>4, <1>5, <1>11, LeftTrace
<1>13. \A k \in 1..n : h[k] = op(h[k - 1], k)
  <2>1. ASSUME NEW k \in 1..n PROVE h[k] = op(h[k - 1], k)
    <3>1. h[k - 1] \in V
      OBVIOUS
    <3> QED BY <1>6, <1>12, <3>1 DEF LeftEnd, Trace
  <2> QED BY <2>1
<1>14. TotalRun(h, cs)
  BY <1>1, <1>2, <1>12, <1>13 DEF op, LeftEnd, Trace, TotalRun
<1> QED BY <1>1, <1>14 DEF V

\* The positions of a category in Known.
Places(c) == {k \in 1..Len(Known) : Known[k].cat = c}

\* A list in Known's order, with Known's categories, has as many of each.
LEMMA PlacesCounted ==
  ASSUME NEW X, NEW s \in Seq(X), Len(s) = Len(Known),
         \A k \in 1..Len(Known) : s[k].cat = Known[k].cat, NEW c
  PROVE  Len(Filter(s, InCategory(s, c))) = Cardinality(Places(c)) /\ IsFiniteSet(Places(c))
<1>1. Len(s) \in Nat /\ DOMAIN s = 1..Len(s)
  OBVIOUS
<1>2. \A k \in 1..Len(s) : s[k] \in InCategory(s, c) <=> Known[k].cat = c
  BY <1>1 DEF InCategory, Range
<1>3. Hits(s, InCategory(s, c), Len(s)) = Places(c)
  BY <1>1, <1>2 DEF Hits, Places
<1>4. IsFiniteSet(Places(c))
  BY <1>1, <1>3, HitsFacts
<1>5. Len(Filter(s, InCategory(s, c))) = Cardinality(Hits(s, InCategory(s, c), Len(s)))
  BY FilterFacts
<1> QED BY <1>3, <1>4, <1>5

\* The counts of ListCategories.
LEMMA CountsFacts ==
  /\ ListCategories \in Seq(CatCounts) /\ Len(ListCategories) = Len(Categories)
  /\ \A a \in 1..Len(Categories) :
        /\ ListCategories[a].name = Categories[a]
        /\ ListCategories[a].count = Cardinality(Places(Categories[a]))
        /\ IsFiniteSet(Places(Categories[a]))
<1>1. PICK n \in Nat : n = Len(Categories) /\ DOMAIN Categories = 1..n
                       /\ \A a \in 1..n : Categories[a] \in STRING
  BY CategoriesFacts
<1>2. ASSUME NEW c
      PROVE  Len(ByCategory(c)) = Cardinality(Places(c)) /\ IsFiniteSet(Places(c))
  BY KnownFacts, PlacesCounted DEF ByCategory
<1>3. ASSUME NEW a \in 1..n
      PROVE  /\ ListCategories[a] \in CatCounts
             /\ ListCategories[a].name = Categories[a]
             /\ ListCategories[a].count = Cardinality(Places(Categories[a]))
             /\ IsFiniteSet(Places(Categories[a]))
  <2>1. ListCategories[a] = [name |-> Categories[a], count |-> Len(ByCategory(Categories[a]))]
    BY <1>1 DEF ListCategories
  <2>2. Cardinality(Places(Categories[a])) \in Nat
    BY <1>2, FS_CardinalityType
  <2>3. Categories[a] \in STRING
    BY <1>1
  <2> QED BY <1>2, <2>1, <2>2, <2>3 DEF CatCounts
<1>4. ListCategories \in [1..n -> CatCounts]
  BY <1>1, <1>3 DEF ListCategories
<1>5. ListCategories \in Seq(CatCounts) /\ Len(ListCategories) = n
  BY <1>1, <1>4
<1> QED BY <1>1, <1>3, <1>5

\* The names a registry has entries for, and the entry the validator looks at.
NamesOf(reg) == {km.name : km \in Range(reg)}
EntryOf(reg, n) == KernelRegistryByName(reg)[n]
Repeats(reg) == {k \in DOMAIN reg : \E j \in 1..(k - 1) : reg[j].name = reg[k].name}

\* What has been found wrong with the first k metrics of Known.
FirstGood(reg, k) ==
    /\ Repeats(reg) = {}
    /\ \A j \in 1..k : /\ Known[j].name \in NamesOf(reg)
                       /\ EntryIssues(EntryOf(reg, Known[j].name)) = {}

\* The loop of ValidateRegistry, turn by turn.
CheckedRun(h, reg) ==
    /\ h[0] = [kernelMetrics |-> NamesOf(reg), issues |-> {"duplicate" : k \in Repeats(reg)}]
    /\ Checked(reg) = h[Len(Known)]
    /\ \A k \in 1..Len(Known) : h[k] = CheckKnown(KernelRegistryByName(reg), h[k - 1], Known[k])

IssueTexts == {"duplicate", "missing", "no kernel pattern", "no recommended pattern", "no TTL"}
CheckStates(reg) == [kernelMetrics : SUBSET NamesOf(reg), issues : SUBSET IssueTexts]

\* The loop of the validator runs through the whole of Known.
LEMMA CheckedTrace ==
  ASSUME NEW reg \in Seq(Entries)
  PROVE  \E h \in [0..Len(Known) -> CheckStates(reg)] : CheckedRun(h, reg)
<1>1. PICK n \in Nat : n = Len(Known) /\ DOMAIN Known = 1..n
  BY KnownFacts
<1> DEFINE V == CheckStates(reg)
           byName == KernelRegistryByName(reg)
           a == [kernelMetrics |-> NamesOf(reg), issues |-> {"duplicate" : k \in Repeats(reg)}]
           op(v, k) == CheckKnown(byName, v, Known[k])
           g == [k \in 1..n |-> [v \in V |-> op(v, k)]]
           Eq(it) == it = [p \in SUBSET (1..n) |->
                             IF p = {} THEN a ELSE op(it[p \ {Max(p)}], Max(p))]
           C == CHOOSE it : Eq(it)
<1>2. Checked(reg) = C[1..n]
  BY <1>1 DEF Checked, FoldLeft, MapThenFoldSet, NamesOf, Repeats
<1>3. ASSUME NEW v \in V, NEW k \in 1..n PROVE op(v, k) \in V
  <2>1. v.kernelMetrics \in SUBSET NamesOf(reg) /\ v.issues \in SUBSET IssueTexts
    BY DEF CheckStates
  <2>2. EntryIssues(byName[Known[k].name]) \in SUBSET IssueTexts
    BY DEF EntryIssues, IssueTexts
  <2>3. "missing" \in IssueTexts
    BY DEF IssueTexts
  <2>4. CASE Known[k].name \notin v.kernelMetrics
    BY <2>1, <2>3, <2>4 DEF CheckKnown, CheckStates
  <2>5. CASE Known[k].name \in v.kernelMetrics
    BY <2>1, <2>2, <2>5 DEF CheckKnown, CheckStates
  <2> QED BY <2>4, <2>5
<1>4. a \in V
  BY DEF CheckStates, IssueTexts
<1> HIDE DEF V, op, a
<1>5. g \in Turns(1..n, V)
  BY <1>3 DEF Turns
<1>6. \A v \in V, k \in 1..n : g[k][v] = op(v, k)
  OBVIOUS
<1> HIDE DEF g
<1>7. PICK it \in [SUBSET (1..n) -> V] : LeftEq(it, n, a, g)
  BY <1>4, <1>5, LeftEqExists
<1>8. ASSUME NEW p \in SUBSET (1..n)
      PROVE it[p] = IF p = {} THEN a ELSE op(it[p \ {Max(p)}], Max(p))
  <2>1. CASE p # {}
    <3>1. Max(p) \in 1..n /\ p \ {Max(p)} \in SUBSET (1..n)
      BY <2>1, LeftRest
    <3>2. it[p \ {Max(p)}] \in V
      BY <3>1
    <3> QED BY <1>6, <1>7, <2>1, <3>1, <3>2 DEF LeftEq
  <2>2. CASE p = {}
    BY <1>7, <2>2 DEF LeftEq
  <2> QED BY <2>1, <2>2
<1>9. Eq(C)
  <2>1. Eq(it)
    BY <1>8, Zenon
  <2> HIDE DEF Eq
  <2> QED BY <2>1
<1> HIDE DEF C
<1>10. \A p \in SUBSET (1..n) : C[p] = IF p = {} THEN a ELSE op(C[p \ {Max(p)}], Max(p))
  BY <1>9, Zenon
<1>11. LeftEqIn(C, n, V, a, g)
  <2>1. \A p \in SUBSET (1..n) : p # {} => Max(p) \in 1..n
    BY LeftRest
  <2> QED BY <1>6, <1>10, <2>1 DEF LeftEqIn
<1>12. PICK h \in [0..n -> V] : LeftEnd(h, C, n, a, g)
  BY <1>4, <1>5, <1>11, LeftTrace
<1>13. \A k \in 1..n : h[k] = op(h[k - 1], k)
  <2>1. ASSUME NEW k \in 1..n PROVE h[k] = op(h[k - 1], k)
    <3>1. h[k - 1] \in V
      OBVIOUS
    <3> QED BY <1>6, <1>12, <3>1 DEF LeftEnd, Trace
  <2> QED BY <2>1
<1>14. CheckedRun(h, reg)
  BY <1>1, <1>2, <1>12, <1>13 DEF a, op, LeftEnd, Trace, CheckedRun
<1> QED BY <1>1, <1>14 DEF V

-----------------------------------------------------------------------------
(* The loop of -all. *)

Metrics == [name : STRING, cat : STRING, error : BOOLEAN]
TextLines == [line : {"heading", "value", "ERROR"}, name : STRING]
Groups == [lastCat : STRING \cup {""}, lines : Seq(TextLines)]

\* The loop of -all, turn by turn.
GroupTurn(st, m) ==
    [lastCat |-> m.cat,
     lines |-> st.lines \o (IF m.cat # st.lastCat THEN <<heading(m.cat)>> ELSE << >>)
                 \o <<printMetric(m)>>]
GroupedRun(h, ms) ==
    /\ h[0] = [lastCat |-> "", lines |-> << >>] /\ printGrouped(ms) = h[Len(ms)].lines
    /\ \A k \in 1..Len(ms) : h[k] = GroupTurn(h[k - 1], ms[k])

\* A turn prints one line or two.
LEMMA GroupTurnFacts ==
  ASSUME NEW st \in Groups, NEW m \in Metrics
  PROVE  /\ GroupTurn(st, m) \in Groups /\ GroupTurn(st, m).lastCat = m.cat
         /\ heading(m.cat) \in TextLines /\ printMetric(m) \in TextLines
         /\ GroupTurn(st, m).lines = IF m.cat # st.lastCat
                                     THEN Append(Append(st.lines, heading(m.cat)), printMetric(m))
                                     ELSE Append(st.lines, printMetric(m))
<1>1. st.lines \in Seq(TextLines) /\ m.cat \in STRING
  BY DEF Groups, Metrics
<1>2. heading(m.cat) \in TextLines /\ printMetric(m) \in TextLines
  BY DEF Metrics, TextLines, heading, printMetric
<1> DEFINE l == st.lines
           a == heading(m.cat)
           b == printMetric(m)
           r == GroupTurn(st, m)
<1>3. /\ l \o <<a>> \o <<b>> = Append(Append(l, a), b)
      /\ l \o << >> \o <<b>> = Append(l, b)
      /\ Append(Append(l, a), b) \in Seq(TextLines) /\ Append(l, b) \in Seq(TextLines)
  <2> HIDE DEF l, a, b
  <2>1. l \in Seq(TextLines) /\ a \in TextLines /\ b \in TextLines
    BY <1>1, <1>2 DEF l, a, b
  <2> HIDE DEF TextLines
  <2>2. l \o <<a>> = Append(l, a) /\ l \o << >> = l
    BY <2>1
  <2>3. Append(l, a) \in Seq(TextLines)
    BY <2>1
  <2>4. Append(l, a) \o <<b>> = Append(Append(l, a), b) /\ l \o <<b>> = Append(l, b)
    BY <2>1, <2>3
  <2> QED BY <2>1, <2>2, <2>3, <2>4
<1>4. r.lastCat = m.cat /\ r = [lastCat |-> m.cat, lines |-> r.lines]
      /\ r.lines = l \o (IF m.cat # st.lastCat THEN <<a>> ELSE << >>) \o <<b>>
  BY DEF GroupTurn
<1>5. r.lines = IF m.cat # st.lastCat THEN Append(Append(l, a), b) ELSE Append(l, b)
  <2> HIDE DEF l, a, b, r
  <2>1. CASE m.cat # st.lastCat
    BY <1>3, <1>4, <2>1
  <2>2. CASE m.cat = st.lastCat
    BY <1>3, <1>4, <2>2
  <2> QED BY <2>1, <2>2
<1>6. r \in Groups
  <2> HIDE DEF l, a, b, r
  <2>1. r.lines \in Seq(TextLines)
    BY <1>3, <1>5
  <2> QED BY <1>1, <1>4, <2>1 DEF Groups
<1> QED BY <1>2, <1>4, <1>5, <1>6

\* printGrouped runs through all the metrics it is given.
LEMMA GroupedTrace ==
  ASSUME NEW ms \in Seq(Metrics)
  PROVE  \E h \in [0..Len(ms) -> Groups] : GroupedRun(h, ms)
<1>1. PICK n \in Nat : n = Len(ms) /\ DOMAIN ms = 1..n /\ \A k \in 1..n : ms[k] \in Metrics
  OBVIOUS
<1> DEFINE V == Groups
           a == [lastCat |-> "", lines |-> << >>]
           op(v, k) == GroupTurn(v, ms[k])
           g == [k \in 1..n |-> [v \in V |-> op(v, k)]]
           Eq(it) == it = [p \in SUBSET (1..n) |->
                             IF p = {} THEN a ELSE op(it[p \ {Max(p)}], Max(p))]
           C == CHOOSE it : Eq(it)
<1>2. printGrouped(ms) = C[1..n].lines
  BY <1>1 DEF printGrouped, FoldLeft, MapThenFoldSet, GroupTurn
<1>3. ASSUME NEW v \in V, NEW k \in 1..n PROVE op(v, k) \in V
  BY <1>1, GroupTurnFacts
<1>4. a \in V
  BY DEF Groups
<1> HIDE DEF V, op, a
<1>5. g \in Turns(1..n, V)
  BY <1>3 DEF Turns
<1>6. \A v \in V, k \in 1..n : g[k][v] = op(v, k)
  OBVIOUS
<1> HIDE DEF g
<1>7. PICK it \in [SUBSET (1..n) -> V] : LeftEq(it, n, a, g)
  BY <1>4, <1>5, LeftEqExists
<1>8. ASSUME NEW p \in SUBSET (1..n)
      PROVE it[p] = IF p = {} THEN a ELSE op(it[p \ {Max(p)}], Max(p))
  <2>1. CASE p # {}
    <3>1. Max(p) \in 1..n /\ p \ {Max(p)} \in SUBSET (1..n)
      BY <2>1, LeftRest
    <3>2. it[p \ {Max(p)}] \in V
      BY <3>1
    <3> QED BY <1>6, <1>7, <2>1, <3>1, <3>2 DEF LeftEq
  <2>2. CASE p = {}
    BY <1>7, <2>2 DEF LeftEq
  <2> QED BY <2>1, <2>2
<1>9. Eq(C)
  <2>1. Eq(it)
    BY <1>8, Zenon
  <2> HIDE DEF Eq
  <2> QED BY <2>1
<1> HIDE DEF C
<1>10. \A p \in SUBSET (1..n) : C[p] = IF p = {} THEN a ELSE op(C[p \ {Max(p)}], Max(p))
  BY <1>9, Zenon
<1>11. LeftEqIn(C, n, V, a, g)
  <2>1. \A p \in SUBSET (1..n) : p # {} => Max(p) \in 1..n
    BY LeftRest
  <2> QED BY <1>6, <1>10, <2>1 DEF LeftEqIn
<1>12. PICK h \in [0..n -> V] : LeftEnd(h, C, n, a, g)
  BY <1>4, <1>5, <1>11, LeftTrace
<1>13. \A k \in 1..n : h[k] = op(h[k - 1], k)
  <2>1. ASSUME NEW k \in 1..n PROVE h[k] = op(h[k - 1], k)
    <3>1. h[k - 1] \in V
      OBVIOUS
    <3> QED BY <1>6, <1>12, <3>1 DEF LeftEnd, Trace
  <2> QED BY <2>1
<1>14. GroupedRun(h, ms)
  BY <1>1, <1>2, <1>12, <1>13 DEF a, op, LeftEnd, Trace, GroupedRun
<1> QED BY <1>1, <1>14 DEF V

MetricLines == [line : {"value", "ERROR"}, name : STRING]
HeadingLines == [line : {"heading"}, name : STRING]

\* The headings among the first p lines of l; the last of them is c's; and every
\* line of the first k metrics is below the heading of its category.
Heads(l, p) == {q \in 1..p : l[q].line = "heading"}
HeadIs(l, p, c) == Heads(l, p) # {} /\ l[Max(Heads(l, p))].name = c
Sorted(l, k) ==
    \A p \in 1..Len(l) : l[p].line # "heading" =>
        \E j \in 1..k : l[p].name = Known[j].name /\ HeadIs(l, p, Known[j].cat)

\* What is below a line does not change what is above it.
LEMMA HeadIsKept ==
  ASSUME NEW l \in Seq(TextLines), NEW x \in TextLines, NEW p \in 1..Len(l), NEW c,
         HeadIs(l, p, c)
  PROVE  HeadIs(Append(l, x), p, c)
<1> DEFINE t == Append(l, x)
<1>1. \A q \in 1..Len(l) : t[q] = l[q]
  OBVIOUS
<1>2. Len(l) \in Nat
  OBVIOUS
<1> HIDE DEF t
<1>3. Heads(t, p) = Heads(l, p)
  BY <1>1, <1>2 DEF Heads
<1>4. Max(Heads(l, p)) \in 1..Len(l)
  <2>1. Heads(l, p) \subseteq 0..p /\ Heads(l, p) # {} /\ p \in Nat
    BY <1>2 DEF HeadIs, Heads
  <2>2. Max(Heads(l, p)) \in Heads(l, p)
    BY <2>1, MaxFacts
  <2> QED BY <1>2, <2>2 DEF Heads
<1> QED BY <1>1, <1>3, <1>4 DEF HeadIs, t

\* A heading is printed.
LEMMA HeadingPrinted ==
  ASSUME NEW l \in Seq(TextLines), NEW x \in TextLines, x.line = "heading", NEW k
  PROVE  LET t == Append(l, x)
         IN  /\ Filter(t, MetricLines) = Filter(l, MetricLines)
             /\ Len(Filter(t, HeadingLines)) = Len(Filter(l, HeadingLines)) + 1
             /\ HeadIs(t, Len(t), x.name)
             /\ Sorted(l, k) => Sorted(t, k)
<1> DEFINE t == Append(l, x)
<1>1. PICK n \in Nat : n = Len(l)
  OBVIOUS
<1>2. t \in Seq(TextLines) /\ Len(t) = n + 1 /\ t[n + 1] = x /\ \A q \in 1..n : t[q] = l[q]
  BY <1>1
<1>3. x \notin MetricLines /\ x \in HeadingLines
  BY DEF TextLines, MetricLines, HeadingLines
<1>4. Filter(t, MetricLines) = Filter(l, MetricLines)
  BY <1>3, FilterAppend
<1>5. Len(Filter(t, HeadingLines)) = Len(Filter(l, HeadingLines)) + 1
  <2>1. Filter(t, HeadingLines) = Append(Filter(l, HeadingLines), x)
    BY <1>3, FilterAppend
  <2>2. Filter(l, HeadingLines) \in Seq(TextLines)
    BY FilterFacts
  <2> HIDE DEF t
  <2> QED BY <2>1, <2>2
<1> HIDE DEF t
<1>6. HeadIs(t, n + 1, x.name)
  <2>1. n + 1 \in Heads(t, n + 1) /\ Heads(t, n + 1) \subseteq 0..(n + 1)
    BY <1>2 DEF Heads
  <2>2. Max(Heads(t, n + 1)) \in Heads(t, n + 1) /\ Max(Heads(t, n + 1)) >= n + 1
    BY <2>1, MaxFacts
  <2>3. Max(Heads(t, n + 1)) = n + 1
    BY <2>2 DEF Heads
  <2> QED BY <1>2, <2>1, <2>3 DEF HeadIs
<1>7. ASSUME Sorted(l, k) PROVE Sorted(t, k)
  <2>1. ASSUME NEW p \in 1..Len(t), t[p].line # "heading"
        PROVE  \E j \in 1..k : t[p].name = Known[j].name /\ HeadIs(t, p, Known[j].cat)
    <3>1. p \in 1..n /\ t[p] = l[p]
      BY <1>2, <2>1
    <3>2. PICK j \in 1..k : l[p].name = Known[j].name /\ HeadIs(l, p, Known[j].cat)
      BY <1>1, <1>7, <2>1, <3>1 DEF Sorted
    <3>3. HeadIs(t, p, Known[j].cat)
      BY <1>1, <3>1, <3>2, HeadIsKept DEF t
    <3> QED BY <3>1, <3>2, <3>3
  <2> QED BY <2>1 DEF Sorted
<1> QED BY <1>2, <1>4, <1>5, <1>6, <1>7 DEF t

\* A metric is printed.
LEMMA MetricPrinted ==
  ASSUME NEW l \in Seq(TextLines), NEW x \in TextLines, x.line # "heading", NEW k \in Nat,
         x.name = Known[k + 1].name, HeadIs(l, Len(l), Known[k + 1].cat)
  PROVE  LET t == Append(l, x)
         IN  /\ Filter(t, MetricLines) = Append(Filter(l, MetricLines), x)
             /\ Filter(t, HeadingLines) = Filter(l, HeadingLines)
             /\ HeadIs(t, Len(t), Known[k + 1].cat)
             /\ Sorted(l, k) => Sorted(t, k + 1)
<1> DEFINE t == Append(l, x)
           c == Known[k + 1].cat
<1>1. PICK n \in Nat : n = Len(l)
  OBVIOUS
<1>2. t \in Seq(TextLines) /\ Len(t) = n + 1 /\ t[n + 1] = x /\ \A q \in 1..n : t[q] = l[q]
  BY <1>1
<1>3. x \in MetricLines /\ x \notin HeadingLines
  BY DEF TextLines, MetricLines, HeadingLines
<1>4. /\ Filter(t, MetricLines) = Append(Filter(l, MetricLines), x)
      /\ Filter(t, HeadingLines) = Filter(l, HeadingLines)
  BY <1>3, FilterAppend
<1> HIDE DEF t
<1>5. n # 0
  BY <1>1 DEF HeadIs, Heads
<1>6. HeadIs(t, n, c)
  BY <1>1, <1>5, HeadIsKept DEF t
<1>7. HeadIs(t, n + 1, c)
  <2>1. Heads(t, n + 1) = Heads(t, n)
    BY <1>2 DEF Heads
  <2> QED BY <1>6, <2>1 DEF HeadIs
<1>8. ASSUME Sorted(l, k) PROVE Sorted(t, k + 1)
  <2>1. ASSUME NEW p \in 1..Len(t), t[p].line # "heading"
        PROVE  \E j \in 1..(k + 1) : t[p].name = Known[j].name /\ HeadIs(t, p, Known[j].cat)
    <3>1. CASE p = n + 1
      <4>1. t[p].name = Known[k + 1].name /\ HeadIs(t, p, Known[k + 1].cat) /\ k + 1 \in 1..(k + 1)
        BY <1>2, <1>7, <3>1
      <4> QED BY <4>1
    <3>2. CASE p # n + 1
      <4>1. p \in 1..n /\ t[p] = l[p]
        BY <1>2, <3>2
      <4>2. PICK j \in 1..k : l[p].name = Known[j].name /\ HeadIs(l, p, Known[j].cat)
        BY <1>1, <1>8, <2>1, <4>1 DEF Sorted
      <4>3. HeadIs(t, p, Known[j].cat)
        BY <1>1, <4>1, <4>2, HeadIsKept DEF t
      <4>4. j \in 1..(k + 1)
        OBVIOUS
      <4> QED BY <4>1, <4>2, <4>3, <4>4
    <3> QED BY <3>1, <3>2
  <2> QED BY <2>1 DEF Sorted
<1> QED BY <1>2, <1>4, <1>7, <1>8 DEF t

\* The answers to a request for the names of Known, in order.
AnswersKnown(ms) ==
    /\ ms \in Seq(Metrics) /\ Len(ms) = Len(Known)
    /\ \A k \in 1..Len(Known) : ms[k].name = Known[k].name /\ ms[k].cat = Known[k].cat

\* What -all makes of them: the headings are the categories, because the metrics of
\* a category stand together.
LEMMA GroupedFacts ==
  ASSUME NEW ms, AnswersKnown(ms)
  PROVE  LET l == printGrouped(ms)
         IN  /\ l \in Seq(TextLines)
             /\ Len(Filter(l, MetricLines)) = Len(Known)
             /\ \A j \in 1..Len(Known) : Filter(l, MetricLines)[j].name = Known[j].name
             /\ Len(Filter(l, HeadingLines)) = Len(Categories)
             /\ Sorted(l, Len(Known))
<1>1. PICK n \in Nat : n = Len(Known) /\ DOMAIN Known = 1..n
                       /\ \A k \in 1..n : Known[k].cat \in STRING /\ Known[k].cat # ""
  BY KnownFacts
<1>2. /\ ms \in Seq(Metrics) /\ Len(ms) = n
      /\ \A k \in 1..n : ms[k] \in Metrics /\ ms[k].name = Known[k].name /\ ms[k].cat = Known[k].cat
  <2>1. ms \in Seq(Metrics) /\ Len(ms) = n
    BY <1>1 DEF AnswersKnown
  <2>2. \A k \in 1..n : ms[k] \in Metrics
    <3> HIDE DEF Metrics
    <3> QED BY <2>1
  <2>3. \A k \in 1..n : ms[k].name = Known[k].name /\ ms[k].cat = Known[k].cat
    BY <1>1 DEF AnswersKnown
  <2> QED BY <2>1, <2>2, <2>3
<1>3. PICK h \in [0..n -> Groups] : GroupedRun(h, ms)
  BY <1>2, GroupedTrace
<1>4. PICK c \in [0..n -> Seq(STRING)] : CategoriesRun(c)
  BY <1>1, CategoriesTrace
<1>5. \A k \in 0..n : Seen(c[k], k)
  BY <1>1, <1>4, CategoriesSeen
<1> DEFINE l(k) == h[k].lines
           F(k) == Filter(l(k), MetricLines)
           Shows(k) == /\ F(k) \in Seq(TextLines) /\ Len(F(k)) = k
                       /\ \A j \in 1..k : F(k)[j].name = Known[j].name
           Heading(k) == Len(Filter(l(k), HeadingLines)) = Len(c[k])
           Ends(k) == k # 0 => h[k].lastCat = Known[k].cat /\ HeadIs(l(k), Len(l(k)), Known[k].cat)
           S == {k \in 0..n : Shows(k) /\ Heading(k) /\ Ends(k) /\ Sorted(l(k), k)}
<1>0. h[0].lastCat = "" /\ h[0].lines = << >>
  <2>1. h[0] = [lastCat |-> "", lines |-> << >>]
    BY <1>3 DEF GroupedRun
  <2>2. [lastCat |-> "", lines |-> << >>].lastCat = "" /\ [lastCat |-> "", lines |-> << >>].lines = << >>
    OBVIOUS
  <2> QED BY <2>1, <2>2, Zenon
<1>6. \A k \in 0..n : l(k) \in Seq(TextLines)
  BY DEF Groups
<1>7. 0 \in S
  <2>1. l(0) = << >> /\ c[0] = << >>
    BY <1>0, <1>4 DEF CategoriesRun
  <2>2. Filter(l(0), MetricLines) = << >> /\ Filter(l(0), HeadingLines) = << >>
    BY <2>1, FilterEmpty
  <2>3. Sorted(l(0), 0)
    BY <2>1 DEF Sorted
  <2> QED BY <2>1, <2>2, <2>3
<1>8. ASSUME NEW k \in 1..n, k - 1 \in S PROVE k \in S
  <2> DEFINE i == k - 1
             st == h[i]
             cat == Known[k].cat
             a == heading(cat)
             b == printMetric(ms[k])
  <2>1. i \in 0..n /\ i \in Nat /\ i + 1 = k /\ st \in Groups /\ l(i) \in Seq(TextLines)
    BY <1>6
  <2>2. h[k] = GroupTurn(st, ms[k])
    BY <1>2, <1>3 DEF GroupedRun
  <2>3. ms[k] \in Metrics /\ ms[k].cat = cat /\ ms[k].name = Known[k].name
    BY <1>2
  <2>4. /\ h[k].lastCat = cat /\ a \in TextLines /\ b \in TextLines
        /\ l(k) = IF cat # st.lastCat THEN Append(Append(l(i), a), b) ELSE Append(l(i), b)
    BY <2>1, <2>2, <2>3, GroupTurnFacts
  <2>5. a.line = "heading" /\ a.name = cat /\ b.line # "heading" /\ b.name = Known[k].name
    BY <2>3 DEF heading, printMetric
  <2>6. Shows(i) /\ Heading(i) /\ Ends(i) /\ Sorted(l(i), i)
    BY <1>8
  <2>7. cat # st.lastCat <=> ~ Contains(c[i], cat)
    <3>1. Contains(c[i], cat) <=> \E j \in 1..i : Known[j].cat = cat
      BY <1>5, <2>1 DEF Seen
    <3>2. CASE i = 0
      <4>1. st.lastCat = ""
        BY <1>0, <3>2
      <4>2. cat # ""
        BY <1>1
      <4>3. ~ \E j \in 1..i : Known[j].cat = cat
        BY <3>2
      <4> QED BY <3>1, <4>1, <4>2, <4>3
    <3>3. CASE i # 0
      <4>1. st.lastCat = Known[i].cat /\ i \in 1..n /\ i \in 1..i
        BY <2>1, <2>6, <3>3
      <4>2. ASSUME NEW j \in 1..i, Known[j].cat = cat PROVE Known[i].cat = cat
        <5>1. j = i \/ (j < i /\ i < k /\ j \in DOMAIN Known /\ i \in DOMAIN Known /\ k \in DOMAIN Known)
          <6>1. j = i \/ (j < i /\ i < k)
            OBVIOUS
          <6>2. j \in 1..n /\ i \in 1..n
            BY <4>1
          <6> QED BY <1>1, <6>1, <6>2
        <5>2. k \in DOMAIN Known
          BY <1>1
        <5> QED BY <4>2, <5>1, <5>2, KnownAssumption
      <4> QED BY <3>1, <4>1, <4>2
    <3> QED BY <3>2, <3>3
  <2>8. c[k] = IF Contains(c[i], cat) THEN c[i] ELSE Append(c[i], cat)
    BY <1>1, <1>4 DEF CategoriesRun
  <2>9. c[i] \in Seq(STRING) /\ cat \in STRING
    BY <1>1, <2>1
  <2> DEFINE l1 == IF cat # st.lastCat THEN Append(l(i), a) ELSE l(i)
  <2>10. l(k) = Append(l1, b) /\ l1 \in Seq(TextLines)
    <3> HIDE DEF a, b, st, l
    <3> QED BY <2>1, <2>4
  <2>11. /\ Filter(l1, MetricLines) = F(i) /\ HeadIs(l1, Len(l1), cat) /\ Sorted(l1, i)
         /\ Len(Filter(l1, HeadingLines)) = Len(c[k])
    <3>1. CASE cat # st.lastCat
      <4>1. l1 = Append(l(i), a)
        BY <3>1
      <4>2. Len(c[k]) = Len(c[i]) + 1
        BY <2>7, <2>8, <2>9, <3>1
      <4>3. /\ Filter(l1, MetricLines) = F(i) /\ HeadIs(l1, Len(l1), cat) /\ Sorted(l1, i)
            /\ Len(Filter(l1, HeadingLines)) = Len(Filter(l(i), HeadingLines)) + 1
        <5> HIDE DEF a, l, l1
        <5> QED BY <2>1, <2>4, <2>5, <2>6, <4>1, HeadingPrinted
      <4> QED BY <2>6, <4>2, <4>3
    <3>2. CASE cat = st.lastCat
      <4>1. l1 = l(i) /\ c[k] = c[i]
        BY <2>7, <2>8, <3>2
      <4>2. i # 0
        <5>1. i = 0 => st.lastCat = ""
          BY <1>0
        <5>2. cat # ""
          BY <1>1
        <5> QED BY <3>2, <5>1, <5>2
      <4>3. HeadIs(l(i), Len(l(i)), cat)
        BY <2>6, <3>2, <4>2
      <4> HIDE DEF l, l1
      <4> QED BY <2>6, <4>1, <4>3
    <3> QED BY <3>1, <3>2
  <2> HIDE DEF l1, a, b, l
  <2>12. /\ F(k) = Append(F(i), b)
         /\ Filter(l(k), HeadingLines) = Filter(l1, HeadingLines)
         /\ HeadIs(l(k), Len(l(k)), cat)
         /\ Sorted(l(k), k)
    <3>1. b.name = Known[i + 1].name /\ HeadIs(l1, Len(l1), Known[i + 1].cat)
      BY <2>1, <2>5, <2>11
    <3>2. /\ Filter(Append(l1, b), MetricLines) = Append(Filter(l1, MetricLines), b)
          /\ Filter(Append(l1, b), HeadingLines) = Filter(l1, HeadingLines)
          /\ HeadIs(Append(l1, b), Len(Append(l1, b)), Known[i + 1].cat)
          /\ Sorted(Append(l1, b), i + 1)
      BY <2>1, <2>4, <2>5, <2>10, <2>11, <3>1, MetricPrinted
    <3> QED BY <2>1, <2>10, <2>11, <3>2
  <2>13. Shows(k)
    <3>1. F(i) \in Seq(TextLines) /\ Len(F(i)) = i /\ \A j \in 1..i : F(i)[j].name = Known[j].name
      BY <2>6
    <3> HIDE DEF F
    <3>2. /\ F(k) \in Seq(TextLines) /\ Len(F(k)) = k /\ F(k)[k] = b
          /\ \A j \in 1..i : F(k)[j] = F(i)[j]
      BY <2>1, <2>4, <2>12, <3>1
    <3>3. ASSUME NEW j \in 1..k PROVE F(k)[j].name = Known[j].name
      <4>1. j \in 1..i \/ j = k
        OBVIOUS
      <4> QED BY <2>5, <3>1, <3>2, <4>1
    <3> QED BY <3>2, <3>3
  <2>14. Heading(k) /\ Ends(k)
    BY <2>4, <2>11, <2>12
  <2>15. k \in 0..n /\ Sorted(l(k), k)
    BY <2>12
  <2> HIDE DEF Shows, Heading, Ends
  <2> QED BY <2>13, <2>14, <2>15
<1>9. n \in S
  <2> HIDE DEF S
  <2>1. \A k \in 1..n : k - 1 \in S => k \in S
    BY <1>8
  <2>2. \A k \in 0..n : k \in S
    BY <1>7, <2>1, UpTo, Zenon
  <2> QED BY <2>2
<1>10. printGrouped(ms) = l(n) /\ Categories = c[n]
  BY <1>1, <1>2, <1>3, <1>4 DEF GroupedRun, CategoriesRun
<1> QED BY <1>1, <1>6, <1>9, <1>10

-----------------------------------------------------------------------------
(* The theorems. *)

\* Every step of the file's history and of the servers keeps the invariant.
LEMMA RegistryStep == RegistryInv /\ [Next]_vars => RegistryInv'
<1> SUFFICES ASSUME RegistryInv, [Next]_vars PROVE RegistryInv'
  OBVIOUS
<1> USE DEF RegistryInv
<1>1. CASE GenerateEntry
  <2>1. Len(file) \in Nat /\ Len(Known) \in Nat /\ DOMAIN Known = 1..Len(Known)
    BY RegistryAssumption
  <2>2. Len(file) + 1 \in DOMAIN Known
    BY <1>1, <2>1 DEF GenerateEntry, Done
  <2>3. Known[Len(file) + 1] \in Range(Known)
    BY <2>2 DEF Range
  <2>4. file' \in Seq(Entries)
    BY <1>1, <2>3, GeneratedType DEF GenerateEntry
  <2> QED BY <1>1, <2>4 DEF GenerateEntry
<1>2. CASE RemoveEntry \/ CopyEntry \/ RenameEntry \/ SetRecommended \/ UnsetKernel \/ Garble
  <2>1. UNCHANGED <<kernelRegistry, fullRegistry>>
    BY <1>2 DEF RemoveEntry, CopyEntry, RenameEntry, SetRecommended, UnsetKernel, Garble, Edit
  <2> QED BY <1>2, <2>1, EditType
<1>3. ASSUME NEW v \in OsVersions, New(v) PROVE RegistryInv'
  <2>1. kernelRegistry' = Nil \/ kernelRegistry' = file
    BY <1>3 DEF New, LoadKernelRegistry
  <2> QED BY <1>3, <2>1 DEF New
<1>4. CASE UNCHANGED vars
  BY <1>4 DEF vars
<1> QED BY <1>1, <1>2, <1>3, <1>4 DEF Next

\* The server the client talks to is the server of Registry.
LEMMA UsesRegistry == CSpec => Spec
<1>1. CInit => Init
  BY DEF CInit
<1>2. [CNext]_systemVars => [Next]_vars
  BY DEF CNext, systemVars, BadAddress, Start, AnswerOne, AnswerList, AnswerAll, Finish,
         RpcFails, Fatal, Expire, DeadlineExceeded
<1> QED BY <1>1, <1>2, PTL DEF CSpec, Spec

\* Before the first run of the generator there is no file and no server.
LEMMA RegistryCorrect == Spec => []RegistryInv
<1>1. Init => RegistryInv
  BY DEF Init, RegistryInv
<1> QED BY <1>1, RegistryStep, PTL DEF Spec

\* For every Known table and every edit, loss or corruption of the registry file:
\* buildFullRegistry lists the Known metrics in order, each with the patterns of an
\* entry of its own name, or DYNAMIC if there is none.
THEOREM MergeIsFaithful == CSpec => []MergeFaithful
<1>1. RegistryInv => MergeFaithful
  <2> SUFFICES ASSUME RegistryInv, Serving PROVE MergeFaithful
    BY DEF MergeFaithful
  <2>1. fullRegistry = FullRegistry(kernelRegistry)
    BY DEF RegistryInv, Serving
  <2>2. kernelRegistry = Nil \/ kernelRegistry \in Seq(Entries)
    BY DEF RegistryInv
  <2>3. Len(fullRegistry) = Len(Known)
    BY <2>1, <2>2, MergeType
  <2>4. ASSUME NEW k \in DOMAIN Known
        PROVE  LET km == fullRegistry[k]
               IN  /\ km.name = Known[k].name /\ km.cat = Known[k].cat
                   /\ IF Own(kernelRegistry, Known[k].name) = {}
                      THEN km.kernel = Bare("DYNAMIC") /\ km.rec = Bare("DYNAMIC")
                      ELSE \E e \in Own(kernelRegistry, Known[k].name) :
                              km.kernel = e.kernel /\ km.rec = e.rec
    BY <2>1, <2>2, MergeFacts
  <2> QED BY <2>3, <2>4 DEF MergeFaithful, Own
<1> QED BY <1>1, RegistryCorrect, UsesRegistry, PTL

\* The counts of the categories add up to the number of metrics.
LEMMA CountsAddUp == Total(ListCategories) = Len(Known)
<1>1. PICK n \in Nat : n = Len(Categories) /\ DOMAIN Categories = 1..n
  BY CategoriesFacts
<1>2. PICK h \in [0..n -> Nat] : TotalRun(h, ListCategories)
  BY <1>1, CountsFacts, TotalTrace
<1> DEFINE P(a) == Places(Categories[a])
           Under(a) == {k \in 1..Len(Known) : \E i \in 1..a : Known[k].cat = Categories[i]}
           S == {a \in 0..n : IsFiniteSet(Under(a)) /\ h[a] = Cardinality(Under(a))}
<1>3. /\ h[0] = 0 /\ Total(ListCategories) = h[n]
      /\ \A a \in 1..n : h[a] = h[a - 1] + Cardinality(P(a)) /\ IsFiniteSet(P(a))
  BY <1>1, <1>2, CountsFacts DEF TotalRun
<1>4. 0 \in S
  <2>1. Under(0) = {}
    OBVIOUS
  <2>2. IsFiniteSet({}) /\ Cardinality({}) = 0
    BY FS_EmptySet
  <2>3. IsFiniteSet(Under(0)) /\ h[0] = Cardinality(Under(0))
    BY <1>3, <2>1, <2>2, Zenon
  <2> QED BY <2>3
<1>5. ASSUME NEW a \in 1..n, a - 1 \in S PROVE a \in S
  <2>1. 1..a = (1..(a - 1)) \cup {a}
    OBVIOUS
  <2>2. Under(a) = Under(a - 1) \cup P(a)
    BY <2>1 DEF Places
  <2>3. Under(a - 1) \cap P(a) = {}
    <3>1. \A i \in 1..(a - 1) : Categories[i] # Categories[a]
      <4>1. ASSUME NEW i \in 1..(a - 1) PROVE Categories[i] # Categories[a]
        <5>1. i \in 1..n /\ i # a
          OBVIOUS
        <5> QED BY <1>1, <5>1, CategoriesFacts
      <4> QED BY <4>1
    <3> QED BY <3>1 DEF Places
  <2>4. IsFiniteSet(Under(a - 1)) /\ h[a - 1] = Cardinality(Under(a - 1))
    BY <1>5
  <2> HIDE DEF Under, P
  <2>5. IsFiniteSet(Under(a)) /\ Cardinality(Under(a)) = Cardinality(Under(a - 1)) + Cardinality(P(a)) - 0
    <3>1. IsFiniteSet(P(a))
      BY <1>3
    <3>2. /\ IsFiniteSet(Under(a - 1) \cup P(a))
          /\ Cardinality(Under(a - 1) \cup P(a))
               = Cardinality(Under(a - 1)) + Cardinality(P(a)) - Cardinality(Under(a - 1) \cap P(a))
      BY <2>4, <3>1, FS_Union
    <3> QED BY <2>2, <2>3, <3>2, FS_EmptySet
  <2>6. Cardinality(Under(a - 1)) \in Nat /\ Cardinality(P(a)) \in Nat
    BY <1>3, <2>4, FS_CardinalityType
  <2>7. h[a] = Cardinality(Under(a))
    BY <1>3, <2>4, <2>5, <2>6
  <2> QED BY <2>5, <2>7
<1>6. n \in S
  <2> HIDE DEF S
  <2>1. \A k \in 1..n : k - 1 \in S => k \in S
    BY <1>5
  <2>2. \A k \in 0..n : k \in S
    BY <1>4, <2>1, UpTo, Zenon
  <2> QED BY <2>2
<1>7. Under(n) = 1..Len(Known)
  <2>1. ASSUME NEW k \in 1..Len(Known) PROVE \E i \in 1..n : Known[k].cat = Categories[i]
    <3>1. Known[k].cat \in Range(Categories)
      BY CategoriesFacts
    <3> QED BY <1>1, <3>1 DEF Range
  <2> QED BY <2>1
<1>8. Cardinality(1..Len(Known)) = Len(Known)
  <2>1. PICK m \in Nat : m = Len(Known)
    BY KnownFacts
  <2>2. Cardinality(1..m) = m
    BY FS_Interval
  <2> QED BY <2>1, <2>2
<1> QED BY <1>3, <1>6, <1>7, <1>8

\* For every Known table, whatever the server loaded: the categories it lists are
\* distinct, their counts are the lengths of what ListKnownMetrics answers for them,
\* and add up to the whole registry.
THEOREM CategoriesArePartition == CSpec => []CategoriesPartition
<1>1. RegistryInv => CategoriesPartition
  <2> SUFFICES ASSUME RegistryInv, Serving PROVE CategoriesPartition
    BY DEF CategoriesPartition
  <2>1. fullRegistry = FullRegistry(kernelRegistry)
    BY DEF RegistryInv, Serving
  <2>2. kernelRegistry = Nil \/ kernelRegistry \in Seq(Entries)
    BY DEF RegistryInv
  <2>3. fullRegistry \in Seq(FullEntries) /\ Len(fullRegistry) = Len(Known)
    BY <2>1, <2>2, MergeType
  <2>4. \A k \in 1..Len(Known) : fullRegistry[k].cat = Known[k].cat
    BY <2>1, <2>2, MergeFacts, KnownFacts
  <2>5. PICK n \in Nat : n = Len(Categories) /\ DOMAIN Categories = 1..n
    BY CategoriesFacts
  <2>6. DOMAIN ListCategories = 1..n
    BY <2>5, CountsFacts
  <2>7. ASSUME NEW a \in 1..n, NEW b \in 1..n, ListCategories[a].name = ListCategories[b].name
        PROVE  a = b
    BY <2>5, <2>7, CategoriesFacts, CountsFacts
  <2>8. ASSUME NEW a \in 1..n
        PROVE  ListCategories[a].count
                 = Len(ListKnownMetrics(fullRegistry, ListCategories[a].name))
    <3> DEFINE c == Categories[a]
    <3>1. ListCategories[a].name = c /\ ListCategories[a].count = Cardinality(Places(c))
      BY <2>5, CountsFacts
    <3>2. c # ""
      <4>1. c \in {Known[k].cat : k \in 1..Len(Known)}
        BY <2>5, CategoriesFacts DEF Range
      <4> QED BY <4>1, KnownFacts
    <3> HIDE DEF c
    <3>3. ListKnownMetrics(fullRegistry, c) = Filter(fullRegistry, InCategory(fullRegistry, c))
      BY <3>2 DEF ListKnownMetrics
    <3>4. Len(Filter(fullRegistry, InCategory(fullRegistry, c))) = Cardinality(Places(c))
      BY <2>3, <2>4, PlacesCounted
    <3> QED BY <3>1, <3>3, <3>4
  <2>9. Total(ListCategories) = Len(ListKnownMetrics(fullRegistry, ""))
    BY <2>3, CountsAddUp DEF ListKnownMetrics
  <2> QED BY <2>6, <2>7, <2>8, <2>9 DEF CategoriesPartition
<1> QED BY <1>1, RegistryCorrect, UsesRegistry, PTL

\* A name is struck off once, at its one turn; no issue means nothing was wrong.
LEMMA CheckedFacts ==
  ASSUME NEW reg \in Seq(Entries)
  PROVE  /\ Checked(reg).kernelMetrics = NamesOf(reg) \ {Known[j].name : j \in 1..Len(Known)}
         /\ Checked(reg).issues = {} <=> FirstGood(reg, Len(Known))
<1>1. PICK n \in Nat : n = Len(Known) /\ DOMAIN Known = 1..n
  BY KnownFacts
<1>2. PICK h \in [0..n -> CheckStates(reg)] : CheckedRun(h, reg)
  BY <1>1, CheckedTrace
<1> DEFINE Before(k) == {Known[j].name : j \in 1..k}
           Fine(k) == h[k].issues = {} <=> FirstGood(reg, k)
           S == {k \in 0..n : h[k].kernelMetrics = NamesOf(reg) \ Before(k) /\ Fine(k)}
<1>3. 0 \in S
  <2>1. h[0] = [kernelMetrics |-> NamesOf(reg), issues |-> {"duplicate" : k \in Repeats(reg)}]
    BY <1>2 DEF CheckedRun
  <2>2. h[0].kernelMetrics = NamesOf(reg) /\ h[0].issues = {"duplicate" : k \in Repeats(reg)}
    BY <2>1
  <2>3. Before(0) = {}
    OBVIOUS
  <2>4. Fine(0)
    BY <2>2 DEF FirstGood
  <2> QED BY <2>2, <2>3, <2>4
<1>4. ASSUME NEW k \in 1..n, k - 1 \in S PROVE k \in S
  <2> DEFINE nm == Known[k].name
             st == h[k - 1]
             found == EntryIssues(EntryOf(reg, nm))
  <2>1. h[k] = CheckKnown(KernelRegistryByName(reg), st, Known[k])
    BY <1>1, <1>2 DEF CheckedRun
  <2>2. st \in CheckStates(reg)
    OBVIOUS
  <2>3. 1..k = (1..(k - 1)) \cup {k}
    OBVIOUS
  <2>4. st.kernelMetrics = NamesOf(reg) \ Before(k - 1) /\ Fine(k - 1)
    BY <1>4
  <2>5. nm \notin Before(k - 1)
    <3>1. \A j \in 1..(k - 1) : j \in DOMAIN Known /\ k \in DOMAIN Known /\ j # k
      BY <1>1
    <3> QED BY <3>1, KnownAssumption
  <2>6. Before(k) = Before(k - 1) \cup {nm}
    BY <2>3
  <2>7. nm \in st.kernelMetrics <=> nm \in NamesOf(reg)
    BY <2>4, <2>5
  <2>8. FirstGood(reg, k) <=> FirstGood(reg, k - 1) /\ nm \in NamesOf(reg) /\ found = {}
    BY <2>3 DEF FirstGood
  <2> HIDE DEF nm, found, Before
  <2>9. CASE nm \in NamesOf(reg)
    <3>1. h[k] = [kernelMetrics |-> st.kernelMetrics \ {nm}, issues |-> st.issues \cup found]
      BY <2>1, <2>7, <2>9 DEF CheckKnown, nm, found, EntryOf
    <3>2. h[k].kernelMetrics = st.kernelMetrics \ {nm} /\ h[k].issues = st.issues \cup found
      BY <3>1
    <3>3. h[k].kernelMetrics = NamesOf(reg) \ Before(k)
      BY <2>4, <2>6, <3>2
    <3>4. Fine(k)
      BY <2>4, <2>8, <2>9, <3>2
    <3> QED BY <3>3, <3>4
  <2>10. CASE nm \notin NamesOf(reg)
    <3>1. h[k] = [st EXCEPT !.issues = @ \cup {"missing"}]
      BY <2>1, <2>7, <2>10 DEF CheckKnown, nm
    <3>2. h[k].kernelMetrics = st.kernelMetrics /\ h[k].issues # {}
      BY <2>2, <3>1 DEF CheckStates
    <3>3. h[k].kernelMetrics = NamesOf(reg) \ Before(k)
      BY <2>4, <2>6, <2>10, <3>2
    <3>4. Fine(k)
      BY <2>8, <2>10, <3>2
    <3> QED BY <3>3, <3>4
  <2> QED BY <2>9, <2>10
<1>5. n \in S
  <2> HIDE DEF S
  <2>1. \A k \in 1..n : k - 1 \in S => k \in S
    BY <1>4
  <2>2. \A k \in 0..n : k \in S
    BY <1>3, <2>1, UpTo, Zenon
  <2> QED BY <2>2
<1> QED BY <1>1, <1>2, <1>5 DEF CheckedRun

\* A list of entries has as many names as entries exactly if none repeats one.
LEMMA NamesCounted ==
  ASSUME NEW reg \in Seq(Entries)
  PROVE  Repeats(reg) = {} <=> Cardinality(NamesOf(reg)) = Len(reg)
<1>1. PICK n \in Nat : n = Len(reg) /\ DOMAIN reg = 1..n
  OBVIOUS
<1> DEFINE f == [k \in 1..n |-> reg[k].name]
<1>2. f \in Surjection(1..n, NamesOf(reg))
  <2>1. NamesOf(reg) = {reg[k].name : k \in 1..n}
    BY <1>1 DEF NamesOf, Range
  <2> QED BY <2>1 DEF Surjection
<1>3. IsFiniteSet(1..n) /\ Cardinality(1..n) = n
  BY FS_Interval
<1>4. IsFiniteSet(NamesOf(reg))
  <2> HIDE DEF f
  <2> QED BY <1>2, <1>3, FS_Surjection
<1>5. Repeats(reg) = {} <=> \A j, k \in 1..n : f[j] = f[k] => j = k
  <2>1. ASSUME Repeats(reg) = {}, NEW j \in 1..n, NEW k \in 1..n, f[j] = f[k] PROVE j = k
    <3>1. \A a, b \in 1..n : a < b => reg[a].name # reg[b].name
      BY <1>1, <2>1 DEF Repeats
    <3> QED BY <2>1, <3>1
  <2>2. ASSUME \A j, k \in 1..n : f[j] = f[k] => j = k PROVE Repeats(reg) = {}
    BY <1>1, <2>2 DEF Repeats
  <2> QED BY <2>1, <2>2
<1>6. Cardinality(NamesOf(reg)) = n <=> f \in Injection(1..n, NamesOf(reg))
  <2> HIDE DEF f
  <2> QED BY <1>2, <1>3, FS_Surjection
<1>7. f \in Injection(1..n, NamesOf(reg)) <=> \A j, k \in 1..n : f[j] = f[k] => j = k
  <2>1. f \in [1..n -> NamesOf(reg)] /\ DOMAIN f = 1..n
    BY <1>2 DEF Surjection
  <2> HIDE DEF f
  <2> QED BY <2>1 DEF Injection, IsInjective
<1> QED BY <1>1, <1>5, <1>6, <1>7

\* Without repeats, the entry that is looked at is the entry of the name.
LEMMA EntryFacts ==
  ASSUME NEW reg \in Seq(Entries), Repeats(reg) = {}, NEW k \in DOMAIN reg
  PROVE  EntryOf(reg, reg[k].name) = reg[k]
<1>1. PICK n \in Nat : n = Len(reg) /\ DOMAIN reg = 1..n
  OBVIOUS
<1> DEFINE S == {j \in DOMAIN reg : reg[j].name = reg[k].name}
<1>2. S = {k}
  <2>1. ASSUME NEW a \in 1..n, NEW b \in 1..n, a < b PROVE reg[a].name # reg[b].name
    <3>1. a \in 1..(b - 1)
      BY <2>1
    <3> QED BY <1>1, <3>1 DEF Repeats
  <2>2. ASSUME NEW j \in 1..n, reg[j].name = reg[k].name PROVE j = k
    BY <1>1, <2>1, <2>2
  <2> QED BY <1>1, <2>2
<1>3. Max(S) \in S
  <2>1. S \subseteq 0..n /\ S # {}
    BY <1>1
  <2> HIDE DEF S
  <2> QED BY <2>1, MaxFacts
<1>4. EntryOf(reg, reg[k].name) = reg[Max(S)]
  <2>1. reg[k].name \in {km.name : km \in Range(reg)}
    BY DEF Range
  <2> QED BY <2>1 DEF EntryOf, KernelRegistryByName
<1> HIDE DEF S
<1> QED BY <1>2, <1>3, <1>4

\* ValidateRegistry decides whether a list of entries is consistent.
LEMMA ValidatorDecides ==
  ASSUME NEW reg \in Seq(Entries)
  PROVE  ValidateRegistry(reg) = {} <=> Consistent(reg)
<1>1. KnownNames = {Known[j].name : j \in 1..Len(Known)}
  BY KnownFacts DEF KnownNames, Range
<1>2. ValidateRegistry(reg) = {} <=> FirstGood(reg, Len(Known)) /\ NamesOf(reg) \subseteq KnownNames
  <2>1. ValidateRegistry(reg) = {} <=> Checked(reg).issues = {} /\ Checked(reg).kernelMetrics = {}
    BY DEF ValidateRegistry
  <2> QED BY <1>1, <2>1, CheckedFacts
<1> DEFINE Good(km) == /\ km.kernel # Nil /\ km.rec # Nil
                       /\ Scheduled(km.rec.pattern) => km.rec.ttl # NoTtl
<1>3. \A km : EntryIssues(km) = {} <=> Good(km)
  BY DEF EntryIssues
<1>4. Consistent(reg) <=> /\ Repeats(reg) = {} /\ NamesOf(reg) = KnownNames
                          /\ \A km \in Range(reg) : Good(km)
  BY NamesCounted DEF Consistent, NamesOf
<1> HIDE DEF Good
<1>5. ASSUME Repeats(reg) = {}, NamesOf(reg) = KnownNames
      PROVE  (\A km \in Range(reg) : Good(km))
               <=> \A j \in 1..Len(Known) : EntryIssues(EntryOf(reg, Known[j].name)) = {}
  <2>1. ASSUME \A km \in Range(reg) : Good(km), NEW j \in 1..Len(Known)
        PROVE  EntryIssues(EntryOf(reg, Known[j].name)) = {}
    <3>1. PICK k \in DOMAIN reg : reg[k].name = Known[j].name
      <4>1. Known[j].name \in NamesOf(reg)
        BY <1>1, <1>5
      <4> QED BY <4>1 DEF NamesOf, Range
    <3>2. EntryOf(reg, Known[j].name) = reg[k] /\ reg[k] \in Range(reg)
      BY <1>5, <3>1, EntryFacts DEF Range
    <3> QED BY <1>3, <2>1, <3>2
  <2>2. ASSUME \A j \in 1..Len(Known) : EntryIssues(EntryOf(reg, Known[j].name)) = {},
               NEW k \in DOMAIN reg
        PROVE  Good(reg[k])
    <3>1. PICK j \in 1..Len(Known) : reg[k].name = Known[j].name
      BY <1>1, <1>5 DEF NamesOf, Range
    <3>2. EntryOf(reg, Known[j].name) = reg[k]
      BY <1>5, <3>1, EntryFacts
    <3> QED BY <1>3, <2>2, <3>2
  <2> QED BY <2>1, <2>2 DEF Range
<1>6. FirstGood(reg, Len(Known)) <=>
         /\ Repeats(reg) = {} /\ KnownNames \subseteq NamesOf(reg)
         /\ \A j \in 1..Len(Known) : EntryIssues(EntryOf(reg, Known[j].name)) = {}
  BY <1>1 DEF FirstGood
<1> QED BY <1>2, <1>4, <1>5, <1>6

\* For every Known table and whatever happened to the file: ValidateRegistry, which
\* strikes off names as it goes and sees one of several entries of a name, reports
\* no issue exactly if the file is consistent.
THEOREM ValidatorIsExact == CSpec => []ValidatorExact
<1>1. RegistryInv => ValidatorExact
  BY ValidatorDecides DEF RegistryInv, ValidatorExact
<1> QED BY <1>1, RegistryCorrect, UsesRegistry, PTL

\* Every category of registry.go has a case in classifyRecommended: no metric is
\* left to live reads, and what is scheduled has a TTL.
LEMMA RecommendedFacts ==
  ASSUME NEW name, NEW cat \in Category
  PROVE  LET rec == classifyRecommended(name, cat)
         IN  /\ rec.pattern # "DYNAMIC"
             /\ Scheduled(rec.pattern) => rec.ttl # NoTtl
<1> DEFINE rec == classifyRecommended(name, cat)
<1>1. \/ cat \in HWCats \/ cat = "kern.identity" \/ cat \in TenSecondCats
      \/ cat \in ThirtySecondCats \/ cat \in MinuteCats
  BY DEF Category, HWCats, TenSecondCats, ThirtySecondCats, MinuteCats
<1>2. cat \in HWCats => RecStatic(name, cat)
  BY DEF RecStatic
<1>3. cat = "kern.identity" => RecStatic(name, cat) \/ name \in writableTunables
  BY DEF RecStatic
<1>4. \/ rec = Bare("STATIC") \/ rec = [pattern |-> "CONSTRAINED", ttl |-> 60000]
      \/ rec = Sec(10) \/ rec = Sec(30) \/ rec = Sec(60)
  BY <1>1, <1>2, <1>3 DEF classifyRecommended
<1> HIDE DEF rec
<1>5. CASE rec = Bare("STATIC")
  BY <1>5 DEF Bare, Scheduled, rec
<1>6. CASE rec = [pattern |-> "CONSTRAINED", ttl |-> 60000]
  BY <1>6 DEF NoTtl, rec
<1>7. ASSUME NEW n \in {10, 30, 60}, rec = Sec(n) PROVE rec.pattern # "DYNAMIC" /\ rec.ttl # NoTtl
  BY <1>7 DEF Sec, NoTtl
<1>8. rec.pattern # "DYNAMIC" /\ (Scheduled(rec.pattern) => rec.ttl # NoTtl)
  <2>1. CASE rec = Bare("STATIC")
    BY <2>1 DEF Bare, Scheduled
  <2>2. CASE rec = [pattern |-> "CONSTRAINED", ttl |-> 60000]
    BY <2>2 DEF NoTtl
  <2> QED BY <1>4, <1>7, <2>1, <2>2
<1> QED BY <1>8 DEF rec

\* Until it is edited, the file is what the generator has written so far.
GeneratorInv ==
    /\ edits \in Nat
    /\ edits = 0 => /\ Len(file) <= Len(Known)
                    /\ \A k \in 1..Len(file) : file[k] = Generated(Known[k])

\* Every step keeps it so.
LEMMA GeneratorStep == RegistryInv /\ GeneratorInv /\ [Next]_vars => GeneratorInv'
<1> SUFFICES ASSUME RegistryInv, GeneratorInv, [Next]_vars PROVE GeneratorInv'
  OBVIOUS
<1>0. file \in Seq(Entries) /\ Len(file) \in Nat /\ Len(Known) \in Nat
  <2>1. file \in Seq(Entries)
    BY DEF RegistryInv
  <2>2. Len(file) \in Nat
    BY <2>1
  <2> QED BY <2>1, <2>2, KnownFacts
<1>1. CASE GenerateEntry
  <2>1. Len(file) < Len(Known) /\ edits' = edits
    BY <1>0, <1>1 DEF GenerateEntry, Done
  <2>2. file' = Append(file, Generated(Known[Len(file) + 1]))
    BY <1>1 DEF GenerateEntry
  <2>3. /\ Len(file') = Len(file) + 1
        /\ \A k \in 1..Len(file) : file'[k] = file[k]
        /\ file'[Len(file) + 1] = Generated(Known[Len(file) + 1])
    BY <1>0, <2>2
  <2>4. ASSUME edits' = 0, NEW k \in 1..Len(file') PROVE file'[k] = Generated(Known[k])
    <3>1. k \in 1..Len(file) \/ k = Len(file) + 1
      BY <1>0, <2>3
    <3> QED BY <2>1, <2>3, <2>4, <3>1 DEF GeneratorInv
  <2> QED BY <1>0, <2>1, <2>3, <2>4 DEF GeneratorInv
<1>2. CASE RemoveEntry \/ CopyEntry \/ RenameEntry \/ SetRecommended \/ UnsetKernel \/ Garble
  <2>1. edits' = edits + 1
    BY <1>2 DEF RemoveEntry, CopyEntry, RenameEntry, SetRecommended, UnsetKernel, Garble, Edit
  <2> QED BY <2>1 DEF GeneratorInv
<1>3. ASSUME NEW v \in OsVersions, New(v) PROVE GeneratorInv'
  BY <1>3 DEF New, GeneratorInv
<1>4. CASE UNCHANGED vars
  BY <1>4 DEF vars, GeneratorInv
<1> QED BY <1>1, <1>2, <1>3, <1>4 DEF Next

\* What the generator has written for all of Known is consistent and leaves nothing
\* to live reads.
LEMMA GeneratedFacts ==
  ASSUME file \in Seq(Entries), Len(file) = Len(Known),
         \A k \in 1..Len(file) : file[k] = Generated(Known[k])
  PROVE  Consistent(file) /\ \A km \in Range(file) : km.rec.pattern # "DYNAMIC"
<1>1. PICK n \in Nat : n = Len(Known) /\ DOMAIN Known = 1..n /\ DOMAIN file = 1..n
  <2>1. DOMAIN file = 1..Len(file)
    OBVIOUS
  <2> QED BY <2>1, KnownFacts
<1>2. ASSUME NEW k \in 1..n
      PROVE  /\ file[k].name = Known[k].name
             /\ file[k].kernel # Nil /\ file[k].rec # Nil
             /\ file[k].rec.pattern # "DYNAMIC"
             /\ Scheduled(file[k].rec.pattern) => file[k].rec.ttl # NoTtl
  <2> DEFINE name == Known[k].name
             cat == Known[k].cat
  <2>1. file[k] = [name |-> name, kernel |-> Bare(classifyKernel(name, cat)),
                   rec |-> classifyRecommended(name, cat)]
    BY <1>1 DEF Generated
  <2>2. /\ file[k].name = name /\ file[k].kernel = Bare(classifyKernel(name, cat))
        /\ file[k].rec = classifyRecommended(name, cat)
    BY <2>1
  <2>3. cat \in Category
    BY <1>1, KnownAssumption
  <2>4. file[k].kernel \in Patterns
    <3>1. classifyKernel(name, cat) \in PatternNames
      <4> HIDE DEF name, cat
      <4> QED BY DEF classifyKernel, PatternNames
    <3> QED BY <2>2, <3>1 DEF Bare, NoTtl, Patterns
  <2>5. file[k].rec \in Patterns
    <3>1. ASSUME NEW p \in PatternNames, NEW t \in Int PROVE [pattern |-> p, ttl |-> t] \in Patterns
      BY DEF Patterns
    <3>2. /\ Bare("STATIC") \in Patterns /\ Bare("DYNAMIC") \in Patterns /\ Sec(10) \in Patterns
          /\ Sec(30) \in Patterns /\ Sec(60) \in Patterns
          /\ [pattern |-> "CONSTRAINED", ttl |-> 60000] \in Patterns
      BY <3>1 DEF Bare, Sec, NoTtl, PatternNames
    <3> QED BY <2>2, <3>2 DEF classifyRecommended
  <2>6. Nil \notin Patterns
    BY RegistryAssumption
  <2> HIDE DEF name, cat
  <2>7. /\ classifyRecommended(name, cat).pattern # "DYNAMIC"
        /\ Scheduled(classifyRecommended(name, cat).pattern)
             => classifyRecommended(name, cat).ttl # NoTtl
    BY <2>3, RecommendedFacts
  <2>8. file[k].kernel # Nil /\ file[k].rec # Nil
    BY <2>4, <2>5, <2>6
  <2> QED BY <2>2, <2>7, <2>8 DEF name
<1>3. Cardinality(NamesOf(file)) = Len(file)
  <2>1. ASSUME NEW k \in 1..n, NEW j \in 1..(k - 1) PROVE file[j].name # file[k].name
    <3>1. j \in 1..n /\ j # k
      OBVIOUS
    <3> QED BY <1>1, <1>2, <3>1, KnownAssumption
  <2>2. Repeats(file) = {}
    BY <1>1, <2>1 DEF Repeats
  <2> QED BY <2>2, NamesCounted
<1>4. NamesOf(file) = KnownNames
  <2>1. NamesOf(file) = {file[k].name : k \in 1..n}
    BY <1>1 DEF NamesOf, Range
  <2>2. KnownNames = {Known[k].name : k \in 1..n}
    BY <1>1 DEF KnownNames, Range
  <2> QED BY <1>2, <2>1, <2>2
<1>5. \A km \in Range(file) : \E k \in 1..n : km = file[k]
  BY <1>1 DEF Range
<1> QED BY <1>2, <1>3, <1>4, <1>5 DEF Consistent, NamesOf

\* For every Known table with the categories of registry.go and every set of
\* tunables: the generator's output passes the validator, and no category falls
\* through classifyRecommended to DYNAMIC.
THEOREM GeneratorIsComplete == CSpec => []GeneratedIsComplete
<1>1. Init => GeneratorInv
  <2>1. Len(Known) \in Nat
    BY KnownFacts
  <2> QED BY <2>1 DEF Init, GeneratorInv
<1>2. RegistryInv /\ GeneratorInv => GeneratedIsComplete
  <2> SUFFICES ASSUME RegistryInv, GeneratorInv, Done, edits = 0
               PROVE  ValidateRegistry(file) = {} /\ \A km \in Range(file) : km.rec.pattern # "DYNAMIC"
    BY DEF GeneratedIsComplete
  <2>1. file \in Seq(Entries) /\ Len(file) \in Nat /\ Len(Known) \in Nat
    <3>1. file \in Seq(Entries)
      BY DEF RegistryInv
    <3>2. Len(file) \in Nat
      BY <3>1
    <3> QED BY <3>1, <3>2, KnownFacts
  <2>2. Len(file) = Len(Known) /\ \A k \in 1..Len(file) : file[k] = Generated(Known[k])
    BY <2>1 DEF GeneratorInv, Done
  <2> QED BY <2>1, <2>2, GeneratedFacts, ValidatorDecides
<1> QED BY <1>1, <1>2, GeneratorStep, RegistryCorrect, UsesRegistry, PTL DEF Spec

KnownList == [j \in DOMAIN Known |-> Known[j].name]

\* Nothing is printed before the last answer; -all asks for what Known lists, however
\* often the server was started anew since it asked for the list.
ClientInv ==
    /\ run = Nil => ~waiting /\ exit = Nil /\ out = << >>
    /\ waiting \in BOOLEAN /\ (waiting => exit = Nil)
    /\ exit # 0 => out = << >>
    /\ calls = 2 => names = KnownList
    /\ run # Nil /\ exit = 0 /\ Mode = "all" => out = printGrouped(GetMetrics(KnownList))

\* A server that was started lists the names of Known, in order.
LEMMA ServesKnown ==
  RegistryInv /\ Serving => [j \in DOMAIN fullRegistry |-> fullRegistry[j].name] = KnownList
<1> SUFFICES ASSUME RegistryInv, Serving
             PROVE  [j \in DOMAIN fullRegistry |-> fullRegistry[j].name] = KnownList
  OBVIOUS
<1>1. fullRegistry = FullRegistry(kernelRegistry)
  BY DEF RegistryInv, Serving
<1>2. kernelRegistry = Nil \/ kernelRegistry \in Seq(Entries)
  BY DEF RegistryInv
<1>3. DOMAIN fullRegistry = DOMAIN Known
  BY <1>1 DEF FullRegistry
<1>4. \A j \in DOMAIN Known : fullRegistry[j].name = Known[j].name
  BY <1>1, <1>2, MergeFacts
<1> QED BY <1>3, <1>4 DEF KnownList

\* The answers to -all's second request are those for Known.
LEMMA AnswersFacts == AnswersKnown(GetMetrics(KnownList))
<1> DEFINE ms == GetMetrics(KnownList)
<1>1. PICK n \in Nat : n = Len(Known) /\ DOMAIN Known = 1..n
  BY KnownFacts
<1>2. ms = [j \in 1..n |-> MetricOf(Known[j].name)]
  BY <1>1 DEF GetMetrics, KnownList
<1>3. ASSUME NEW k \in 1..n
      PROVE  /\ MetricOf(Known[k].name) \in Metrics
             /\ MetricOf(Known[k].name).name = Known[k].name
             /\ MetricOf(Known[k].name).cat = Known[k].cat
  <2> DEFINE nm == Known[k].name
             info == CHOOSE i \in Range(Known) : i.name = nm
  <2>1. Known[k] \in Range(Known)
    BY <1>1 DEF Range
  <2>2. nm \in KnownNames
    BY <2>1 DEF KnownNames
  <2>3. info \in Range(Known) /\ info.name = nm
    BY <2>1
  <2>4. PICK j \in 1..n : info = Known[j]
    BY <1>1, <2>3 DEF Range
  <2>5. j = k
    BY <1>1, <2>3, <2>4, KnownAssumption
  <2>6. MetricOf(nm) = [name |-> nm, cat |-> Known[k].cat, error |-> nm \in Unreadable]
    BY <2>2, <2>4, <2>5 DEF MetricOf
  <2>7. nm \in STRING /\ Known[k].cat \in STRING
    BY <1>1, KnownFacts
  <2> HIDE DEF nm
  <2> QED BY <2>6, <2>7 DEF Metrics, nm
<1>4. ms \in Seq(Metrics) /\ Len(ms) = n
  BY <1>2, <1>3
<1> HIDE DEF ms
<1> QED BY <1>1, <1>2, <1>3, <1>4 DEF AnswersKnown, ms

\* Every step of the client and of the servers keeps the client's invariant.
LEMMA ClientStep == RegistryInv /\ ClientInv /\ [CNext]_systemVars => ClientInv'
<1> SUFFICES ASSUME RegistryInv, ClientInv, [CNext]_systemVars PROVE ClientInv'
  OBVIOUS
<1> USE DEF ClientInv
<1>0. Nil \notin Flags /\ Nil # 0
  BY ClientAssumption
<1>1. ASSUME NEW f \in Flags, Start(f) PROVE ClientInv'
  <2>1. /\ run = Nil /\ run' = f /\ UNCHANGED <<out, names>>
        /\ \/ exit' = 1 /\ UNCHANGED <<calls, waiting>>
           \/ calls' = 1 /\ waiting' = TRUE /\ exit' = exit
    BY <1>1 DEF Start
  <2>2. run' # Nil /\ out' = << >> /\ ~ waiting /\ exit = Nil
    BY <1>0, <2>1
  <2>3. CASE exit' = 1 /\ UNCHANGED <<calls, waiting>>
    <3>1. exit' # 0
      BY <2>3
    <3> QED BY <2>1, <2>2, <2>3, <3>1, Zenon
  <2>4. CASE calls' = 1 /\ waiting' = TRUE /\ exit' = exit
    <3>1. exit' # 0 /\ calls' # 2
      BY <1>0, <2>2, <2>4
    <3> QED BY <2>1, <2>2, <2>4, <3>1, Zenon
  <2> QED BY <2>1, <2>3, <2>4
<1>2. ASSUME NEW f \in Flags, BadAddress(f) PROVE ClientInv'
  <2>1. /\ run' # Nil /\ exit' = 1 /\ out' = << >> /\ ~ waiting /\ waiting' = waiting
        /\ UNCHANGED <<calls, names>>
    BY <1>0, <1>2 DEF BadAddress
  <2>2. exit' # 0
    BY <2>1
  <2> QED BY <2>1, <2>2, Zenon
<1>3. CASE AnswerOne
  <2>1. Mode # "all" /\ Mode' = Mode
    BY <1>3 DEF AnswerOne, Finish, Mode
  <2>2. run # Nil /\ waiting' = FALSE /\ exit' = 0 /\ UNCHANGED <<run, calls, names>>
    BY <1>3 DEF AnswerOne, Answered, Finish
  <2> QED BY <2>1, <2>2
<1>4. CASE AnswerList
  <2>1. names' = KnownList
    BY <1>4, ServesKnown DEF AnswerList, Answered, Serving
  <2>2. UNCHANGED <<run, waiting, out, exit>> /\ exit = Nil /\ run # Nil
    BY <1>4 DEF AnswerList, Answered
  <2> QED BY <1>0, <2>1, <2>2
<1>5. CASE AnswerAll
  <2>1. out' = printGrouped(GetMetrics(KnownList))
    BY <1>5 DEF AnswerAll, Finish
  <2>2. run # Nil /\ waiting' = FALSE /\ exit' = 0 /\ UNCHANGED <<run, calls, names>>
    BY <1>5 DEF AnswerAll, Answered, Finish
  <2> QED BY <2>1, <2>2
<1>6. CASE RpcFails \/ DeadlineExceeded
  <2>1. waiting /\ exit' = 1 /\ waiting' = FALSE /\ UNCHANGED <<run, calls, names, out>>
    BY <1>6 DEF RpcFails, DeadlineExceeded, Fatal
  <2>2. exit' # 0 /\ run' # Nil /\ out' = << >>
    <3>1. exit = Nil
      BY <2>1
    <3> QED BY <1>0, <2>1, <3>1
  <2> QED BY <2>1, <2>2, Zenon
<1>7. CASE Expire \/ UNCHANGED clientVars \/ UNCHANGED systemVars
  <2>1. UNCHANGED <<run, calls, waiting, names, out, exit>>
    BY <1>7 DEF Expire, clientVars, systemVars
  <2>2. Mode' = Mode
    BY <2>1 DEF Mode
  <2> QED BY <2>1, <2>2, Zenon
<1> QED BY <1>1, <1>2, <1>3, <1>4, <1>5, <1>6, <1>7 DEF CNext

\* For every Known table, command line and registry file, with the server stopped or
\* started anew at any moment: -all shows every metric once, below the heading of its
\* category, or shows nothing and fails.
THEOREM AllIsShown == CSpec => []AllShowsAll
<1>1. CInit => ClientInv
  <2> SUFFICES ASSUME CInit PROVE ClientInv
    OBVIOUS
  <2>1. run = Nil /\ calls = 0 /\ waiting = FALSE /\ out = << >> /\ exit = Nil
    BY DEF CInit
  <2>2. exit # 0 /\ calls # 2
    BY <2>1, ClientAssumption
  <2> QED BY <2>1, <2>2, Zenon DEF ClientInv
<1>2. ClientInv => AllShowsAll
  <2> SUFFICES ASSUME ClientInv, run # Nil PROVE AllShowsAll
    BY DEF AllShowsAll
  <2>1. exit = 1 => out = << >>
    BY DEF ClientInv
  <2>2. ASSUME exit = 0, Mode = "all"
        PROVE  LET shown == Lines({"value", "ERROR"})
               IN /\ Len(shown) = Len(Known)
                  /\ \A j \in DOMAIN Known : shown[j].name = Known[j].name
                  /\ Len(Lines({"heading"})) = Len(Categories)
                  /\ \A p \in DOMAIN out, j \in DOMAIN Known :
                        out[p].line # "heading" /\ out[p].name = Known[j].name =>
                           /\ HeadingsTo(p) # {}
                           /\ out[Max(HeadingsTo(p))].name = Known[j].cat
    <3>1. out = printGrouped(GetMetrics(KnownList))
      BY <2>2 DEF ClientInv
    <3>2. PICK n \in Nat : n = Len(Known) /\ DOMAIN Known = 1..n
      BY KnownFacts
    <3>3. /\ out \in Seq(TextLines)
          /\ Len(Filter(out, MetricLines)) = n
          /\ \A j \in 1..n : Filter(out, MetricLines)[j].name = Known[j].name
          /\ Len(Filter(out, HeadingLines)) = Len(Categories)
          /\ Sorted(out, n)
      BY <3>1, <3>2, AnswersFacts, GroupedFacts
    <3>4. Lines({"value", "ERROR"}) = Filter(out, MetricLines) /\ Lines({"heading"}) = Filter(out, HeadingLines)
      BY DEF Lines, MetricLines, HeadingLines
    <3>5. ASSUME NEW p \in DOMAIN out, NEW j \in DOMAIN Known,
                 out[p].line # "heading", out[p].name = Known[j].name
          PROVE  HeadingsTo(p) # {} /\ out[Max(HeadingsTo(p))].name = Known[j].cat
      <4>1. p \in 1..Len(out)
        BY <3>3
      <4>2. PICK i \in 1..n : out[p].name = Known[i].name /\ HeadIs(out, p, Known[i].cat)
        BY <3>3, <3>5, <4>1 DEF Sorted
      <4>3. i = j
        BY <3>2, <3>5, <4>2, KnownAssumption
      <4>4. Heads(out, p) = HeadingsTo(p)
        BY DEF Heads, HeadingsTo
      <4> QED BY <4>2, <4>3, <4>4 DEF HeadIs
    <3> QED BY <3>2, <3>3, <3>4, <3>5
  <2> QED BY <2>1, <2>2 DEF AllShowsAll
<1>3. CSpec => []RegistryInv
  BY RegistryCorrect, UsesRegistry, PTL
<1>4. CSpec => []ClientInv
  BY <1>1, <1>3, ClientStep, PTL DEF CSpec
<1> QED BY <1>2, <1>4, PTL
=============================================================================
