----------------------------- MODULE FoldProofs -----------------------------
(***************************************************************************)
(* What the loops of the models compute.  A loop of the program is a fold  *)
(* of the model, and a fold is defined by recursion on the set of the      *)
(* positions it has still to visit.  The lemmas here say that the equation *)
(* of a fold has a solution, so that the fold satisfies it, and give the   *)
(* induction along its positions.  A step of a fold is a function here,    *)
(* which the provers can instantiate where an operator they cannot.        *)
(***************************************************************************)
EXTENDS Loops, SequenceTheorems, FiniteSetTheorems, WellFoundedInduction, TLAPS

-----------------------------------------------------------------------------
(* The least and the greatest of a set, and induction. *)

\* Every nonempty set of naturals has a least element.
LEMMA MinFacts ==
  ASSUME NEW S, S \subseteq Nat, S # {}
  PROVE  Min(S) \in S /\ \A y \in S : Min(S) <= y
<1> DEFINE R == OpToRel(<, Nat)
<1>1. \A x, y \in Nat : <<y, x>> \in R <=> y < x
  BY DEF OpToRel
<1>2. IsWellFoundedOn(R, Nat)
  BY NatLessThanWellFounded
<1>3. \E x \in S : \A y \in S : ~ (<<y, x>> \in R)
  <2> HIDE DEF R
  <2> QED BY <1>2, WFMin
<1> HIDE DEF R
<1>4. PICK x \in S : \A y \in S : ~ (<<y, x>> \in R)
  BY <1>3
<1>5. ASSUME NEW y \in S PROVE x <= y
  <2>1. x \in Nat /\ y \in Nat /\ ~ (y < x)
    BY <1>1, <1>4
  <2> QED BY <2>1
<1> QED BY <1>5 DEF Min

\* Every nonempty bounded one has a greatest.
LEMMA MaxFacts ==
  ASSUME NEW b \in Nat, NEW S, S \subseteq 0..b, S # {}
  PROVE  Max(S) \in S /\ \A y \in S : Max(S) >= y
<1> DEFINE T == {b - x : x \in S}
<1>1. T \subseteq Nat /\ T # {}
  <2>1. ASSUME NEW x \in S PROVE b - x \in Nat
    <3>1. x \in 0..b
      OBVIOUS
    <3> QED BY <3>1
  <2> QED BY <2>1
<1>2. Min(T) \in T /\ \A y \in T : Min(T) <= y
  <2> HIDE DEF T
  <2> QED BY <1>1, MinFacts
<1>3. PICK x \in S : Min(T) = b - x
  BY <1>2
<1>4. ASSUME NEW y \in S PROVE x >= y
  <2>1. Min(T) <= b - y
    BY <1>2
  <2>2. x \in Int /\ y \in Int
    OBVIOUS
  <2> HIDE DEF T
  <2> QED BY <1>3, <2>1, <2>2
<1>5. \E z \in S : \A y \in S : z >= y
  BY <1>4
<1> QED BY <1>5 DEF Max

\* Induction up to n, over a set instead of a predicate.
LEMMA UpTo ==
  ASSUME NEW n \in Nat, NEW S, 0 \in S, \A k \in 1..n : k - 1 \in S => k \in S
  PROVE  \A k \in 0..n : k \in S
<1> DEFINE T == {k \in 0..n : k \notin S}
<1> SUFFICES ASSUME T # {} PROVE FALSE
  OBVIOUS
<1>1. T \subseteq Nat
  OBVIOUS
<1>2. Min(T) \in T /\ \A y \in T : Min(T) <= y
  <2> HIDE DEF T
  <2> QED BY <1>1, MinFacts
<1>3. PICK m \in T : \A y \in T : m <= y
  BY <1>2
<1>4. m \in 1..n /\ m \notin S
  OBVIOUS
<1>5. m - 1 \in T
  BY <1>4
<1> QED BY <1>3, <1>4, <1>5

-----------------------------------------------------------------------------
(* Recursion. *)

\* The turns of a loop over the positions D, each a function of the state, and
\* what the state was after each.
Turns(D, V) == [D -> [V -> V]]
Trace(h, n, a, g) == h[0] = a /\ \A k \in 1..n : h[k] = g[k][h[k - 1]]

\* A loop of n turns from a has a trace.
LEMMA TraceExists ==
  ASSUME NEW n \in Nat, NEW V, NEW a \in V, NEW g \in Turns(1..n, V)
  PROVE  \E h \in [0..n -> V] : Trace(h, n, a, g)
<1> USE DEF Turns, Trace
<1> DEFINE T == {m \in 0..n : \E h \in [0..m -> V] : Trace(h, m, a, g)}
<1>1. 0 \in T
  <2> DEFINE h == [k \in 0..0 |-> a]
  <2>1. Trace(h, 0, a, g) /\ h \in [0..0 -> V]
    OBVIOUS
  <2> HIDE DEF h, Trace
  <2> QED BY <2>1
<1>2. ASSUME NEW m \in 1..n, m - 1 \in T PROVE m \in T
  <2>1. PICK h \in [0..(m - 1) -> V] : Trace(h, m - 1, a, g)
    BY <1>2
  <2> DEFINE v == g[m][h[m - 1]]
             f == [k \in 0..m |-> IF k = m THEN v ELSE h[k]]
  <2>2. v \in V
    OBVIOUS
  <2>3. f \in [0..m -> V]
    <3> HIDE DEF v
    <3>1. ASSUME NEW k \in 0..m, k # m PROVE h[k] \in V
      <4>1. k \in 0..(m - 1)
        BY <3>1
      <4> QED BY <4>1
    <3> QED BY <2>2, <3>1
  <2>4. f[0] = a
    BY <2>1
  <2>5. ASSUME NEW k \in 1..m PROVE f[k] = g[k][f[k - 1]]
    <3>1. f[k - 1] = h[k - 1]
      OBVIOUS
    <3>2. CASE k = m
      <4>1. f[k] = v
        BY <3>2
      <4> HIDE DEF f
      <4> QED BY <3>1, <3>2, <4>1
    <3>3. CASE k # m
      <4>1. f[k] = h[k] /\ k \in 1..(m - 1)
        BY <3>3
      <4> HIDE DEF f
      <4> QED BY <2>1, <3>1, <4>1
    <3> QED BY <3>2, <3>3
  <2>6. Trace(f, m, a, g)
    BY <2>4, <2>5
  <2> HIDE DEF f, Trace
  <2> QED BY <2>3, <2>6
<1>3. n \in T
  <2> HIDE DEF T
  <2>1. \A m \in 1..n : m - 1 \in T => m \in T
    BY <1>2
  <2>2. \A m \in 0..n : m \in T
    BY <1>1, <2>1, UpTo, Zenon
  <2> QED BY <2>2
<1> QED BY <1>3

\* The ways to choose the next position of those that are left, and the equation
\* of a fold that chooses so.
NextPositions(D) == {c \in [(SUBSET D) \ {{}} -> D] : \A s \in (SUBSET D) \ {{}} : c[s] \in s}
Solves(it, D, a, g, c) ==
    \A s \in SUBSET D : it[s] = IF s = {} THEN a ELSE g[c[s]][it[s \ {c[s]}]]

\* The equation of a fold over a finite set D has a solution.
LEMMA FoldExists ==
  ASSUME NEW D, IsFiniteSet(D), NEW V, NEW a \in V, NEW g \in Turns(D, V),
         NEW c \in NextPositions(D)
  PROVE  \E it \in [SUBSET D -> V] : Solves(it, D, a, g, c)
<1> USE DEF NextPositions
<1>1. PICK n \in Nat : n = Cardinality(D)
  BY FS_CardinalityType
<1> DEFINE W == [SUBSET D -> V]
           Turn(w) == [s \in SUBSET D |-> IF s = {} THEN a ELSE g[c[s]][w[s \ {c[s]}]]]
           G == [k \in 1..(n + 1) |-> [w \in W |-> Turn(w)]]
           w0 == [s \in SUBSET D |-> a]
<1>2. ASSUME NEW w \in W PROVE Turn(w) \in W
  <2>1. ASSUME NEW s \in SUBSET D, s # {} PROVE g[c[s]][w[s \ {c[s]}]] \in V
    <3>1. c[s] \in D
      BY <2>1
    <3>2. w[s \ {c[s]}] \in V
      OBVIOUS
    <3> QED BY <3>1, <3>2 DEF Turns
  <2> QED BY <2>1
<1>3. w0 \in W
  OBVIOUS
<1>4. G \in Turns(1..(n + 1), W)
  <2> HIDE DEF Turn, W
  <2> QED BY <1>2 DEF Turns
<1>5. PICK h \in [0..(n + 1) -> W] : Trace(h, n + 1, w0, G)
  <2> HIDE DEF G, W, w0
  <2>1. n + 1 \in Nat
    OBVIOUS
  <2> QED BY <1>3, <1>4, <2>1, TraceExists
<1>6. ASSUME NEW k \in 1..(n + 1) PROVE h[k - 1] \in W /\ h[k] = Turn(h[k - 1])
  <2> HIDE DEF Turn, W
  <2>1. h[k - 1] \in W
    BY <1>1
  <2> QED BY <1>5, <2>1 DEF Trace
<1> HIDE DEF G
<1>7. \A s \in SUBSET D : IsFiniteSet(s) /\ Cardinality(s) \in Nat /\ Cardinality(s) <= n
  BY <1>1, FS_Subset, FS_CardinalityType
<1>8. \A s \in (SUBSET D) \ {{}} :
         /\ s \ {c[s]} \in SUBSET D
         /\ Cardinality(s \ {c[s]}) = Cardinality(s) - 1
  BY <1>7, FS_RemoveElement
<1>9. ASSUME NEW k \in 1..(n + 1), NEW s \in SUBSET D
      PROVE  h[k][s] = IF s = {} THEN a ELSE g[c[s]][h[k - 1][s \ {c[s]}]]
  <2>1. h[k] = Turn(h[k - 1])
    BY <1>6
  <2> QED BY <2>1, Zenon
<1>10. \A s \in SUBSET D : Cardinality(s) = 0 => s = {}
  BY <1>7, FS_EmptySet
<1>11. h[0][{}] = a
  BY <1>5 DEF Trace
<1>12. \A k \in 0..(n + 1) : h[k] \in W
  BY <1>5
<1> HIDE DEF W, Turn, w0
\* From the size of s on, a further turn does not change the value for s.
<1> DEFINE Stable == {k \in 0..n : \A s \in SUBSET D : Cardinality(s) <= k => h[k + 1][s] = h[k][s]}
<1>13. 0 \in Stable
  <2>1. ASSUME NEW s \in SUBSET D, Cardinality(s) <= 0 PROVE h[0 + 1][s] = h[0][s]
    <3>1. s = {}
      BY <1>7, <1>10, <2>1
    <3>2. 1 \in 1..(n + 1) /\ 0 + 1 = 1
      OBVIOUS
    <3>3. h[1][s] = a
      BY <1>9, <3>1, <3>2
    <3> QED BY <1>11, <3>1, <3>2, <3>3
  <2> QED BY <2>1
<1>14. ASSUME NEW k \in 1..n, k - 1 \in Stable PROVE k \in Stable
  <2>1. ASSUME NEW s \in SUBSET D, Cardinality(s) <= k PROVE h[k + 1][s] = h[k][s]
    <3> DEFINE r == s \ {c[s]}
    <3>1. (k - 1) + 1 = k /\ k \in 1..(n + 1) /\ k + 1 \in 1..(n + 1) /\ (k + 1) - 1 = k
      OBVIOUS
    <3>2. CASE s = {}
      <4>1. h[k][s] = a /\ h[k + 1][s] = a
        BY <1>9, <3>1, <3>2
      <4> QED BY <4>1
    <3>3. CASE s # {}
      <4>1. r \in SUBSET D /\ Cardinality(r) <= k - 1
        BY <1>7, <1>8, <2>1, <3>3
      <4>2. h[(k - 1) + 1][r] = h[k - 1][r]
        <5> HIDE DEF r
        <5> QED BY <1>14, <4>1
      <4>3. h[k][s] = g[c[s]][h[k - 1][r]]
        BY <1>9, <3>1, <3>3
      <4>4. h[k + 1][s] = g[c[s]][h[(k + 1) - 1][r]]
        BY <1>9, <3>1, <3>3
      <4> HIDE DEF r
      <4> QED BY <3>1, <4>2, <4>3, <4>4
    <3> QED BY <3>2, <3>3
  <2> QED BY <2>1
<1>15. n \in Stable
  <2> HIDE DEF Stable
  <2>1. \A k \in 1..n : k - 1 \in Stable => k \in Stable
    BY <1>14
  <2>2. \A k \in 0..n : k \in Stable
    BY <1>13, <2>1, UpTo, Zenon
  <2> QED BY <2>2
<1>16. \A s \in SUBSET D : h[n + 1][s] = h[n][s]
  BY <1>7, <1>15
<1>17. ASSUME NEW s \in SUBSET D
       PROVE  h[n][s] = IF s = {} THEN a ELSE g[c[s]][h[n][s \ {c[s]}]]
  <2>1. n + 1 \in 1..(n + 1) /\ (n + 1) - 1 = n
    OBVIOUS
  <2>2. h[n + 1][s] = IF s = {} THEN a ELSE g[c[s]][h[(n + 1) - 1][s \ {c[s]}]]
    BY <1>9, <2>1
  <2> QED BY <1>16, <2>1, <2>2
<1>18. h[n] \in [SUBSET D -> V]
  <2>1. n \in 0..(n + 1)
    OBVIOUS
  <2> QED BY <1>12, <2>1, Zenon DEF W
<1>19. Solves(h[n], D, a, g, c)
  BY <1>17, Zenon DEF Solves
<1> QED BY <1>18, <1>19, Zenon

\* An interval from 1 is left by its last element, ...
LEMMA LastLeft ==
  ASSUME NEW k \in Nat, k # 0
  PROVE  Max(1..k) = k /\ (1..k) \ {Max(1..k)} = 1..(k - 1) /\ 1..k # {}
<1>1. 1..k \subseteq 0..k /\ 1..k # {}
  OBVIOUS
<1>2. Max(1..k) \in 1..k /\ \A y \in 1..k : Max(1..k) >= y
  BY <1>1, MaxFacts
<1>3. Max(1..k) = k
  BY <1>2
<1> QED BY <1>1, <1>3

\* ... and an interval up to n by its first.
LEMMA FirstLeft ==
  ASSUME NEW n \in Nat, NEW k \in 1..n
  PROVE  Min(k..n) = k /\ (k..n) \ {Min(k..n)} = (k + 1)..n /\ k..n # {}
<1>1. k..n \subseteq Nat /\ k..n # {}
  OBVIOUS
<1>2. Min(k..n) \in k..n /\ \A y \in k..n : Min(k..n) <= y
  BY <1>1, MinFacts
<1>3. Min(k..n) = k
  BY <1>2
<1> QED BY <1>1, <1>3

\* The equation of FoldLeft, which visits the last of the positions that are left
\* last, for turns g of states in V; and the same where a turn is known only for
\* states in V.
LeftEq(it, n, a, g) ==
    \A p \in SUBSET (1..n) : it[p] = IF p = {} THEN a ELSE g[Max(p)][it[p \ {Max(p)}]]
LeftEqIn(it, n, V, a, g) ==
    \A p \in SUBSET (1..n) :
        /\ p = {} => it[p] = a
        /\ p # {} /\ it[p \ {Max(p)}] \in V => it[p] = g[Max(p)][it[p \ {Max(p)}]]

\* What is left of some positions.
LEMMA LeftRest ==
  ASSUME NEW n \in Nat, NEW p \in SUBSET (1..n), p # {}
  PROVE  Max(p) \in 1..n /\ p \ {Max(p)} \in SUBSET (1..n)
<1>1. p \subseteq 0..n
  OBVIOUS
<1> QED BY <1>1, MaxFacts

\* The equation has a solution, ...
LEMMA LeftEqExists ==
  ASSUME NEW n \in Nat, NEW V, NEW a \in V, NEW g \in Turns(1..n, V)
  PROVE  \E it \in [SUBSET (1..n) -> V] : LeftEq(it, n, a, g)
<1> DEFINE D == 1..n
           c == [s \in (SUBSET D) \ {{}} |-> Max(s)]
<1>1. IsFiniteSet(D)
  BY FS_Interval
<1>2. ASSUME NEW s \in (SUBSET D) \ {{}} PROVE Max(s) \in s
  <2>1. s \subseteq 0..n /\ s # {}
    OBVIOUS
  <2> QED BY <2>1, MaxFacts
<1> HIDE DEF D
<1>3. c \in NextPositions(D)
  BY <1>2 DEF NextPositions
<1>4. \A s \in (SUBSET D) \ {{}} : c[s] = Max(s)
  OBVIOUS
<1> HIDE DEF c
<1>5. g \in Turns(D, V)
  BY DEF D
<1>6. PICK it \in [SUBSET D -> V] : Solves(it, D, a, g, c)
  BY <1>1, <1>3, <1>5, FoldExists
<1>7. ASSUME NEW s \in SUBSET D
      PROVE  it[s] = IF s = {} THEN a ELSE g[Max(s)][it[s \ {Max(s)}]]
  BY <1>4, <1>6 DEF Solves
<1>8. LeftEq(it, n, a, g)
  BY <1>7, Zenon DEF D, LeftEq
<1> QED BY <1>8 DEF D

\* ... and what a solution has for all positions is the end of a trace.
LeftEnd(h, C, n, a, g) == Trace(h, n, a, g) /\ C[1..n] = h[n]

\* A solution of the equation of FoldLeft has, for all positions, the end of a trace.
LEMMA LeftTrace ==
  ASSUME NEW n \in Nat, NEW V, NEW a \in V, NEW g \in Turns(1..n, V),
         NEW C, LeftEqIn(C, n, V, a, g)
  PROVE  \E h \in [0..n -> V] : LeftEnd(h, C, n, a, g)
<1> DEFINE S == {k \in 0..n : C[1..k] \in V}
           h == [k \in 0..n |-> C[1..k]]
<1>1. C[1..0] = a
  <2>1. 1..0 = {} /\ {} \in SUBSET (1..n)
    OBVIOUS
  <2> QED BY <2>1 DEF LeftEqIn
<1>2. ASSUME NEW k \in 1..n, C[1..(k - 1)] \in V
      PROVE  C[1..k] = g[k][C[1..(k - 1)]] /\ C[1..k] \in V
  <2>1. /\ 1..k \in SUBSET (1..n) /\ k \in Nat /\ k # 0
    OBVIOUS
  <2>2. Max(1..k) = k /\ (1..k) \ {Max(1..k)} = 1..(k - 1) /\ 1..k # {}
    BY <2>1, LastLeft
  <2>3. C[1..k] = g[k][C[1..(k - 1)]]
    BY <1>2, <2>1, <2>2 DEF LeftEqIn
  <2> QED BY <1>2, <2>3 DEF Turns
<1>3. \A k \in 0..n : k \in S
  <2>1. 0 \in S
    BY <1>1
  <2>2. \A k \in 1..n : k - 1 \in S => k \in S
    BY <1>2
  <2> HIDE DEF S
  <2> QED BY <2>1, <2>2, UpTo, Zenon
<1>4. \A k \in 0..n : C[1..k] \in V
  BY <1>3
<1>5. h \in [0..n -> V] /\ h[n] = C[1..n]
  BY <1>4
<1>6. h[0] = a /\ \A k \in 1..n : h[k] = g[k][h[k - 1]]
  <2>1. h[0] = a
    BY <1>1
  <2>2. ASSUME NEW k \in 1..n PROVE h[k] = g[k][h[k - 1]]
    <3>1. k - 1 \in 0..n /\ k \in 0..n
      OBVIOUS
    <3>2. C[1..k] = g[k][C[1..(k - 1)]]
      BY <1>2, <1>4, <3>1
    <3> QED BY <3>1, <3>2
  <2> QED BY <2>1, <2>2
<1> HIDE DEF h
<1> QED BY <1>5, <1>6 DEF Trace, LeftEnd

-----------------------------------------------------------------------------
(* The loop that collects. *)

\* Filter, turn by turn.
FilterRun(h, s, T) ==
    /\ h[0] = << >> /\ Filter(s, T) = h[Len(s)]
    /\ \A k \in 1..Len(s) :
          h[k] = IF s[k] \in T THEN Append(h[k - 1], s[k]) ELSE h[k - 1]

\* Filter, the loop that collects the elements in T, runs through the whole sequence.
LEMMA FilterTrace ==
  ASSUME NEW X, NEW s \in Seq(X), NEW T
  PROVE  \E h \in [0..Len(s) -> Seq(X)] : FilterRun(h, s, T)
<1>1. PICK n \in Nat : n = Len(s) /\ \A k \in 1..n : s[k] \in X
  OBVIOUS
<1> DEFINE V == Seq(X)
           op(v, k) == IF s[k] \in T THEN Append(v, s[k]) ELSE v
           g == [k \in 1..n |-> [v \in V |-> op(v, k)]]
           Eq(f) == f = [k \in 0..n |-> IF k = 0 THEN << >>
                                       ELSE IF s[k] \in T THEN Append(f[k - 1], s[k]) ELSE f[k - 1]]
           C == CHOOSE f : Eq(f)
<1>2. Filter(s, T) = C[n]
  BY <1>1 DEF Filter
<1>3. ASSUME NEW v \in V, NEW k \in 1..n PROVE op(v, k) \in V
  BY <1>1
<1>4. << >> \in V
  OBVIOUS
<1>5. g \in Turns(1..n, V)
  <2> HIDE DEF V, op
  <2> QED BY <1>3 DEF Turns
<1>6. PICK h \in [0..n -> V] : Trace(h, n, << >>, g)
  <2> HIDE DEF V, g
  <2> QED BY <1>4, <1>5, TraceExists
<1>7. h[0] = << >> /\ \A k \in 1..n : h[k] = op(h[k - 1], k)
  <2>1. ASSUME NEW k \in 1..n PROVE h[k] = op(h[k - 1], k)
    <3> HIDE DEF op, V
    <3>1. h[k - 1] \in V
      OBVIOUS
    <3> QED BY <1>6, <3>1 DEF Trace
  <2> QED BY <1>6, <2>1 DEF Trace
<1>8. Eq(h)
  <2> HIDE DEF V
  <2>1. \A k \in 0..n : k # 0 => k \in 1..n
    OBVIOUS
  <2> QED BY <1>7, <2>1
<1>9. Eq(C)
  <2> HIDE DEF Eq
  <2> QED BY <1>8
<1> HIDE DEF C
<1>10. /\ C[0] = << >>
       /\ \A k \in 1..n : C[k] = IF s[k] \in T THEN Append(C[k - 1], s[k]) ELSE C[k - 1]
  <2>1. \A k \in 0..n : C[k] = IF k = 0 THEN << >>
                               ELSE IF s[k] \in T THEN Append(C[k - 1], s[k]) ELSE C[k - 1]
    BY <1>9, Zenon
  <2> QED BY <2>1
<1> DEFINE S == {k \in 0..n : C[k] = h[k]}
<1>11. \A k \in 0..n : k \in S
  <2>1. 0 \in S
    BY <1>7, <1>10
  <2>2. ASSUME NEW k \in 1..n, k - 1 \in S PROVE k \in S
    <3>1. C[k - 1] = h[k - 1]
      BY <2>2
    <3>2. C[k] = h[k]
      BY <1>7, <1>10, <3>1, Zenon
    <3> QED BY <3>2
  <2> HIDE DEF S
  <2> QED BY <2>1, <2>2, UpTo, Zenon
<1>12. Filter(s, T) = h[n]
  BY <1>2, <1>11
<1> QED BY <1>1, <1>7, <1>12 DEF V, FilterRun

\* The positions up to k that a loop over s for the elements of T collects.
Hits(s, T, k) == {j \in 1..k : s[j] \in T}

\* They are finitely many, and each new one adds one.
LEMMA HitsFacts ==
  ASSUME NEW s, NEW T, NEW k \in Nat
  PROVE  /\ IsFiniteSet(Hits(s, T, k)) /\ Cardinality(Hits(s, T, k)) \in Nat
         /\ Hits(s, T, 0) = {} /\ Cardinality(Hits(s, T, 0)) = 0
         /\ k # 0 => Cardinality(Hits(s, T, k))
               = Cardinality(Hits(s, T, k - 1)) + (IF s[k] \in T THEN 1 ELSE 0)
<1>1. \A n \in Nat : IsFiniteSet(Hits(s, T, n))
  <2>1. ASSUME NEW n \in Nat PROVE IsFiniteSet(Hits(s, T, n))
    <3>1. IsFiniteSet(1..n) /\ Hits(s, T, n) \subseteq 1..n
      BY FS_Interval DEF Hits
    <3> QED BY <3>1, FS_Subset
  <2> QED BY <2>1
<1>2. Hits(s, T, 0) = {}
  BY DEF Hits
<1>3. ASSUME k # 0
      PROVE  Cardinality(Hits(s, T, k))
               = Cardinality(Hits(s, T, k - 1)) + (IF s[k] \in T THEN 1 ELSE 0)
  <2>1. k - 1 \in Nat /\ k \notin Hits(s, T, k - 1)
    BY <1>3 DEF Hits
  <2>2. Hits(s, T, k) = IF s[k] \in T THEN Hits(s, T, k - 1) \cup {k} ELSE Hits(s, T, k - 1)
    BY <1>3 DEF Hits
  <2>3. IsFiniteSet(Hits(s, T, k - 1)) /\ Cardinality(Hits(s, T, k - 1)) \in Nat
    BY <1>1, <2>1, FS_CardinalityType
  <2>4. Cardinality(Hits(s, T, k - 1) \cup {k}) = Cardinality(Hits(s, T, k - 1)) + 1
    BY <2>1, <2>3, FS_AddElement
  <2> QED BY <2>2, <2>3, <2>4
<1> QED BY <1>1, <1>2, <1>3, FS_EmptySet, FS_CardinalityType

\* What Filter collects: as many elements as there are positions, in their order.
LEMMA FilterFacts ==
  ASSUME NEW X, NEW s \in Seq(X), NEW T
  PROVE  /\ Filter(s, T) \in Seq(X)
         /\ Len(Filter(s, T)) = Cardinality(Hits(s, T, Len(s)))
         /\ \A k \in 1..Len(s) : s[k] \in T =>
               /\ Cardinality(Hits(s, T, k)) \in 1..Len(Filter(s, T))
               /\ Filter(s, T)[Cardinality(Hits(s, T, k))] = s[k]
<1>1. PICK n \in Nat : n = Len(s) /\ \A k \in 1..n : s[k] \in X
  OBVIOUS
<1>0. PICK h \in [0..n -> Seq(X)] : FilterRun(h, s, T)
  BY <1>1, FilterTrace
<1>2. /\ h[0] = << >> /\ Filter(s, T) = h[n]
      /\ \A k \in 1..n : h[k] = IF s[k] \in T THEN Append(h[k - 1], s[k]) ELSE h[k - 1]
  BY <1>0, <1>1 DEF FilterRun
<1> DEFINE c(k) == Cardinality(Hits(s, T, k))
           Placed(k, j) == s[j] \in T => c(j) \in 1..Len(h[k]) /\ h[k][c(j)] = s[j]
           S == {k \in 0..n : Len(h[k]) = c(k) /\ \A j \in 1..k : Placed(k, j)}
<1>3. \A k \in 0..n : c(k) \in Nat
  BY HitsFacts
<1>4. c(0) = 0
  BY HitsFacts
<1>5. \A k \in 1..n : c(k) = c(k - 1) + (IF s[k] \in T THEN 1 ELSE 0)
  BY HitsFacts
<1> HIDE DEF c
<1>6. 0 \in S
  BY <1>2, <1>4
<1>7. ASSUME NEW k \in 1..n, k - 1 \in S PROVE k \in S
  <2>1. h[k - 1] \in Seq(X) /\ s[k] \in X /\ c(k - 1) \in Nat
    BY <1>1, <1>3
  <2>2. Len(h[k - 1]) = c(k - 1) /\ \A j \in 1..(k - 1) : Placed(k - 1, j)
    BY <1>7
  <2>3. CASE s[k] \in T
    <3>1. h[k] = Append(h[k - 1], s[k]) /\ c(k) = c(k - 1) + 1
      BY <1>2, <1>5, <2>3
    <3>2. Len(h[k]) = c(k) /\ h[k][c(k)] = s[k] /\ c(k) \in 1..Len(h[k])
      BY <2>1, <2>2, <3>1
    <3>3. ASSUME NEW j \in 1..(k - 1) PROVE Placed(k, j)
      <4> SUFFICES ASSUME s[j] \in T
                   PROVE  c(j) \in 1..Len(h[k]) /\ h[k][c(j)] = s[j]
        OBVIOUS
      <4>1. c(j) \in 1..Len(h[k - 1]) /\ h[k - 1][c(j)] = s[j]
        BY <2>2
      <4>2. PICK e \in 1..c(k - 1) : e = c(j)
        BY <2>2, <4>1
      <4>3. h[k][e] = h[k - 1][e]
        BY <2>1, <2>2, <3>1
      <4>4. e \in 1..Len(h[k])
        BY <2>1, <3>1, <3>2
      <4> QED BY <4>1, <4>2, <4>3, <4>4, Zenon
    <3>4. ASSUME NEW j \in 1..k PROVE Placed(k, j)
      <4>1. CASE j = k
        BY <3>2, <4>1
      <4>2. CASE j # k
        <5>1. j \in 1..(k - 1)
          BY <4>2
        <5> QED BY <3>3, <5>1
      <4> QED BY <4>1, <4>2
    <3> QED BY <3>2, <3>4
  <2>4. CASE s[k] \notin T
    <3>1. h[k] = h[k - 1] /\ c(k) = c(k - 1)
      <4>1. h[k] = h[k - 1] /\ c(k) = c(k - 1) + 0
        BY <1>2, <1>5, <2>4, Zenon
      <4> QED BY <2>1, <4>1
    <3>2. ASSUME NEW j \in 1..k PROVE Placed(k, j)
      <4>1. CASE j = k
        BY <2>4, <4>1
      <4>2. CASE j # k
        <5>1. j \in 1..(k - 1)
          BY <4>2
        <5> QED BY <2>2, <3>1, <5>1
      <4> QED BY <4>1, <4>2
    <3> QED BY <2>2, <3>1, <3>2
  <2> QED BY <2>3, <2>4
<1>8. n \in S
  <2> HIDE DEF S
  <2>1. \A k \in 1..n : k - 1 \in S => k \in S
    BY <1>7
  <2>2. \A k \in 0..n : k \in S
    BY <1>6, <2>1, UpTo, Zenon
  <2> QED BY <2>2
<1> QED BY <1>1, <1>2, <1>8 DEF c

\* Nothing is collected from nothing.
LEMMA FilterEmpty == ASSUME NEW T PROVE Filter(<< >>, T) = << >>
<1>1. << >> \in Seq({}) /\ Len(<< >>) = 0
  OBVIOUS
<1>2. PICK h \in [0..Len(<< >>) -> Seq({})] : FilterRun(h, << >>, T)
  BY <1>1, FilterTrace
<1> QED BY <1>1, <1>2 DEF FilterRun

\* One more element is collected, or is not.
LEMMA FilterAppend ==
  ASSUME NEW X, NEW s \in Seq(X), NEW x \in X, NEW T
  PROVE  Filter(Append(s, x), T) = IF x \in T THEN Append(Filter(s, T), x) ELSE Filter(s, T)
<1> DEFINE t == Append(s, x)
<1>1. PICK n \in Nat : n = Len(s)
  OBVIOUS
<1>2. t \in Seq(X) /\ Len(t) = n + 1 /\ t[n + 1] = x /\ \A k \in 1..n : t[k] = s[k]
  BY <1>1
<1> HIDE DEF t
<1>3. PICK h \in [0..Len(s) -> Seq(X)] : FilterRun(h, s, T)
  BY FilterTrace
<1>4. PICK g \in [0..Len(t) -> Seq(X)] : FilterRun(g, t, T)
  BY <1>2, FilterTrace
<1> DEFINE S == {k \in 0..n : g[k] = h[k]}
<1>5. 0 \in S
  BY <1>3, <1>4 DEF FilterRun
<1>6. ASSUME NEW k \in 1..n, k - 1 \in S PROVE k \in S
  <2>1. g[k - 1] = h[k - 1] /\ t[k] = s[k] /\ k \in 1..Len(s) /\ k \in 1..Len(t)
    BY <1>1, <1>2, <1>6
  <2>2. g[k] = h[k]
    BY <1>3, <1>4, <2>1, Zenon DEF FilterRun
  <2> QED BY <2>2
<1>7. g[n] = h[n]
  <2> HIDE DEF S
  <2>1. \A k \in 1..n : k - 1 \in S => k \in S
    BY <1>6
  <2>2. \A k \in 0..n : k \in S
    BY <1>5, <2>1, UpTo, Zenon
  <2> QED BY <2>2 DEF S
<1>8. Filter(s, T) = h[n] /\ Filter(t, T) = g[n + 1]
  BY <1>1, <1>2, <1>3, <1>4 DEF FilterRun
<1>9. g[n + 1] = IF t[n + 1] \in T THEN Append(g[n], t[n + 1]) ELSE g[n]
  <2>1. n + 1 \in 1..Len(t) /\ (n + 1) - 1 = n
    BY <1>2
  <2> QED BY <1>4, <2>1 DEF FilterRun
<1> QED BY <1>2, <1>7, <1>8, <1>9 DEF t

-----------------------------------------------------------------------------
(* The sum of a table. *)

\* A fold that takes the members of D one at a time and adds.
SumRun(it, D, f) ==
    /\ it[{}] = 0
    /\ \A s \in SUBSET D : s # {} => \E x \in s : it[s] = f[x] + it[s \ {x}]

\* SumFunction adds all the values of a function with a finite domain.
LEMMA SumTrace ==
  ASSUME NEW D, IsFiniteSet(D), NEW f \in [D -> Nat]
  PROVE  \E it \in [SUBSET D -> Nat] : SumRun(it, D, f) /\ SumFunction(f) = it[D]
<1> DEFINE pick(s) == CHOOSE x \in s : TRUE
           Eq(it) == it = [s \in SUBSET D |-> IF s = {} THEN 0 ELSE f[pick(s)] + it[s \ {pick(s)}]]
           C == CHOOSE it : Eq(it)
           c == [s \in (SUBSET D) \ {{}} |-> pick(s)]
           g == [x \in D |-> [v \in Nat |-> f[x] + v]]
<1>1. SumFunction(f) = C[D]
  BY DEF SumFunction, SumFunctionOnSet, FoldFunctionOnSet, MapThenFoldSet
<1>2. ASSUME NEW s \in (SUBSET D) \ {{}} PROVE pick(s) \in s
  OBVIOUS
<1>3. c \in NextPositions(D)
  <2> HIDE DEF pick
  <2> QED BY <1>2 DEF NextPositions
<1>4. g \in Turns(D, Nat)
  BY DEF Turns
<1>5. PICK h \in [SUBSET D -> Nat] : Solves(h, D, 0, g, c)
  <2> HIDE DEF c, g
  <2> QED BY <1>3, <1>4, FoldExists
<1>6. \A s \in SUBSET D : h[s] = IF s = {} THEN 0 ELSE f[pick(s)] + h[s \ {pick(s)}]
  <2> SUFFICES ASSUME NEW s \in SUBSET D, s # {}
               PROVE  h[s] = f[pick(s)] + h[s \ {pick(s)}]
    BY <1>5 DEF Solves
  <2>1. pick(s) \in s /\ c[s] = pick(s)
    BY <1>2
  <2> HIDE DEF pick, c
  <2>2. h[s] = g[c[s]][h[s \ {c[s]}]]
    BY <1>5 DEF Solves
  <2> QED BY <2>1, <2>2
<1>7. Eq(h)
  <2> HIDE DEF pick
  <2> QED BY <1>6
<1>8. Eq(C)
  <2> HIDE DEF Eq
  <2> QED BY <1>7
<1> HIDE DEF C
<1>9. C \in [SUBSET D -> Nat] /\ \A s \in SUBSET D : C[s] = IF s = {} THEN 0 ELSE f[pick(s)] + C[s \ {pick(s)}]
  <2> DEFINE N == {n \in 0..Cardinality(D) : \A s \in SUBSET D : Cardinality(s) = n => C[s] = h[s]}
  <2>0. \A s \in SUBSET D : C[s] = IF s = {} THEN 0 ELSE f[pick(s)] + C[s \ {pick(s)}]
    <3> HIDE DEF pick
    <3> QED BY <1>8, Zenon
  <2>1. \A s \in SUBSET D : IsFiniteSet(s) /\ Cardinality(s) \in 0..Cardinality(D)
    BY FS_Subset, FS_CardinalityType
  <2>2. 0 \in N
    <3>1. ASSUME NEW s \in SUBSET D, Cardinality(s) = 0 PROVE C[s] = h[s]
      <4>1. s = {}
        BY <2>1, <3>1, FS_EmptySet
      <4> QED BY <1>6, <2>0, <4>1
    <3> QED BY <3>1, FS_CardinalityType
  <2>3. ASSUME NEW n \in 1..Cardinality(D), n - 1 \in N PROVE n \in N
    <3>1. ASSUME NEW s \in SUBSET D, Cardinality(s) = n PROVE C[s] = h[s]
      <4>1. s # {}
        <5>1. n # 0
          BY FS_CardinalityType
        <5> QED BY <3>1, <5>1, FS_EmptySet
      <4> DEFINE r == s \ {pick(s)}
      <4>2. r \in SUBSET D /\ Cardinality(r) = n - 1
        <5> HIDE DEF pick
        <5> QED BY <1>2, <2>1, <3>1, <4>1, FS_RemoveElement
      <4>3. C[r] = h[r]
        <5> HIDE DEF r
        <5> QED BY <2>3, <4>2
      <4> HIDE DEF pick
      <4> QED BY <1>6, <2>0, <4>1, <4>3
    <3> QED BY <3>1
  <2>4. \A n \in 0..Cardinality(D) : n \in N
    <3> HIDE DEF N
    <3>1. Cardinality(D) \in Nat
      BY FS_CardinalityType
    <3>2. \A n \in 1..Cardinality(D) : n - 1 \in N => n \in N
      BY <2>3
    <3> QED BY <2>2, <3>1, <3>2, UpTo, Zenon
  <2>5. \A s \in SUBSET D : C[s] = h[s]
    BY <2>1, <2>4
  <2>6. C = [s \in SUBSET D |-> C[s]]
    <3>1. DOMAIN C = SUBSET D
      BY <1>8
    <3> QED BY <1>8, Zenon
  <2> QED BY <2>0, <2>5, <2>6
<1>10. SumRun(C, D, f)
  BY <1>2, <1>9 DEF SumRun
<1> QED BY <1>1, <1>9, <1>10

\* The two parts of a finite set.
LEMMA SplitInTwo ==
  ASSUME NEW S, IsFiniteSet(S), NEW A, NEW B, A \cup B = S, A \cap B = {}
  PROVE  /\ Cardinality(A) \in Nat /\ Cardinality(B) \in Nat /\ Cardinality(S) \in Nat
         /\ Cardinality(A) + Cardinality(B) = Cardinality(S)
<1>1. A \in SUBSET S /\ B \in SUBSET S
  OBVIOUS
<1>2. IsFiniteSet(A) /\ IsFiniteSet(B)
  BY <1>1, FS_Subset
<1>3. Cardinality(A) \in Nat /\ Cardinality(B) \in Nat /\ Cardinality(S) \in Nat
  BY <1>2, FS_CardinalityType
<1>4. Cardinality(A \cap B) = 0
  BY FS_EmptySet
<1>5. Cardinality(A \cup B) = Cardinality(A) + Cardinality(B) - Cardinality(A \cap B)
  BY <1>2, FS_Union
<1>6. Cardinality(A \cup B) = Cardinality(S)
  BY Zenon
<1> DEFINE a == Cardinality(A)
           b == Cardinality(B)
           c == Cardinality(S)
<1>7. a + b - 0 = c
  BY <1>4, <1>5, <1>6, Zenon
<1> HIDE DEF a, b, c
<1>8. a \in Nat /\ b \in Nat /\ c \in Nat
  BY <1>3 DEF a, b, c
<1>9. a + b = c
  BY <1>7, <1>8
<1> QED BY <1>3, <1>9 DEF a, b, c

\* A table that counts the members of S under each key accounts for all of S.
LEMMA SumPartition ==
  ASSUME NEW S, IsFiniteSet(S), NEW key, NEW f,
         f = [x \in {key[j] : j \in S} |-> Cardinality({j \in S : key[j] = x})]
  PROVE  SumFunction(f) = Cardinality(S)
<1> DEFINE D == {key[j] : j \in S}
           Under(s) == {j \in S : key[j] \in s}
<1>1. IsFiniteSet(D)
  <2> DEFINE F == [j \in S |-> key[j]]
  <2>1. F \in Surjection(S, D)
    BY DEF Surjection
  <2> HIDE DEF F, D
  <2> QED BY <2>1, FS_Surjection
<1>2. ASSUME NEW s PROVE IsFiniteSet(Under(s)) /\ Cardinality(Under(s)) \in Nat
  <2>1. Under(s) \in SUBSET S
    OBVIOUS
  <2> QED BY <2>1, FS_Subset, FS_CardinalityType
<1>3. \A x \in D : f[x] = Cardinality(Under({x})) 
  <2> SUFFICES ASSUME NEW x \in D PROVE f[x] = Cardinality(Under({x}))
    OBVIOUS
  <2>1. Under({x}) = {j \in S : key[j] = x}
    OBVIOUS
  <2> QED BY <2>1
<1>4. f \in [D -> Nat]
  <2> HIDE DEF Under
  <2> QED BY <1>2, <1>3
<1>5. PICK it \in [SUBSET D -> Nat] : SumRun(it, D, f) /\ SumFunction(f) = it[D]
  <2> HIDE DEF D
  <2> QED BY <1>1, <1>4, SumTrace
<1> DEFINE N == {n \in 0..Cardinality(D) :
                   \A s \in SUBSET D : Cardinality(s) = n => it[s] = Cardinality(Under(s))}
<1>6. \A s \in SUBSET D : IsFiniteSet(s) /\ Cardinality(s) \in 0..Cardinality(D)
  <2> HIDE DEF D
  <2> QED BY <1>1, FS_Subset, FS_CardinalityType
<1>7. 0 \in N
  <2>1. ASSUME NEW s \in SUBSET D, Cardinality(s) = 0 PROVE it[s] = Cardinality(Under(s))
    <3>1. s = {} /\ Under(s) = {}
      BY <1>6, <2>1, FS_EmptySet
    <3> QED BY <1>5, <3>1, FS_EmptySet DEF SumRun
  <2> QED BY <1>1, <2>1, FS_CardinalityType
<1>8. ASSUME NEW n \in 1..Cardinality(D), n - 1 \in N PROVE n \in N
  <2>1. ASSUME NEW s \in SUBSET D, Cardinality(s) = n PROVE it[s] = Cardinality(Under(s))
    <3>1. s # {}
      <4>1. n # 0
        BY <1>1, FS_CardinalityType
      <4> QED BY <2>1, <4>1, FS_EmptySet
    <3>2. PICK x \in s : it[s] = f[x] + it[s \ {x}]
      BY <1>5, <3>1 DEF SumRun
    <3>3. s \ {x} \in SUBSET D /\ Cardinality(s \ {x}) = n - 1
      BY <1>6, <2>1, FS_RemoveElement
    <3>4. it[s \ {x}] = Cardinality(Under(s \ {x}))
      BY <1>8, <3>3
    <3>5. f[x] = Cardinality(Under({x}))
      BY <1>3
    <3>6. Under({x}) \cup Under(s \ {x}) = Under(s) /\ Under({x}) \cap Under(s \ {x}) = {}
      OBVIOUS
    <3>7. Cardinality(Under(s)) = Cardinality(Under({x})) + Cardinality(Under(s \ {x}))
      <4> HIDE DEF Under
      <4>1. IsFiniteSet(Under(s))
        BY <1>2
      <4> QED BY <3>6, <4>1, SplitInTwo
    <3> QED BY <3>2, <3>4, <3>5, <3>7
  <2> QED BY <2>1
<1>9. Cardinality(D) \in N
  <2> HIDE DEF N, D
  <2>1. Cardinality(D) \in Nat
    BY <1>1, FS_CardinalityType
  <2>2. \A n \in 1..Cardinality(D) : n - 1 \in N => n \in N
    BY <1>8
  <2>3. \A n \in 0..Cardinality(D) : n \in N
    BY <1>7, <2>1, <2>2, UpTo, Zenon
  <2> QED BY <2>1, <2>3
<1>10. it[D] = Cardinality(Under(D)) /\ Under(D) = S
  BY <1>9
<1> QED BY <1>5, <1>10
=============================================================================
