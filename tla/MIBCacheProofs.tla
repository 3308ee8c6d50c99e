--------------------------- MODULE MIBCacheProofs ---------------------------
(***************************************************************************)
(* Theorems about MIBCache, for every set of names, of readers, of widths  *)
(* and of lengths: which MIB a read uses, what ENOMEM means, what Warm     *)
(* counts, and that a read through the cache or by name is one look at the *)
(* kernel.                                                                 *)
(***************************************************************************)
EXTENDS MIBCache, SequenceTheorems, FiniteSetTheorems, TLAPS

All == Procs \cup {Main}

(***************************************************************************)
(* The inductive invariant, in named parts.                                *)
(***************************************************************************)

\* The cache maps a name to its own MIB or to nothing.
CacheSound == \A n \in Names : cache[n] \in {Mib[n], NoMib}

\* What a read under way knows: it resolves only if it goes through the cache,
\* and then to its own MIB; it began at a version the kernel still remembers; the
\* size it was told is the length the value had at a version since then; and it
\* was told ENOMEM only if the value has grown since.
Local(p) ==
    LET o == op[p]
        Since == o.since..Version(o.name)
        LenAt(a) == values[o.name][a]
    IN  /\ o.pc \in {"lookup", "nametomib", "insert"} => o.path = "mib"
        /\ (o.pc \in {"insert", "size", "read"} /\ o.path = "mib") => o.mib = Mib[o.name]
        /\ o.pc # "idle" => o.since <= Version(o.name)
        /\ o.pc = "read" => \E a \in Since : 0 < a /\ LenAt(a) = o.n
        /\ (o.pc = "return" /\ o.res = Error("ENOMEM")) =>
              \E a, b \in Since : 0 < a /\ a < b /\ LenAt(a) < LenAt(b)

ReadInv == TypeOK /\ CacheSound /\ \A p \in All : Local(p)

(***************************************************************************)
(* Warm.  Warmed names are the first ones of the list; the one in progress *)
(* is not yet counted.                                                     *)
(***************************************************************************)
Popped == Len(WarmNames) - Len(warmQueue)
Settled == IF op[Main].pc = "idle" THEN Popped ELSE Popped - 1
Counted(j) == {k \in 1..j : cache[WarmNames[k]] # NoMib /\ WarmNames[k] \notin misses}

WarmInv ==
    /\ Len(warmQueue) <= Len(WarmNames)
    /\ \A k \in 1..Len(warmQueue) : warmQueue[k] = WarmNames[Popped + k]
    /\ op[Main].pc \in {"idle", "lookup", "nametomib", "insert", "size", "return"}
    /\ op[Main].pc # "idle" => Popped > 0 /\ op[Main].name = WarmNames[Popped]
    /\ resolved = Cardinality(Counted(Settled))
    /\ serving => op[Main].pc = "idle" /\ warmQueue = <<>>
    /\ ~serving =>
          /\ misses = {}
          /\ \A p \in Procs : op[p].pc = "idle"
          /\ \A k \in (Settled + 1)..Len(WarmNames) :
                cache[WarmNames[k]] # NoMib => op[Main].pc = "size" /\ k = Popped
          /\ op[Main].pc = "size" => cache[op[Main].name] # NoMib
    /\ \A p \in Procs : op[p].pc = "nametomib" =>
          cache[op[p].name] = NoMib \/ op[p].name \in misses
    /\ \A p \in Procs : op[p].pc = "insert" => op[p].name \in misses

-----------------------------------------------------------------------------
(* Lemmas about the locals of a read. *)

BusyPcs == {"lookup", "nametomib", "insert", "size", "read"}
Ops == {OpIdle} \cup Busy \cup Replied

\* The program counter tells what locals there are.
LEMMA OpShape ==
  ASSUME NEW o \in Ops
  PROVE  /\ o.pc \in BusyPcs \cup {"idle", "return"}
         /\ o.pc \in BusyPcs <=> o \in Busy
         /\ o.pc = "return" <=> o \in Replied
         /\ o.pc = "idle" <=> o = OpIdle
  BY DEF Ops, BusyPcs, OpIdle, Busy, Replied

\* A result is a value with a known length or one of three errors.
LEMMA ResultTypes ==
  /\ \A v \in Nat, l \in Lens : Value(v, l) \in Results
  /\ \A e \in {"ENOENT", "ENOMEM", "width"} : Error(e) \in Results
  /\ \A v, l, e : Value(v, l) # Error(e)
  /\ \A d, e : Error(d) = Error(e) => d = e
  BY DEF Results, Value, Error

\* The versions of a value are counted from 1, and its length is the last one's.
LEMMA VersionType ==
  ASSUME TypeOK, NEW n \in Names
  PROVE  /\ Version(n) \in Nat
         /\ Registered(n) <=> Version(n) > 0
         /\ Registered(n) => Length(n) \in Lens /\ Length(n) \in Nat
<1>1. values[n] \in Seq(Lens)
  BY DEF TypeOK
<1>2. Len(values[n]) \in Nat /\ (values[n] = <<>> <=> Len(values[n]) = 0)
  BY <1>1, EmptySeq, LenProperties
<1>3. values[n] # <<>> => values[n][Len(values[n])] \in Lens
  BY <1>1, <1>2
<1>4. Lens \subseteq Nat
  BY MIBAssumption
<1>5. values[n] # <<>> => values[n][Len(values[n])] \in Nat
  BY <1>3, <1>4
<1>6. Version(n) \in Nat /\ (Registered(n) <=> Version(n) > 0)
  BY <1>2 DEF Version, Registered
<1> QED BY <1>3, <1>5, <1>6 DEF Version, Registered, Length

-----------------------------------------------------------------------------
(* Types. *)

\* A reply keeps the name and the version of the call.
LEMMA ReplyType ==
  ASSUME TypeOK, NEW p \in All, op[p] \in Busy, NEW r \in Results, Reply(p, r)
  PROVE  /\ op' \in [All -> Ops]
         /\ op'[p] \in Replied
         /\ op'[p].pc = "return" /\ op'[p].res = r
         /\ op'[p].name = op[p].name /\ op'[p].since = op[p].since
         /\ \A q \in All \ {p} : op'[q] = op[q]
<1> DEFINE o == [pc |-> "return", name |-> op[p].name, since |-> op[p].since, res |-> r]
<1>1. o \in Replied
  BY DEF Replied, Busy
<1>2. op \in [All -> Ops] /\ op' = [op EXCEPT ![p] = o]
  BY DEF TypeOK, All, Ops, Reply, Goto
<1>3. o.pc = "return" /\ o.res = r /\ o.name = op[p].name /\ o.since = op[p].since
  OBVIOUS
<1>4. o \in Ops
  BY <1>1 DEF Ops
<1> HIDE DEF o
<1>5. op'[p] = o
  BY <1>2
<1> QED BY <1>1, <1>2, <1>3, <1>4, <1>5

\* So does a step that stays inside the read.
LEMMA GotoType ==
  ASSUME TypeOK, NEW p \in All, NEW o \in Ops, Goto(p, o)
  PROVE  op' \in [All -> Ops] /\ op'[p] = o /\ \A q \in All \ {p} : op'[q] = op[q]
  BY DEF TypeOK, All, Ops, Goto

\* A call begins with a version the name has.
LEMMA StartType ==
  ASSUME TypeOK, NEW n \in Names, NEW w \in Widths \cup {AnyWidth}, NEW path \in {"mib", "byname"}
  PROVE  /\ Start(n, w, path) \in Busy
         /\ LET o == Start(n, w, path)
            IN  /\ o.pc = (IF path = "mib" THEN "lookup" ELSE "size")
                /\ o.path = path /\ o.name = n /\ o.want = w /\ o.since = Version(n)
<1>1. Version(n) \in Nat
  BY VersionType
<1> QED BY <1>1 DEF Start, Busy

\* The object a read asks for is the one it was called with: through the cache
\* because a MIB names one object only.
LEMMA TargetIsName ==
  ASSUME TypeOK, MibOfName, NEW p \in All, op[p].pc \in {"size", "read"}
  PROVE  op[p] \in Busy /\ Target(p) = op[p].name /\ op[p].name \in Names
<1>1. op[p] \in Busy
  BY OpShape DEF TypeOK, All, Ops, BusyPcs
<1>2. op[p].name \in Names /\ op[p].path \in {"mib", "byname"}
  BY <1>1 DEF Busy
<1>3. CASE op[p].path = "mib"
  <2>1. op[p].mib = Mib[op[p].name]
    BY <1>3 DEF MibOfName, All
  <2>2. NameOf(Mib[op[p].name]) = op[p].name
    BY <1>2, MIBAssumption DEF NameOf
  <2> QED BY <1>1, <1>2, <1>3, <2>1, <2>2 DEF Target
<1> QED BY <1>1, <1>2, <1>3 DEF Target

\* The width check of the typed getters turns a value into itself or an error.
LEMMA TypedResult ==
  ASSUME NEW o \in Busy, NEW v \in Nat, NEW l \in Lens
  PROVE  /\ Typed(o, Value(v, l)) \in Results
         /\ Typed(o, Value(v, l)) # Error("ENOMEM")
         /\ Typed(o, Value(v, l)) = IF o.want # AnyWidth /\ l # o.want THEN Error("width")
                                    ELSE Value(v, l)
<1>1. Value(v, l).len = l
  BY DEF Value
<1>2. Typed(o, Value(v, l)) = IF o.want # AnyWidth /\ l # o.want THEN Error("width") ELSE Value(v, l)
  BY <1>1 DEF Typed
<1>3. /\ Value(v, l) \in Results /\ Error("width") \in Results
      /\ Value(v, l) # Error("ENOMEM") /\ Error("width") # Error("ENOMEM")
  BY ResultTypes
<1> QED BY <1>2, <1>3

-----------------------------------------------------------------------------
(* ReadInv is inductive. *)

\* The other reads do not see a step of one read.
LEMMA OthersKeep ==
  ASSUME ReadInv, NEW p \in All, values' = values, op' \in [All -> Ops],
         \A q \in All \ {p} : op'[q] = op[q],
         cache' = cache \/ (CacheSound' /\ cache' \in [Names -> Mibs \cup {NoMib}]),
         Local(p)', warmQueue' \in Seq(Names), resolved' \in Nat, serving' \in BOOLEAN,
         misses' \subseteq Names
  PROVE  ReadInv'
<1>1. TypeOK'
  BY DEF ReadInv, TypeOK, All, Ops
<1>2. CacheSound'
  BY DEF ReadInv, CacheSound
<1>3. ASSUME NEW q \in All \ {p} PROVE Local(q)'
  <2>1. Local(q) /\ op'[q] = op[q]
    BY DEF ReadInv
  <2> QED BY <2>1 DEF Local, Version
<1> QED BY <1>1, <1>2, <1>3 DEF ReadInv

\* ResolveCached, NameToMib and InsertMib.
LEMMA ResolveKeeps ==
  ASSUME ReadInv, NEW p \in All, ResolveCached(p) \/ NameToMib(p) \/ InsertMib(p)
  PROVE  ReadInv'
<1> DEFINE o == op[p]
<1>1. TypeOK /\ CacheSound /\ Local(p)
  BY DEF ReadInv
<1>2. o \in Busy
  BY <1>1, OpShape DEF TypeOK, All, Ops, BusyPcs, ResolveCached, NameToMib, InsertMib
<1>3. o.name \in Names /\ Mib[o.name] \in Mibs \cup {NoMib} /\ Busy \subseteq Ops
  BY <1>2 DEF Busy, Mibs, Ops
<1>4. CASE ResolveCached(p)
  <2>1. cache[o.name] # NoMib => cache[o.name] = Mib[o.name]
    BY <1>1, <1>3 DEF CacheSound
  <2>2. CASE cache[o.name] # NoMib
    <3> DEFINE u == [o EXCEPT !.pc = "size", !.mib = cache[o.name]]
    <3>1. /\ u \in Busy /\ u.pc = "size" /\ u.path = o.path /\ u.name = o.name
          /\ u.mib = Mib[o.name] /\ u.since = o.since
      BY <1>2, <1>3, <2>1, <2>2 DEF Busy
    <3>2. Goto(p, u)
      BY <1>4, <2>2 DEF ResolveCached
    <3> HIDE DEF u
    <3>3. op' \in [All -> Ops] /\ op'[p] = u /\ \A q \in All \ {p} : op'[q] = op[q]
      BY <1>1, <1>3, <3>1, <3>2, GotoType
    <3>4. Local(p)'
      BY <1>1, <1>4, <3>1, <3>3 DEF Local, ResolveCached, Version
    <3> QED BY <1>1, <1>4, <3>3, <3>4, OthersKeep DEF ResolveCached, TypeOK
  <2>3. CASE cache[o.name] = NoMib
    <3> DEFINE u == [o EXCEPT !.pc = "nametomib"]
    <3>1. /\ u \in Busy /\ u.pc = "nametomib" /\ u.path = o.path /\ u.name = o.name
          /\ u.since = o.since
      BY <1>2 DEF Busy
    <3>2. Goto(p, u)
      BY <1>4, <2>3 DEF ResolveCached
    <3> HIDE DEF u
    <3>3. op' \in [All -> Ops] /\ op'[p] = u /\ \A q \in All \ {p} : op'[q] = op[q]
      BY <1>1, <1>3, <3>1, <3>2, GotoType
    <3>4. Local(p)'
      BY <1>1, <1>4, <3>1, <3>3 DEF Local, ResolveCached, Version
    <3> QED BY <1>1, <1>4, <3>3, <3>4, OthersKeep DEF ResolveCached, TypeOK
  <2> QED BY <2>2, <2>3
<1>5. CASE NameToMib(p)
  <2>1. CASE Registered(o.name)
    <3> DEFINE u == [o EXCEPT !.pc = "insert", !.mib = Mib[o.name]]
    <3>1. /\ u \in Busy /\ u.pc = "insert" /\ u.path = o.path /\ u.name = o.name
          /\ u.mib = Mib[o.name] /\ u.since = o.since
      BY <1>2, <1>3 DEF Busy
    <3>2. Goto(p, u) /\ misses' \subseteq Names
      BY <1>1, <1>3, <1>5, <2>1 DEF NameToMib, TypeOK
    <3> HIDE DEF u
    <3>3. op' \in [All -> Ops] /\ op'[p] = u /\ \A q \in All \ {p} : op'[q] = op[q]
      BY <1>1, <1>3, <3>1, <3>2, GotoType
    <3>4. Local(p)'
      BY <1>1, <1>5, <3>1, <3>3 DEF Local, NameToMib, Version
    <3> QED BY <1>1, <1>5, <3>2, <3>3, <3>4, OthersKeep DEF NameToMib, TypeOK
  <2>2. CASE ~Registered(o.name)
    <3>1. Reply(p, Error("ENOENT")) /\ misses' = misses
      BY <1>5, <2>2 DEF NameToMib, Fail
    <3>2. Error("ENOENT") \in Results /\ Error("ENOENT") # Error("ENOMEM")
      BY ResultTypes
    <3>3. /\ op' \in [All -> Ops]
          /\ op'[p].pc = "return" /\ op'[p].res = Error("ENOENT")
          /\ op'[p].name = o.name /\ op'[p].since = o.since
          /\ \A q \in All \ {p} : op'[q] = op[q]
      BY <1>1, <1>2, <3>1, <3>2, ReplyType
    <3>4. Local(p)'
      BY <1>1, <1>5, <3>2, <3>3 DEF Local, NameToMib, Version
    <3> QED BY <1>1, <1>5, <3>1, <3>3, <3>4, OthersKeep DEF NameToMib, TypeOK
  <2> QED BY <2>1, <2>2
<1>6. CASE InsertMib(p)
  <2> DEFINE u == [o EXCEPT !.pc = "size"]
  <2>1. /\ u \in Busy /\ u.pc = "size" /\ u.path = o.path /\ u.name = o.name
        /\ u.mib = o.mib /\ u.since = o.since
    BY <1>2 DEF Busy
  <2>2. Goto(p, u)
    BY <1>6 DEF InsertMib
  <2> HIDE DEF u
  <2>3. op' \in [All -> Ops] /\ op'[p] = u /\ \A q \in All \ {p} : op'[q] = op[q]
    BY <1>1, <1>3, <2>1, <2>2, GotoType
  <2>4. Local(p)'
    BY <1>1, <1>6, <2>1, <2>3 DEF Local, InsertMib, Version
  <2>5. o.mib = Mib[o.name]
    BY <1>1, <1>6 DEF Local, InsertMib
  <2>6. cache' \in [Names -> Mibs \cup {NoMib}] /\ CacheSound'
    BY <1>1, <1>3, <1>6, <2>5 DEF InsertMib, CacheSound, TypeOK
  <2> QED BY <1>1, <1>6, <2>3, <2>4, <2>6, OthersKeep DEF InsertMib, TypeOK
<1> QED BY <1>4, <1>5, <1>6

\* The replies of the two calls: a reply that is not ENOMEM needs no growth.
LEMMA ReplyKeeps ==
  ASSUME ReadInv, NEW p \in All, op[p] \in Busy, NEW r \in Results, Reply(p, r),
         r = Error("ENOMEM") =>
            \E a, b \in op[p].since..Version(op[p].name) :
               0 < a /\ a < b /\ values[op[p].name][a] < values[op[p].name][b],
         UNCHANGED <<values, cache, warmQueue, resolved, serving, misses>>
  PROVE  ReadInv'
<1>1. TypeOK /\ Local(p)
  BY DEF ReadInv
<1>2. /\ op' \in [All -> Ops]
      /\ op'[p].pc = "return" /\ op'[p].res = r
      /\ op'[p].name = op[p].name /\ op'[p].since = op[p].since
      /\ \A q \in All \ {p} : op'[q] = op[q]
  BY <1>1, ReplyType
<1>3. op[p].pc # "idle"
  BY DEF Busy
<1>4. Local(p)'
  BY <1>1, <1>2, <1>3 DEF Local, Version
<1> QED BY <1>1, <1>2, <1>4, OthersKeep DEF TypeOK

\* ReadSize and ReadValue.
LEMMA ReadKeeps ==
  ASSUME ReadInv, NEW p \in All, ReadSize(p) \/ ReadValue(p)
  PROVE  ReadInv'
<1> DEFINE o == op[p]
           n == op[p].name
<1>1. TypeOK /\ Local(p) /\ MibOfName
  BY DEF ReadInv, Local, MibOfName, All
<1>2. o \in Busy /\ Target(p) = n /\ n \in Names
  BY <1>1, TargetIsName DEF ReadSize, ReadValue
<1>3. Version(n) \in Nat /\ (Registered(n) <=> Version(n) > 0)
  BY <1>1, <1>2, VersionType
<1>4. UNCHANGED <<values, cache, warmQueue, resolved, serving, misses>>
  BY DEF ReadSize, ReadValue
<1>5. o.since \in Nat /\ o.n \in Nat
  BY <1>2 DEF Busy
<1>6. CASE ReadSize(p)
  <2>1. CASE ~Registered(n)
    <3>1. Reply(p, Error("ENOENT"))
      BY <1>2, <1>6, <2>1 DEF ReadSize, Fail
    <3>2. Error("ENOENT") \in Results /\ Error("ENOENT") # Error("ENOMEM")
      BY ResultTypes
    <3> QED BY <1>2, <1>4, <3>1, <3>2, ReplyKeeps
  <2>2. CASE Registered(n) /\ Length(n) = 0
    <3> DEFINE r == Typed(o, Value(Version(n), 0))
    <3>1. Reply(p, r)
      BY <1>2, <1>6, <2>2 DEF ReadSize, Succeed
    <3>2. 0 \in Lens
      BY <1>1, <1>2, <2>2, VersionType
    <3>3. r \in Results /\ r # Error("ENOMEM")
      BY <1>2, <1>3, <3>2, TypedResult
    <3> HIDE DEF r
    <3> QED BY <1>2, <1>4, <3>1, <3>3, ReplyKeeps
  <2>3. CASE Registered(n) /\ Length(n) # 0
    <3> DEFINE u == [o EXCEPT !.pc = "read", !.n = Length(n)]
    <3>1. Length(n) \in Nat
      BY <1>1, <1>2, <2>3, VersionType
    <3>2. /\ u \in Busy /\ u.pc = "read" /\ u.path = o.path /\ u.name = n
          /\ u.mib = o.mib /\ u.since = o.since /\ u.n = Length(n)
      BY <1>2, <3>1 DEF Busy
    <3>3. Goto(p, u)
      BY <1>2, <1>6, <2>3 DEF ReadSize
    <3> HIDE DEF u
    <3>4. u \in Ops
      BY <3>2 DEF Ops
    <3>5. op' \in [All -> Ops] /\ op'[p] = u /\ \A q \in All \ {p} : op'[q] = op[q]
      BY <1>1, <3>3, <3>4, GotoType
    <3>6. o.since <= Version(n) /\ o.pc = "size"
      BY <1>1, <1>6 DEF Local, ReadSize
    <3>7. Version(n) \in o.since..Version(n) /\ 0 < Version(n)
      BY <1>3, <1>5, <2>3, <3>6
    <3>8. values[n][Version(n)] = u.n
      BY <3>2 DEF Length
    <3>9. Local(p)'
      BY <1>1, <1>4, <3>2, <3>5, <3>6, <3>7, <3>8 DEF Local, Version
    <3> QED BY <1>1, <1>4, <3>5, <3>9, OthersKeep DEF TypeOK
  <2> QED BY <2>1, <2>2, <2>3
<1>7. CASE ReadValue(p)
  <2>1. PICK a \in o.since..Version(n) : 0 < a /\ values[n][a] = o.n
    BY <1>1, <1>7 DEF Local, ReadValue
  <2>2. Registered(n) /\ Length(n) \in Lens /\ Length(n) \in Nat
    <3>1. Registered(n)
      BY <1>3, <1>5, <2>1
    <3> QED BY <1>1, <1>2, <3>1, VersionType
  <2>3. CASE Length(n) > o.n
    <3>1. Reply(p, Error("ENOMEM"))
      BY <1>2, <1>7, <2>3 DEF ReadValue, Fail
    <3>2. values[n][a] < values[n][Version(n)] /\ a # Version(n)
      BY <1>5, <2>1, <2>2, <2>3 DEF Length
    <3>3. a < Version(n) /\ Version(n) \in o.since..Version(n)
      BY <1>3, <1>5, <2>1, <3>2
    <3>4. Error("ENOMEM") \in Results
      BY ResultTypes
    <3> QED BY <1>2, <1>4, <2>1, <3>1, <3>2, <3>3, <3>4, ReplyKeeps
  <2>4. CASE ~(Length(n) > o.n)
    <3> DEFINE r == Typed(o, Value(Version(n), Length(n)))
    <3>1. Reply(p, r)
      BY <1>2, <1>7, <2>4 DEF ReadValue, Succeed
    <3>2. r \in Results /\ r # Error("ENOMEM")
      BY <1>2, <1>3, <2>2, TypedResult
    <3> HIDE DEF r
    <3> QED BY <1>2, <1>4, <3>1, <3>2, ReplyKeeps
  <2> QED BY <2>3, <2>4
<1> QED BY <1>6, <1>7

\* A read begins, from a getter or from Warm.
LEMMA StartKeeps ==
  ASSUME ReadInv, NEW p \in All, NEW n \in Names, NEW w \in Widths \cup {AnyWidth},
         NEW path \in {"mib", "byname"}, Goto(p, Start(n, w, path)),
         warmQueue' \in Seq(Names), UNCHANGED <<values, cache, resolved, serving, misses>>
  PROVE  ReadInv'
<1> DEFINE u == Start(n, w, path)
<1>1. TypeOK
  BY DEF ReadInv
<1>2. /\ u \in Busy /\ u.pc = (IF path = "mib" THEN "lookup" ELSE "size")
      /\ u.path = path /\ u.name = n /\ u.since = Version(n)
  BY <1>1, StartType
<1> HIDE DEF u
<1>3. u \in Ops
  BY <1>2 DEF Ops
<1>4. op' \in [All -> Ops] /\ op'[p] = u /\ \A q \in All \ {p} : op'[q] = op[q]
  BY <1>1, <1>3, GotoType DEF u
<1>5. Version(n) \in Nat /\ Version(n)' = Version(n)
  BY <1>1, VersionType DEF Version
<1>6. Local(p)'
  BY <1>2, <1>4, <1>5 DEF Local, Version
<1> QED BY <1>1, <1>4, <1>6, OthersKeep DEF TypeOK

\* A read ends, at its caller or in Warm.
LEMMA EndKeeps ==
  ASSUME ReadInv, NEW p \in All, Goto(p, OpIdle), resolved' \in Nat,
         UNCHANGED <<values, cache, warmQueue, serving, misses>>
  PROVE  ReadInv'
<1>1. TypeOK /\ OpIdle \in Ops /\ OpIdle.pc = "idle"
  BY DEF ReadInv, Ops, OpIdle
<1>2. op' \in [All -> Ops] /\ op'[p] = OpIdle /\ \A q \in All \ {p} : op'[q] = op[q]
  BY <1>1, GotoType
<1>3. Local(p)'
  BY <1>1, <1>2 DEF Local
<1> QED BY <1>1, <1>2, <1>3, OthersKeep DEF TypeOK

\* The kernel appends a version: what held at earlier versions still does.
LEMMA KernelKeeps ==
  ASSUME ReadInv, NEW n \in Names, KernelChange(n)
  PROVE  ReadInv'
<1>1. TypeOK
  BY DEF ReadInv
<1>2. PICK l \in Lens : values' = [values EXCEPT ![n] = Append(values[n], l)]
  BY DEF KernelChange
<1>3. UNCHANGED <<cache, op, warmQueue, resolved, serving, misses>>
  BY DEF KernelChange
<1>4. values \in [Names -> Seq(Lens)]
  BY <1>1 DEF TypeOK
<1>5. /\ Append(values[n], l) \in Seq(Lens)
      /\ Len(Append(values[n], l)) = Len(values[n]) + 1
      /\ \A a \in 1..Len(values[n]) : Append(values[n], l)[a] = values[n][a]
  BY <1>4, AppendProperties
<1>6. values' \in [Names -> Seq(Lens)]
  BY <1>2, <1>4, <1>5
<1>7. ASSUME NEW m \in Names
      PROVE  /\ Version(m) \in Nat /\ Version(m)' \in Nat /\ Version(m) <= Version(m)'
             /\ \A a \in 1..Version(m) : values'[m][a] = values[m][a]
  <2>1. Len(values[m]) \in Nat
    BY <1>4
  <2>2. CASE m = n
    BY <1>2, <1>4, <1>5, <2>1, <2>2 DEF Version
  <2>3. CASE m # n
    BY <1>2, <1>4, <2>1, <2>3 DEF Version
  <2> QED BY <2>2, <2>3
<1>8. ASSUME NEW p \in All PROVE Local(p)'
  <2> DEFINE m == op[p].name
  <2>1. Local(p) /\ op'[p] = op[p]
    BY <1>3 DEF ReadInv
  <2>2. CASE op[p].pc = "idle"
    BY <2>1, <2>2 DEF Local
  <2>3. CASE op[p].pc # "idle"
    <3>1. op[p] \in Ops
      BY <1>1 DEF TypeOK, All, Ops
    <3>2. op[p] \in Busy \cup Replied
      BY <2>3, <3>1 DEF Ops, OpIdle
    <3>3. m \in Names /\ op[p].since \in Nat
      BY <3>2 DEF Busy, Replied
    <3>4. /\ Version(m) \in Nat /\ Version(m)' \in Nat /\ Version(m) <= Version(m)'
          /\ \A a \in 1..Version(m) : values'[m][a] = values[m][a]
      BY <1>7, <2>1, <3>3 DEF Version
    <3>5. \A a \in op[p].since..Version(m) : 0 < a =>
             a \in 1..Version(m) /\ a \in op[p].since..Version(m)' /\ values'[m][a] = values[m][a]
      BY <3>3, <3>4
    <3>6. op[p].since <= Version(m)'
      BY <2>1, <2>3, <3>3, <3>4 DEF Local
    <3>7. op[p].pc = "read" =>
             \E a \in op[p].since..Version(m)' : 0 < a /\ values'[m][a] = op[p].n
      BY <2>1, <3>5 DEF Local
    <3>8. (op[p].pc = "return" /\ op[p].res = Error("ENOMEM")) =>
             \E a, b \in op[p].since..Version(m)' : 0 < a /\ a < b /\ values'[m][a] < values'[m][b]
      <4> SUFFICES ASSUME op[p].pc = "return" /\ op[p].res = Error("ENOMEM")
                   PROVE  \E a, b \in op[p].since..Version(m)' :
                             0 < a /\ a < b /\ values'[m][a] < values'[m][b]
        OBVIOUS
      <4>1. PICK a, b \in op[p].since..Version(m) : 0 < a /\ a < b /\ values[m][a] < values[m][b]
        BY <2>1 DEF Local
      <4>2. 0 < b
        BY <3>3, <3>4, <4>1
      <4> QED BY <3>5, <4>1, <4>2
    <3> QED BY <2>1, <2>3, <3>6, <3>7, <3>8 DEF Local, Version
  <2> QED BY <2>2, <2>3
<1> QED BY <1>1, <1>3, <1>6, <1>8 DEF ReadInv, TypeOK, CacheSound

\* Every step of a read, of Warm and of the kernel keeps the invariant.
LEMMA ReadInvStep == ReadInv /\ [Next]_vars => ReadInv'
<1> SUFFICES ASSUME ReadInv, [Next]_vars PROVE ReadInv'
  OBVIOUS
<1>1. TypeOK /\ Main \in All /\ Procs \subseteq All
  BY DEF ReadInv, All
<1>2. ASSUME NEW n \in Names, KernelChange(n) PROVE ReadInv'
  BY <1>2, KernelKeeps
<1>3. CASE WarmNext
  <2>1. warmQueue \in Seq(Names) /\ warmQueue # <<>>
    BY <1>1, <1>3 DEF WarmNext, TypeOK
  <2>2. Head(warmQueue) \in Names /\ Tail(warmQueue) \in Seq(Names)
    BY <2>1, HeadTailProperties
  <2>3. Goto(Main, Start(Head(warmQueue), AnyWidth, "mib"))
    BY <1>3 DEF WarmNext
  <2>4. warmQueue' \in Seq(Names) /\ UNCHANGED <<values, cache, resolved, serving, misses>>
    BY <1>3, <2>2 DEF WarmNext
  <2> QED BY <1>1, <2>2, <2>3, <2>4, StartKeeps
<1>4. CASE WarmResolved
  <2>1. resolved' \in Nat
    BY <1>1, <1>4 DEF WarmResolved, TypeOK
  <2> QED BY <1>1, <1>4, <2>1, EndKeeps DEF WarmResolved
<1>5. CASE Serve \/ UNCHANGED vars
  <2>1. UNCHANGED <<values, cache, op, warmQueue, resolved, misses>> /\ serving' \in BOOLEAN
    BY <1>1, <1>5 DEF Serve, vars, TypeOK
  <2>2. ASSUME NEW p \in All PROVE Local(p)'
    BY <2>1 DEF ReadInv, Local, Version
  <2> QED BY <1>1, <2>1, <2>2 DEF ReadInv, TypeOK, CacheSound
<1>6. ASSUME NEW p \in All,
             \/ ResolveCached(p) \/ NameToMib(p) \/ InsertMib(p) \/ ReadSize(p)
             \/ ReadValue(p) \/ Return(p)
      PROVE  ReadInv'
  <2>1. CASE ResolveCached(p) \/ NameToMib(p) \/ InsertMib(p)
    BY <2>1, ResolveKeeps
  <2>2. CASE ReadSize(p) \/ ReadValue(p)
    BY <2>2, ReadKeeps
  <2>3. CASE Return(p)
    BY <1>1, <2>3, EndKeeps DEF Return, TypeOK
  <2> QED BY <1>6, <2>1, <2>2, <2>3
<1>7. ASSUME NEW p \in Procs, Call(p) PROVE ReadInv'
  <2>1. PICK n \in Names, w \in Widths \cup {AnyWidth}, path \in {"mib", "byname"} :
          Goto(p, Start(n, w, path))
    BY <1>7 DEF Call
  <2>2. warmQueue' \in Seq(Names) /\ UNCHANGED <<values, cache, resolved, serving, misses>>
    BY <1>1, <1>7 DEF Call, TypeOK
  <2> QED BY <1>1, <2>1, <2>2, StartKeeps
<1> QED BY <1>2, <1>3, <1>4, <1>5, <1>6, <1>7 DEF Next, All

\* No read is in progress at the start.
LEMMA ReadInvInit == Init => ReadInv
<1> SUFFICES ASSUME Init PROVE ReadInv
  OBVIOUS
<1>1. values \in [Names -> Seq(Lens)]
  <2>1. <<>> \in Seq(Lens) /\ \A l \in Lens : <<l>> \in Seq(Lens)
    OBVIOUS
  <2> QED BY <2>1 DEF Init
<1>2. cache \in [Names -> Mibs \cup {NoMib}] /\ CacheSound
  BY DEF Init, CacheSound
<1>3. op \in [All -> Ops] /\ \A p \in All : op[p].pc = "idle"
  BY DEF Init, All, Ops, OpIdle
<1>4. warmQueue \in Seq(Names) /\ resolved \in Nat /\ serving \in BOOLEAN /\ misses \subseteq Names
  BY MIBAssumption DEF Init
<1>5. \A p \in All : Local(p)
  BY <1>3 DEF Local
<1> QED BY <1>1, <1>2, <1>3, <1>4, <1>5 DEF ReadInv, TypeOK, All, Ops

\* The invariant of the reads holds in every state.
LEMMA ReadInvCorrect == Spec => []ReadInv
  BY ReadInvInit, ReadInvStep, PTL DEF Spec

\* The kernel's values, the cache, the locals of every read and Warm's own keep
\* their types.
THEOREM TypeCorrect == Spec => []TypeOK
  BY ReadInvCorrect, PTL DEF ReadInv

\* However many goroutines resolve at once, each holds the MIB of the name it was
\* asked for, from the kernel or from the cache, and makes room for a length that
\* the value of this name has had since the call.
THEOREM MibIsOfName == Spec => []MibOfName
<1>1. ReadInv => MibOfName
  BY DEF ReadInv, Local, MibOfName, All
<1> QED BY <1>1, ReadInvCorrect, PTL

\* A read answers ENOMEM only if the value has grown between the size call and
\* the value call, for any number of versions and any lengths.
THEOREM EnomemOnlyIfGrown == Spec => []EnomemMeansGrown
<1>1. ReadInv => EnomemMeansGrown
  BY DEF ReadInv, Local, EnomemMeansGrown, All
<1> QED BY <1>1, ReadInvCorrect, PTL

\* Resolvers that race overwrite an entry of the cache only with itself: no entry
\* is ever changed or dropped.
THEOREM CacheGrows == Spec => CacheMonotone
<1>1. ReadInv /\ [Next]_vars =>
         [\A n \in Names : cache[n] # NoMib => cache'[n] = cache[n]]_vars
  <2> SUFFICES ASSUME ReadInv, Next
               PROVE  \A n \in Names : cache[n] # NoMib => cache'[n] = cache[n]
    OBVIOUS
  <2>1. CASE \E p \in All : InsertMib(p)
    <3>1. PICK p \in All : InsertMib(p)
      BY <2>1
    <3>2. op[p] \in Busy /\ Local(p)
      BY <3>1, OpShape DEF ReadInv, TypeOK, All, Ops, BusyPcs, InsertMib
    <3>3. op[p].name \in Names /\ op[p].mib = Mib[op[p].name]
      BY <3>1, <3>2 DEF Local, InsertMib, Busy
    <3> QED BY <3>1, <3>3 DEF InsertMib, ReadInv, TypeOK, CacheSound
  <2>2. CASE cache' = cache
    BY <2>2
  <2> QED BY <2>1, <2>2 DEF Next, All, KernelChange, WarmNext, WarmResolved, Serve, ResolveCached,
             NameToMib, ReadSize, ReadValue, Return, Call
<1> QED BY <1>1, ReadInvCorrect, PTL DEF Spec, CacheMonotone

-----------------------------------------------------------------------------
(* Refinement: a read is one look at the kernel. *)

\* The mapping, read by read.
LEMMA AbsCall ==
  ASSUME TypeOK, NEW p \in Procs
  PROVE  /\ op[p].pc = "idle" => absCall[p] = Abstract!Idle
         /\ op[p].pc = "return" => absCall[p] = Abstract!Replied(op[p].res)
         /\ op[p] \in Busy => absCall[p] = Abstract!Asked(op[p].name, op[p].want)
<1>1. op[p] \in Busy => op[p].pc # "idle" /\ op[p].pc # "return"
  BY DEF Busy
<1> QED BY <1>1 DEF absCall, Abstract!Idle, Abstract!Replied, Abstract!Asked

\* A step of one read changes its abstract call only.
LEMMA AbsFrame ==
  ASSUME TypeOK, NEW p \in All, op' \in [All -> Ops], \A q \in All \ {p} : op'[q] = op[q]
  PROVE  /\ \A a : p \in Procs /\ absCall'[p] = a => absCall' = [absCall EXCEPT ![p] = a]
         /\ (p \in Procs => absCall'[p] = absCall[p]) => absCall' = absCall
  BY DEF absCall, All

\* A reply to a read of a handler is the abstract reply.
LEMMA AbsReply ==
  ASSUME TypeOK, NEW p \in Procs, op[p] \in Busy, NEW r \in Results, Reply(p, r)
  PROVE  /\ absCall[p] = Abstract!Asked(op[p].name, op[p].want)
         /\ absCall' = [absCall EXCEPT ![p] = Abstract!Replied(r)]
<1>1. p \in All
  BY DEF All
<1>2. op' \in [All -> Ops] /\ op'[p].pc = "return" /\ op'[p].res = r /\ \A q \in All \ {p} : op'[q] = op[q]
  BY <1>1, ReplyType
<1>3. absCall'[p] = Abstract!Replied(r)
  BY <1>2 DEF absCall, Abstract!Replied
<1> QED BY <1>1, <1>2, <1>3, AbsFrame, AbsCall

\* What the width check makes of the value is what the abstract read answers.
LEMMA OutcomeIs ==
  ASSUME TypeOK, NEW n \in Names, NEW o \in Busy
  PROVE  /\ ~Registered(n) => Abstract!Outcome(n, o.want) = Error("ENOENT")
         /\ Registered(n) => Abstract!Outcome(n, o.want) = Typed(o, Value(Version(n), Length(n)))
<1>1. Version(n) \in Nat /\ (Registered(n) <=> Version(n) > 0)
  BY VersionType
<1>2. CASE ~Registered(n)
  BY <1>1, <1>2 DEF Abstract!Outcome, Version, Error, Abstract!Error
<1>3. CASE Registered(n)
  <2>1. Length(n) \in Lens
    BY <1>3, VersionType
  <2>2. Typed(o, Value(Version(n), Length(n))) =
           IF o.want # AnyWidth /\ Length(n) # o.want THEN Error("width")
           ELSE Value(Version(n), Length(n))
    BY <1>1, <2>1, TypedResult
  <2> QED BY <1>1, <1>3, <2>2 DEF Abstract!Outcome, Version, Length, Error, Abstract!Error, Value,
             Abstract!Value
<1> QED BY <1>2, <1>3

\* The initial states are those of KernelRead.
LEMMA RefineInit == Init => Abstract!Init
<1> SUFFICES ASSUME Init PROVE Abstract!Init
  OBVIOUS
<1>1. absCall = [p \in Procs |-> Abstract!Idle]
  BY DEF Init, absCall, OpIdle, Abstract!Idle
<1> QED BY <1>1 DEF Init, Abstract!Init

\* The steps that answer: an unknown name, the empty value, the value, ENOMEM.
LEMMA RefineAnswer ==
  ASSUME ReadInv, NEW p \in Procs, ReadSize(p) \/ ReadValue(p) \/ NameToMib(p)
  PROVE  Abstract!Look(p) \/ Abstract!Fail(p) \/ UNCHANGED <<values, absCall>>
<1> DEFINE o == op[p]
           n == op[p].name
<1>1. TypeOK /\ Local(p) /\ MibOfName /\ p \in All
  BY DEF ReadInv, Local, MibOfName, All
<1>2. o \in Busy /\ n \in Names
  <2>1. o \in Busy
    BY <1>1, OpShape DEF TypeOK, All, Ops, BusyPcs, ReadSize, ReadValue, NameToMib
  <2> QED BY <2>1 DEF Busy
<1>3. Version(n) \in Nat /\ (Registered(n) <=> Version(n) > 0)
  BY <1>1, <1>2, VersionType
<1>4. values' = values
  BY DEF ReadSize, ReadValue, NameToMib
<1>5. ASSUME NEW r \in Results, Reply(p, r), r = Abstract!Outcome(n, o.want)
      PROVE  Abstract!Look(p)
  <2>1. /\ absCall[p] = Abstract!Asked(n, o.want)
        /\ absCall' = [absCall EXCEPT ![p] = Abstract!Replied(r)]
    BY <1>1, <1>2, <1>5, AbsReply
  <2>2. absCall[p].st = "asked" /\ absCall[p].name = n /\ absCall[p].want = o.want
    BY <2>1 DEF Abstract!Asked
  <2> QED BY <1>4, <1>5, <2>1, <2>2 DEF Abstract!Look
<1>6. ASSUME Reply(p, Error("ENOENT")), ~Registered(n) PROVE Abstract!Look(p)
  BY <1>1, <1>2, <1>5, <1>6, OutcomeIs, ResultTypes
<1>7. ASSUME Registered(n), Reply(p, Typed(o, Value(Version(n), Length(n)))) PROVE Abstract!Look(p)
  <2>1. Length(n) \in Lens
    BY <1>1, <1>2, <1>7, VersionType
  <2>2. Typed(o, Value(Version(n), Length(n))) \in Results
    BY <1>2, <1>3, <2>1, TypedResult
  <2>3. Abstract!Outcome(n, o.want) = Typed(o, Value(Version(n), Length(n)))
    BY <1>1, <1>2, <1>7, OutcomeIs
  <2> QED BY <1>5, <1>7, <2>2, <2>3
<1>8. ASSUME NEW u \in Busy, Goto(p, u), u.name = n, u.want = o.want
      PROVE  UNCHANGED <<values, absCall>>
  <2>1. u \in Ops /\ u.pc # "idle" /\ u.pc # "return" /\ o.pc # "idle" /\ o.pc # "return"
    BY <1>2 DEF Ops, Busy
  <2>2. op' \in [All -> Ops] /\ op'[p] = u /\ \A q \in All \ {p} : op'[q] = op[q]
    BY <1>1, <1>8, <2>1, GotoType
  <2>3. absCall'[p] = absCall[p]
    BY <1>8, <2>1, <2>2 DEF absCall
  <2> QED BY <1>1, <1>4, <2>2, <2>3, AbsFrame
<1>9. CASE NameToMib(p)
  <2>1. CASE Registered(n)
    <3> DEFINE u == [o EXCEPT !.pc = "insert", !.mib = Mib[n]]
    <3>1. Goto(p, u)
      BY <1>9, <2>1 DEF NameToMib
    <3>2. Mib[n] \in Mibs \cup {NoMib}
      BY <1>2 DEF Mibs
    <3>3. u \in Busy /\ u.name = n /\ u.want = o.want
      BY <1>2, <3>2 DEF Busy
    <3> QED BY <1>8, <3>1, <3>3
  <2>2. CASE ~Registered(n)
    BY <1>6, <1>9, <2>2 DEF NameToMib, Fail
  <2> QED BY <2>1, <2>2
<1>10. CASE ReadSize(p)
  <2>1. Target(p) = n
    BY <1>1, <1>10, TargetIsName DEF ReadSize
  <2>2. CASE ~Registered(n)
    BY <1>6, <1>10, <2>1, <2>2 DEF ReadSize, Fail
  <2>3. CASE Registered(n) /\ Length(n) = 0
    <3>1. Reply(p, Typed(o, Value(Version(n), Length(n))))
      BY <1>10, <2>1, <2>3 DEF ReadSize, Succeed
    <3> QED BY <1>7, <2>3, <3>1
  <2>4. CASE Registered(n) /\ Length(n) # 0
    <3> DEFINE u == [o EXCEPT !.pc = "read", !.n = Length(n)]
    <3>1. Goto(p, u)
      BY <1>10, <2>1, <2>4 DEF ReadSize
    <3>2. Length(n) \in Nat
      BY <1>1, <1>2, <2>4, VersionType
    <3>3. u \in Busy /\ u.name = n /\ u.want = o.want
      BY <1>2, <3>2 DEF Busy
    <3> QED BY <1>8, <3>1, <3>3
  <2> QED BY <2>2, <2>3, <2>4
<1>11. CASE ReadValue(p)
  <2>1. Target(p) = n
    BY <1>1, <1>11, TargetIsName DEF ReadValue
  <2>2. CASE Length(n) > o.n
    <3>1. Reply(p, Error("ENOMEM")) /\ Error("ENOMEM") \in Results
      BY <1>11, <2>1, <2>2, ResultTypes DEF ReadValue, Fail
    <3>2. /\ absCall[p] = Abstract!Asked(n, o.want)
          /\ absCall' = [absCall EXCEPT ![p] = Abstract!Replied(Error("ENOMEM"))]
      BY <1>1, <1>2, <3>1, AbsReply
    <3> QED BY <1>4, <3>2 DEF Abstract!Fail, Abstract!Asked, Error, Abstract!Error
  <2>3. CASE ~(Length(n) > o.n)
    <3>1. Registered(n)
      <4>1. PICK a \in o.since..Version(n) : 0 < a
        BY <1>1, <1>11 DEF Local, ReadValue
      <4>2. o.since \in Nat
        BY <1>2 DEF Busy
      <4> QED BY <1>3, <4>1, <4>2
    <3>2. Reply(p, Typed(o, Value(Version(n), Length(n))))
      BY <1>11, <2>1, <2>3 DEF ReadValue, Succeed
    <3> QED BY <1>7, <3>1, <3>2
  <2> QED BY <2>2, <2>3
<1> QED BY <1>9, <1>10, <1>11

\* The steps of a read that do not answer, and those of Warm, are invisible; a
\* call and a return are the abstract ones.
LEMMA RefineOther ==
  ASSUME ReadInv, NEW p \in All, values' = values, op' \in [All -> Ops],
         \A q \in All \ {p} : op'[q] = op[q]
  PROVE  /\ p \notin Procs => absCall' = absCall
         /\ (op[p] \in Busy /\ op'[p] \in Busy /\ op'[p].name = op[p].name /\ op'[p].want = op[p].want)
              => absCall' = absCall
         /\ \A n \in Names, w \in Widths \cup {AnyWidth} :
               (/\ p \in Procs /\ op[p].pc = "idle"
                /\ op'[p] \in Busy /\ op'[p].name = n /\ op'[p].want = w) => Abstract!Ask(p)
         /\ (p \in Procs /\ op[p].pc = "return" /\ op'[p] = OpIdle) => Abstract!Return(p)
<1>1. TypeOK
  BY DEF ReadInv
<1>2. p \notin Procs => absCall' = absCall
  BY <1>1, AbsFrame
<1>3. \A o \in Busy : o.pc # "idle" /\ o.pc # "return"
  BY DEF Busy
<1>4. (op[p] \in Busy /\ op'[p] \in Busy /\ op'[p].name = op[p].name /\ op'[p].want = op[p].want)
         => absCall' = absCall
  <2> SUFFICES ASSUME op[p] \in Busy, op'[p] \in Busy, op'[p].name = op[p].name,
                      op'[p].want = op[p].want
               PROVE  absCall' = absCall
    OBVIOUS
  <2>1. p \in Procs => absCall'[p] = absCall[p]
    BY <1>3 DEF absCall
  <2> QED BY <1>1, <2>1, AbsFrame
<1>5. ASSUME NEW n \in Names, NEW w \in Widths \cup {AnyWidth}, p \in Procs, op[p].pc = "idle",
             op'[p] \in Busy, op'[p].name = n, op'[p].want = w
      PROVE  Abstract!Ask(p)
  <2>1. absCall[p].st = "idle"
    BY <1>1, <1>5, AbsCall DEF Abstract!Idle
  <2>2. absCall'[p] = Abstract!Asked(n, w)
    BY <1>3, <1>5 DEF absCall, Abstract!Asked
  <2>3. absCall' = [absCall EXCEPT ![p] = Abstract!Asked(n, w)]
    BY <1>1, <1>5, <2>2, AbsFrame
  <2> QED BY <2>1, <2>3 DEF Abstract!Ask
<1>6. ASSUME p \in Procs, op[p].pc = "return", op'[p] = OpIdle PROVE Abstract!Return(p)
  <2>1. absCall[p].st = "replied"
    BY <1>6 DEF absCall
  <2>2. absCall'[p] = Abstract!Idle
    BY <1>6 DEF absCall, OpIdle, Abstract!Idle
  <2>3. absCall' = [absCall EXCEPT ![p] = Abstract!Idle]
    BY <1>1, <1>6, <2>2, AbsFrame
  <2> QED BY <2>1, <2>3 DEF Abstract!Return
<1> QED BY <1>2, <1>4, <1>5, <1>6

\* A step is one of the abstract read's, or one its caller does not see.
LEMMA RefineStep == ReadInv /\ [Next]_vars => [Abstract!Next]_<<values, absCall>>
<1> SUFFICES ASSUME ReadInv, [Next]_vars
             PROVE  Abstract!Next \/ UNCHANGED <<values, absCall>>
  OBVIOUS
<1>1. TypeOK /\ ReadInv'
  BY ReadInvStep DEF ReadInv
<1>2. op' \in [All -> Ops] /\ Main \in All /\ Main \notin Procs
  BY <1>1, MIBAssumption DEF ReadInv, TypeOK, All, Ops
<1>3. ASSUME NEW n \in Names, KernelChange(n) PROVE Abstract!Next
  <2>1. absCall' = absCall
    BY <1>3 DEF KernelChange, absCall
  <2>2. Abstract!Change(n)
    BY <1>3, <2>1 DEF KernelChange, Version, Abstract!Change
  <2> QED BY <2>2 DEF Abstract!Next
<1>4. CASE WarmNext \/ WarmResolved
  <2>1. values' = values /\ \A q \in All \ {Main} : op'[q] = op[q]
    BY <1>1, <1>4 DEF WarmNext, WarmResolved, Goto, TypeOK, All
  <2> QED BY <1>2, <2>1, RefineOther
<1>5. CASE Serve \/ UNCHANGED vars
  BY <1>5 DEF Serve, vars, absCall
<1>6. ASSUME NEW p \in All,
             \/ ResolveCached(p) \/ NameToMib(p) \/ InsertMib(p) \/ ReadSize(p)
             \/ ReadValue(p) \/ Return(p)
      PROVE  Abstract!Next \/ UNCHANGED <<values, absCall>>
  <2>1. values' = values /\ \A q \in All \ {p} : op'[q] = op[q]
    BY <1>1, <1>6 DEF ResolveCached, NameToMib, InsertMib, ReadSize, ReadValue, Return, Goto, Fail,
         Succeed, Reply, TypeOK, All
  <2>2. CASE p \notin Procs
    BY <1>2, <2>1, <2>2, RefineOther
  <2>3. CASE p \in Procs /\ (NameToMib(p) \/ ReadSize(p) \/ ReadValue(p))
    BY <2>3, RefineAnswer DEF Abstract!Next
  <2>4. CASE p \in Procs /\ Return(p)
    <3>1. op'[p] = OpIdle
      BY <1>1, <2>4 DEF Return, Goto, TypeOK, All
    <3>2. Abstract!Return(p)
      BY <1>2, <2>1, <2>4, <3>1, RefineOther DEF Return
    <3> QED BY <2>4, <3>2 DEF Abstract!Next
  <2>5. CASE ResolveCached(p) \/ InsertMib(p)
    <3> DEFINE o == op[p]
    <3>1. o \in Busy
      BY <1>1, <2>5, OpShape DEF TypeOK, All, Ops, BusyPcs, ResolveCached, InsertMib
    <3>2. cache[o.name] \in Mibs \cup {NoMib}
      BY <1>1, <3>1 DEF TypeOK, Busy
    <3>3. \/ op'[p] = [o EXCEPT !.pc = "size", !.mib = cache[o.name]]
          \/ op'[p] = [o EXCEPT !.pc = "nametomib"]
          \/ op'[p] = [o EXCEPT !.pc = "size"]
      BY <1>1, <2>5 DEF ResolveCached, InsertMib, Goto, TypeOK, All
    <3>4. op'[p] \in Busy /\ op'[p].name = o.name /\ op'[p].want = o.want
      BY <3>1, <3>2, <3>3 DEF Busy
    <3> QED BY <1>2, <2>1, <3>1, <3>4, RefineOther
  <2> QED BY <1>6, <2>2, <2>3, <2>4, <2>5
<1>7. ASSUME NEW p \in Procs, Call(p) PROVE Abstract!Next
  <2>1. PICK n \in Names, w \in Widths \cup {AnyWidth}, path \in {"mib", "byname"} :
          Goto(p, Start(n, w, path))
    BY <1>7 DEF Call
  <2>2. p \in All /\ op'[p] = Start(n, w, path) /\ \A q \in All \ {p} : op'[q] = op[q]
    BY <1>1, <2>1 DEF Goto, TypeOK, All
  <2>3. op'[p] \in Busy /\ op'[p].name = n /\ op'[p].want = w
    BY <1>1, <2>2, StartType
  <2>4. values' = values /\ op[p].pc = "idle"
    BY <1>7 DEF Call
  <2>5. Abstract!Ask(p)
    BY <1>2, <2>2, <2>3, <2>4, RefineOther
  <2> QED BY <2>5 DEF Abstract!Next
<1> QED BY <1>3, <1>4, <1>5, <1>6, <1>7 DEF Next, All

\* Through the cache or by name, racing with any number of other reads and with
\* a kernel that registers names and changes values and lengths between any two
\* steps: a read returns what the kernel held at one instant of the call, whole
\* and of the width asked for, or an error that instant explains, or ENOMEM.
THEOREM ReadIsOneLook == Spec => ImplementsKernelRead
  BY ReadInvCorrect, RefineInit, RefineStep, PTL DEF Spec, ImplementsKernelRead, Abstract!Spec

-----------------------------------------------------------------------------
(* WarmInv is inductive, given ReadInv. *)

\* The set counted is finite, whatever the cache.
LEMMA CountedFinite ==
  ASSUME NEW j \in Int
  PROVE  IsFiniteSet(Counted(j)) /\ Cardinality(Counted(j)) \in Nat
<1>1. IsFiniteSet(1..j) /\ Counted(j) \in SUBSET (1..j)
  BY FS_Interval DEF Counted
<1>2. IsFiniteSet(Counted(j))
  BY <1>1, FS_Subset
<1> QED BY <1>2, FS_CardinalityType

\* The positions of the list and of what is left of it.
LEMMA WarmPositions ==
  ASSUME TypeOK, WarmInv
  PROVE  /\ Len(WarmNames) \in Nat /\ Len(warmQueue) \in Nat
         /\ Popped \in 0..Len(WarmNames) /\ Settled \in 0..Len(WarmNames)
         /\ \A k \in 1..Len(WarmNames) : WarmNames[k] \in Names
         /\ op[Main].pc # "idle" => Popped \in 1..Len(WarmNames) /\ Settled = Popped - 1
         /\ op[Main].pc = "idle" => Settled = Popped
         /\ op[Main].pc # "idle" => ~serving
<1>1. Len(WarmNames) \in Nat /\ \A k \in 1..Len(WarmNames) : WarmNames[k] \in Names
  BY MIBAssumption
<1>2. Len(warmQueue) \in Nat
  BY DEF TypeOK
<1> QED BY <1>1, <1>2 DEF WarmInv, Popped, Settled

\* A step of a handler's read, while serving: what was counted stays counted,
\* because a name that enters the cache now has been missed before.
LEMMA HandlerFrame ==
  ASSUME TypeOK, WarmInv, NEW p \in Procs, serving, UNCHANGED <<warmQueue, resolved, serving>>,
         \A q \in All \ {p} : op'[q] = op[q] /\ (op[q].pc # "idle" => op[q].name \in Names),
         misses \subseteq misses',
         \A n \in Names : (cache'[n] # NoMib /\ n \notin misses') <=> (cache[n] # NoMib /\ n \notin misses),
         op'[p].pc = "nametomib" => cache'[op'[p].name] = NoMib \/ op'[p].name \in misses',
         op'[p].pc = "insert" => op'[p].name \in misses'
  PROVE  WarmInv'
<1>1. op'[Main] = op[Main]
  BY MIBAssumption DEF All
<1>2. Popped' = Popped /\ Settled' = Settled
  BY <1>1 DEF Popped, Settled
<1>3. Counted(Settled)' = Counted(Settled)
  <2>1. \A k \in 1..Settled : WarmNames[k] \in Names
    BY WarmPositions
  <2> QED BY <1>2, <2>1 DEF Counted
<1>4. \A q \in Procs : op'[q].pc = "insert" => op'[q].name \in misses'
  BY DEF WarmInv, All
<1>5. \A q \in Procs : op'[q].pc = "nametomib" => cache'[op'[q].name] = NoMib \/ op'[q].name \in misses'
  BY DEF WarmInv, All
<1>6. resolved' = Cardinality(Counted(Settled))'
  BY <1>3 DEF WarmInv
<1> QED BY <1>1, <1>2, <1>4, <1>5, <1>6 DEF WarmInv, Popped

\* The handlers' reads.
LEMMA HandlerKeeps ==
  ASSUME ReadInv, WarmInv, NEW p \in Procs,
         \/ ResolveCached(p) \/ NameToMib(p) \/ InsertMib(p) \/ ReadSize(p)
         \/ ReadValue(p) \/ Return(p) \/ Call(p)
  PROVE  WarmInv'
<1> DEFINE o == op[p]
<1>1. TypeOK /\ p \in All /\ op \in [All -> Ops] /\ o \in Ops
  BY DEF ReadInv, TypeOK, All, Ops
<1>2. \A q \in All : op[q].pc # "idle" => op[q].name \in Names
  <2> SUFFICES ASSUME NEW q \in All, op[q].pc # "idle" PROVE op[q].name \in Names
    OBVIOUS
  <2>1. op[q] \in Busy \cup Replied
    BY <1>1 DEF Ops, OpIdle
  <2> QED BY <2>1 DEF Busy, Replied
<1>3. serving
  <2>1. Call(p) \/ o.pc # "idle"
    BY DEF ResolveCached, NameToMib, InsertMib, ReadSize, ReadValue, Return
  <2> QED BY <2>1 DEF WarmInv, Call
<1>4. /\ UNCHANGED <<warmQueue, resolved, serving>>
      /\ \A q \in All \ {p} : op'[q] = op[q]
  BY <1>1 DEF ResolveCached, NameToMib, InsertMib, ReadSize, ReadValue, Return, Call, Goto, Fail,
       Succeed, Reply
<1>5. CASE ResolveCached(p)
  <2>1. o \in Busy
    BY <1>1, <1>5, OpShape DEF BusyPcs, ResolveCached
  <2>2. op'[p] = IF cache[o.name] # NoMib THEN [o EXCEPT !.pc = "size", !.mib = cache[o.name]]
                 ELSE [o EXCEPT !.pc = "nametomib"]
    BY <1>1, <1>5 DEF ResolveCached, Goto
  <2>3. op'[p].pc \in {"size", "nametomib"} /\ (op'[p].pc = "nametomib" => cache[o.name] = NoMib /\ op'[p].name = o.name)
    BY <2>1, <2>2 DEF Busy
  <2>4. cache' = cache /\ misses' = misses
    BY <1>5 DEF ResolveCached
  <2> QED BY <1>1, <1>2, <1>3, <1>4, <2>3, <2>4, HandlerFrame
<1>6. CASE NameToMib(p)
  <2>1. o \in Busy /\ o.name \in Names
    BY <1>1, <1>2, <1>6, OpShape DEF BusyPcs, NameToMib
  <2>2. cache' = cache /\ (cache[o.name] = NoMib \/ o.name \in misses)
    BY <1>6 DEF NameToMib, WarmInv
  <2>3. CASE Registered(o.name)
    <3>1. misses' = misses \cup {o.name} /\ op'[p] = [o EXCEPT !.pc = "insert", !.mib = Mib[o.name]]
      BY <1>1, <1>3, <1>6, <2>3 DEF NameToMib, Goto
    <3>2. op'[p].pc = "insert" /\ op'[p].name = o.name
      BY <2>1, <3>1 DEF Busy
    <3> QED BY <1>1, <1>2, <1>3, <1>4, <2>2, <3>1, <3>2, HandlerFrame
  <2>4. CASE ~Registered(o.name)
    <3>1. misses' = misses /\ op'[p].pc = "return"
      BY <1>1, <1>6, <2>4 DEF NameToMib, Fail, Reply, Goto
    <3> QED BY <1>1, <1>2, <1>3, <1>4, <2>2, <3>1, HandlerFrame
  <2> QED BY <2>3, <2>4
<1>7. CASE InsertMib(p)
  <2>1. o \in Busy /\ o.name \in Names /\ o.name \in misses
    BY <1>1, <1>2, <1>7, OpShape DEF BusyPcs, InsertMib, WarmInv
  <2>2. op'[p] = [o EXCEPT !.pc = "size"]
    BY <1>1, <1>7 DEF InsertMib, Goto
  <2>3. op'[p].pc = "size"
    BY <2>1, <2>2 DEF Busy
  <2>4. misses' = misses /\ \A n \in Names : n # o.name => cache'[n] = cache[n]
    BY <1>1, <1>7 DEF InsertMib, TypeOK
  <2> QED BY <1>1, <1>2, <1>3, <1>4, <2>1, <2>3, <2>4, HandlerFrame
<1>8. CASE ReadSize(p) \/ ReadValue(p)
  <2>1. o \in Busy
    BY <1>1, <1>8, OpShape DEF BusyPcs, ReadSize, ReadValue
  <2>2. op'[p].pc \in {"return", "read"}
    <3>1. \/ \E r : Reply(p, r)
          \/ \E l : Goto(p, [o EXCEPT !.pc = "read", !.n = l])
      BY <1>8 DEF ReadSize, ReadValue, Fail, Succeed
    <3>2. ASSUME NEW r, Reply(p, r) PROVE op'[p].pc = "return"
      BY <1>1, <3>2 DEF Reply, Goto
    <3>3. ASSUME NEW l, Goto(p, [o EXCEPT !.pc = "read", !.n = l]) PROVE op'[p].pc = "read"
      <4>1. op'[p] = [o EXCEPT !.pc = "read", !.n = l]
        BY <1>1, <3>3 DEF Goto
      <4> QED BY <2>1, <4>1 DEF Busy
    <3> QED BY <3>1, <3>2, <3>3
  <2>3. cache' = cache /\ misses' = misses
    BY <1>8 DEF ReadSize, ReadValue
  <2> QED BY <1>1, <1>2, <1>3, <1>4, <2>2, <2>3, HandlerFrame
<1>9. CASE Return(p) \/ Call(p)
  <2>1. op'[p].pc \in {"idle", "lookup", "size"}
    BY <1>1, <1>9 DEF Return, Call, Goto, OpIdle, Start
  <2>2. cache' = cache /\ misses' = misses
    BY <1>9 DEF Return, Call
  <2> QED BY <1>1, <1>2, <1>3, <1>4, <2>1, <2>2, HandlerFrame
<1> QED BY <1>5, <1>6, <1>7, <1>8, <1>9

\* Warm's own resolutions, before the server serves.
LEMMA WarmKeeps ==
  ASSUME ReadInv, WarmInv,
         \/ ResolveCached(Main) \/ NameToMib(Main) \/ InsertMib(Main)
         \/ WarmNext \/ WarmResolved
  PROVE  WarmInv'
<1> DEFINE o == op[Main]
           L == Len(WarmNames)
<1>1. TypeOK /\ Main \in All /\ op \in [All -> Ops] /\ o \in Ops /\ Main \notin Procs
  BY MIBAssumption DEF ReadInv, TypeOK, All, Ops
<1>2. /\ L \in Nat /\ Len(warmQueue) \in Nat /\ Popped \in 0..L /\ Settled \in 0..L
      /\ \A k \in 1..L : WarmNames[k] \in Names
      /\ o.pc # "idle" => Popped \in 1..L /\ Settled = Popped - 1
      /\ o.pc = "idle" => Settled = Popped
  BY <1>1, WarmPositions
<1>3. ~serving /\ serving' = serving
  <2>1. o.pc # "idle" \/ warmQueue # <<>>
    BY DEF ResolveCached, NameToMib, InsertMib, WarmNext, WarmResolved
  <2>2. ~serving
    BY <2>1 DEF WarmInv
  <2> QED BY <2>2 DEF ResolveCached, NameToMib, InsertMib, WarmNext, WarmResolved
<1>4. \A q \in Procs : op'[q] = op[q] /\ op[q].pc = "idle"
  BY <1>1, <1>3 DEF WarmInv, All, ResolveCached, NameToMib, InsertMib, WarmNext, WarmResolved, Goto,
       Fail, Reply
<1>5. misses = {} /\ misses' = {}
  BY <1>3 DEF WarmInv, ResolveCached, NameToMib, InsertMib, WarmNext, WarmResolved
<1>6. ASSUME UNCHANGED <<warmQueue, resolved>>, o.pc # "idle", op'[Main].name = o.name,
             op'[Main].pc \in {"nametomib", "insert", "size", "return"},
             \A k \in 1..L : k # Popped => cache'[WarmNames[k]] = cache[WarmNames[k]],
             cache'[o.name] # NoMib <=> op'[Main].pc = "size"
      PROVE  WarmInv'
  <2>1. Popped' = Popped /\ Settled' = Settled /\ Popped \in 1..L /\ Settled = Popped - 1
    BY <1>2, <1>6 DEF Popped, Settled
  <2>2. Counted(Settled)' = Counted(Settled)
    BY <1>2, <1>5, <1>6, <2>1 DEF Counted
  <2>3. resolved' = Cardinality(Counted(Settled))'
    BY <1>6, <2>2 DEF WarmInv
  <2>4. o.name = WarmNames[Popped] /\ Popped > 0
    BY <1>6 DEF WarmInv
  <2>5. ASSUME NEW k \in (Settled + 1)..L, cache'[WarmNames[k]] # NoMib
        PROVE  op'[Main].pc = "size" /\ k = Popped
    <3>1. CASE k = Popped
      BY <1>6, <2>4, <2>5, <3>1
    <3>2. CASE k # Popped
      <4>1. k \in 1..L /\ cache[WarmNames[k]] # NoMib
        BY <1>2, <1>6, <2>1, <2>5, <3>2
      <4> QED BY <1>3, <2>5, <3>2, <4>1 DEF WarmInv
    <3> QED BY <3>1, <3>2
  <2> QED BY <1>3, <1>4, <1>5, <1>6, <2>1, <2>3, <2>4, <2>5 DEF WarmInv
<1>7. o.pc # "idle" => o.name = WarmNames[Popped] /\ o.name \in Names
  BY <1>2 DEF WarmInv
<1>8. o.pc \in {"lookup", "nametomib", "insert", "return"} => cache[o.name] = NoMib
  BY <1>2, <1>3, <1>7 DEF WarmInv
<1>9. CASE ResolveCached(Main)
  <2>1. o \in Busy /\ o.pc = "lookup"
    BY <1>1, <1>9, OpShape DEF BusyPcs, ResolveCached
  <2>2. op'[Main] = [o EXCEPT !.pc = "nametomib"] /\ cache' = cache
    BY <1>1, <1>8, <1>9, <2>1 DEF ResolveCached, Goto
  <2>3. op'[Main].pc = "nametomib" /\ op'[Main].name = o.name
    BY <2>1, <2>2 DEF Busy
  <2>4. UNCHANGED <<warmQueue, resolved>>
    BY <1>9 DEF ResolveCached
  <2> QED BY <1>6, <1>8, <2>1, <2>2, <2>3, <2>4
<1>10. CASE NameToMib(Main)
  <2>1. o \in Busy /\ o.pc = "nametomib"
    BY <1>1, <1>10, OpShape DEF BusyPcs, NameToMib
  <2>2. op'[Main].pc \in {"insert", "return"} /\ op'[Main].name = o.name
    <3>1. \/ op'[Main] = [o EXCEPT !.pc = "insert", !.mib = Mib[o.name]]
          \/ op'[Main] = [pc |-> "return", name |-> o.name, since |-> o.since, res |-> Error("ENOENT")]
      BY <1>1, <1>10 DEF NameToMib, Goto, Fail, Reply
    <3>2. CASE op'[Main] = [o EXCEPT !.pc = "insert", !.mib = Mib[o.name]]
      BY <2>1, <3>2 DEF Busy
    <3>3. CASE op'[Main] = [pc |-> "return", name |-> o.name, since |-> o.since, res |-> Error("ENOENT")]
      BY <3>3
    <3> QED BY <3>1, <3>2, <3>3
  <2>3. UNCHANGED <<warmQueue, resolved, cache>>
    BY <1>10 DEF NameToMib
  <2> QED BY <1>6, <1>8, <2>1, <2>2, <2>3
<1>11. CASE InsertMib(Main)
  <2>1. o \in Busy /\ o.pc = "insert"
    BY <1>1, <1>11, OpShape DEF BusyPcs, InsertMib
  <2>2. op'[Main] = [o EXCEPT !.pc = "size"]
    BY <1>1, <1>11 DEF InsertMib, Goto
  <2>3. op'[Main].pc = "size" /\ op'[Main].name = o.name
    BY <2>1, <2>2 DEF Busy
  <2>4. UNCHANGED <<warmQueue, resolved>> /\ cache' = [cache EXCEPT ![o.name] = o.mib]
    BY <1>11 DEF InsertMib
  <2>5. o.mib = Mib[o.name] /\ o.mib # NoMib
    BY <1>1, <1>7, <2>1, MIBAssumption DEF ReadInv, Local
  <2>6. cache'[o.name] # NoMib
    BY <1>1, <1>7, <2>1, <2>4, <2>5 DEF TypeOK
  <2>7. \A k \in 1..L : k # Popped => cache'[WarmNames[k]] = cache[WarmNames[k]]
    BY <1>1, <1>2, <1>7, <2>1, <2>4, MIBAssumption DEF TypeOK
  <2> QED BY <1>6, <2>1, <2>3, <2>4, <2>6, <2>7
<1>12. CASE WarmNext
  <2>1. o.pc = "idle" /\ warmQueue # <<>> /\ warmQueue \in Seq(Names)
    BY <1>1, <1>12 DEF WarmNext, TypeOK
  <2>2. /\ Len(warmQueue) > 0 /\ Len(Tail(warmQueue)) = Len(warmQueue) - 1
        /\ Head(warmQueue) = warmQueue[1]
        /\ \A k \in 1..Len(Tail(warmQueue)) : Tail(warmQueue)[k] = warmQueue[k + 1]
    BY <2>1, HeadTailProperties, EmptySeq
  <2>3. UNCHANGED <<cache, resolved>> /\ warmQueue' = Tail(warmQueue)
    BY <1>12 DEF WarmNext
  <2>4. op'[Main].pc = "lookup" /\ op'[Main].name = Head(warmQueue)
    BY <1>1, <1>12 DEF WarmNext, Goto, Start
  <2>5. Popped' = Popped + 1 /\ Settled' = Settled /\ Settled = Popped /\ Popped + 1 \in 1..L
    BY <1>2, <2>1, <2>2, <2>3, <2>4 DEF Popped, Settled
  <2>6. resolved' = Cardinality(Counted(Settled))'
    BY <1>5, <2>3, <2>5 DEF WarmInv, Counted
  <2>7. Head(warmQueue) = WarmNames[Popped + 1]
    BY <1>2, <2>2 DEF WarmInv
  <2>8. \A k \in 1..Len(warmQueue') : warmQueue'[k] = WarmNames[Popped' + k]
    <3> SUFFICES ASSUME NEW k \in 1..Len(warmQueue') PROVE warmQueue'[k] = WarmNames[Popped' + k]
      OBVIOUS
    <3>1. k + 1 \in 1..Len(warmQueue) /\ warmQueue'[k] = warmQueue[k + 1]
      BY <1>2, <2>2, <2>3
    <3>2. warmQueue[k + 1] = WarmNames[Popped + (k + 1)]
      BY <3>1 DEF WarmInv
    <3>3. Popped + (k + 1) = Popped' + k
      BY <1>2, <2>5
    <3> QED BY <3>1, <3>2, <3>3
  <2>9. \A k \in (Settled' + 1)..L : cache'[WarmNames[k]] = NoMib
    BY <1>2, <1>3, <2>1, <2>3, <2>5 DEF WarmInv
  <2>10. Len(warmQueue') <= L
    BY <1>2, <2>2, <2>3 DEF WarmInv
  <2>11. op'[Main].name = WarmNames[Popped'] /\ Popped' > 0
    BY <1>2, <2>4, <2>5, <2>7
  <2> QED BY <1>3, <1>4, <1>5, <2>4, <2>6, <2>8, <2>9, <2>10, <2>11 DEF WarmInv
<1>13. CASE WarmResolved
  <2>1. o.pc \in {"size", "return"} /\ UNCHANGED <<cache, warmQueue>>
    BY <1>13 DEF WarmResolved
  <2>2. op'[Main] = OpIdle /\ op'[Main].pc = "idle"
    BY <1>1, <1>13 DEF WarmResolved, Goto, OpIdle
  <2>3. Popped' = Popped /\ Settled' = Popped /\ Settled = Popped - 1 /\ Popped \in 1..L
    BY <1>2, <2>1, <2>2 DEF Popped, Settled
  <2>4. cache[WarmNames[Popped]] # NoMib <=> o.pc = "size"
    BY <1>3, <1>7, <1>8, <2>1 DEF WarmInv
  <2>5. Counted(Settled)' = IF o.pc = "size" THEN Counted(Settled) \cup {Popped} ELSE Counted(Settled)
    BY <1>2, <1>5, <2>1, <2>3, <2>4 DEF Counted
  <2>6. Popped \notin Counted(Settled)
    BY <1>2, <2>3 DEF Counted
  <2>7. /\ IsFiniteSet(Counted(Settled))
        /\ Cardinality(Counted(Settled) \cup {Popped}) = Cardinality(Counted(Settled)) + 1
    <3>1. IsFiniteSet(Counted(Settled))
      BY <1>2, CountedFinite
    <3> QED BY <2>6, <3>1, FS_AddElement
  <2>8. resolved' = Cardinality(Counted(Settled))'
    <3>1. resolved = Cardinality(Counted(Settled))
      BY DEF WarmInv
    <3>2. CASE o.pc = "size"
      BY <1>13, <2>5, <2>7, <3>1, <3>2 DEF WarmResolved
    <3>3. CASE o.pc # "size"
      BY <1>13, <2>5, <3>1, <3>3 DEF WarmResolved
    <3> QED BY <3>2, <3>3
  <2>9. \A k \in (Settled' + 1)..L : cache'[WarmNames[k]] = NoMib
    BY <1>2, <1>3, <2>1, <2>3 DEF WarmInv
  <2> QED BY <1>3, <1>4, <1>5, <2>1, <2>2, <2>3, <2>8, <2>9 DEF WarmInv
<1> QED BY <1>9, <1>10, <1>11, <1>12, <1>13

\* Warm's loop counts what it caches, and nobody empties the cache behind it.
LEMMA WarmInvStep == ReadInv /\ WarmInv /\ [Next]_vars => WarmInv'
<1> SUFFICES ASSUME ReadInv, WarmInv, [Next]_vars PROVE WarmInv'
  OBVIOUS
<1>1. ASSUME UNCHANGED <<cache, op, warmQueue, resolved, serving, misses>> PROVE WarmInv'
  BY <1>1 DEF WarmInv, Popped, Settled, Counted
<1>2. CASE Serve
  <2>1. UNCHANGED <<cache, op, warmQueue, resolved, misses>> /\ serving' = TRUE /\ ~serving
        /\ op[Main].pc = "idle" /\ warmQueue = <<>>
    BY <1>2 DEF Serve
  <2>2. \A p \in Procs : op[p].pc = "idle"
    BY <2>1 DEF WarmInv
  <2> QED BY <2>1, <2>2 DEF WarmInv, Popped, Settled, Counted
<1>3. ~ReadSize(Main) /\ ~ReadValue(Main) /\ ~Return(Main)
  BY DEF WarmInv, ReadSize, ReadValue, Return
<1>4. CASE (\E n \in Names : KernelChange(n)) \/ UNCHANGED vars
  BY <1>1, <1>4 DEF KernelChange, vars
<1>5. CASE \/ WarmNext \/ WarmResolved
           \/ ResolveCached(Main) \/ NameToMib(Main) \/ InsertMib(Main)
  BY <1>5, WarmKeeps
<1>6. ASSUME NEW p \in Procs,
             \/ ResolveCached(p) \/ NameToMib(p) \/ InsertMib(p) \/ ReadSize(p)
             \/ ReadValue(p) \/ Return(p) \/ Call(p)
      PROVE  WarmInv'
  BY <1>6, HandlerKeeps
<1> QED BY <1>2, <1>3, <1>4, <1>5, <1>6 DEF Next

\* Warm has not begun at the start.
LEMMA WarmInvInit == Init => WarmInv
<1> SUFFICES ASSUME Init PROVE WarmInv
  OBVIOUS
<1>1. Len(WarmNames) \in Nat /\ warmQueue = WarmNames /\ Popped = 0
  BY MIBAssumption DEF Init, Popped
<1>2. \A p \in All : op[p].pc = "idle"
  BY DEF Init, All, OpIdle
<1>3. Main \in All /\ Procs \subseteq All
  BY DEF All
<1>4. op[Main].pc = "idle" /\ Settled = 0
  BY <1>1, <1>2, <1>3 DEF Settled
<1>5. Counted(Settled) = {}
  BY <1>4 DEF Counted
<1>6. resolved = Cardinality(Counted(Settled))
  BY <1>5, FS_EmptySet DEF Init
<1>7. \A k \in 1..Len(WarmNames) : cache[WarmNames[k]] = NoMib
  BY MIBAssumption DEF Init
<1> QED BY <1>1, <1>2, <1>3, <1>4, <1>6, <1>7 DEF Init, WarmInv

\* For every list of names: when serving starts and ever after, what Warm counted
\* is what it put in the cache, and none of it is asked of the kernel again.
THEOREM WarmIsKept == Spec => []WarmCounts
<1>1. ReadInv /\ WarmInv => WarmCounts
  <2> SUFFICES ASSUME ReadInv, WarmInv, serving
               PROVE  resolved = Cardinality({k \in 1..Len(WarmNames) :
                                    cache[WarmNames[k]] # NoMib /\ WarmNames[k] \notin misses})
    BY DEF WarmCounts
  <2>1. Settled = Len(WarmNames)
    <3>1. op[Main].pc = "idle" /\ Len(warmQueue) = 0 /\ Len(WarmNames) \in Nat
      BY MIBAssumption DEF WarmInv
    <3> QED BY <3>1 DEF Settled, Popped
  <2> QED BY <2>1 DEF WarmInv, Counted
<1> QED BY <1>1, ReadInvCorrect, WarmInvInit, WarmInvStep, PTL DEF Spec
=============================================================================
