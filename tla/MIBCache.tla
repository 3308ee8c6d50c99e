------------------------------ MODULE MIBCache ------------------------------
(***************************************************************************)
(* Reading the kernel: internal/macosasmsysctl/mibcache.go and sysctl.go.  *)
(* A cached read resolves its name to a MIB (look the cache up under the   *)
(* read lock; on a miss ask the kernel with no lock held, then insert      *)
(* under the write lock) and then makes two system calls, one for the size *)
(* and one for the value.  A read by name makes the two calls only.  Any   *)
(* number of reads run at once, and the kernel may register names and      *)
(* change values, and their lengths, between any two steps.                *)
(*                                                                         *)
(* A value is abstracted to its version and its length: the properties are *)
(* about which value a read returns and whether it is whole.               *)
(***************************************************************************)
EXTENDS Integers, Sequences, FiniteSets

CONSTANTS
    Names,
    Mib,         \* Mib[n]: the MIB the kernel gives n
    Procs,       \* goroutines that read
    Main,        \* the goroutine of New, which warms the cache
    WarmNames,   \* the non-computed names of metrics.Known, in order
    Widths,      \* the lengths typed getters insist on
    AnyWidth,    \* GetRaw and GetString take any
    Lens,        \* lengths a value may have
    MaxVersion,  \* bound of the model: versions of one value
    NoMib        \* no entry in the cache

ASSUME MIBAssumption ==
    /\ \A n, o \in Names : Mib[n] = Mib[o] => n = o
    /\ Main \notin Procs /\ AnyWidth \notin Widths
    /\ \A n \in Names : Mib[n] # NoMib
    /\ Lens \subseteq Nat /\ MaxVersion \in Nat
    /\ WarmNames \in Seq(Names)      \* metrics.Known names no metric twice
    /\ \A j, k \in 1..Len(WarmNames) : WarmNames[j] = WarmNames[k] => j = k

VARIABLES
    values,    \* the kernel: values[n] as in KernelRead
    cache,     \* MIBCache.cache
    op,        \* op[p]: locals of the read in progress at p
    warmQueue, \* names Warm has still to resolve
    resolved,  \* its count
    serving,   \* New has returned
    misses     \* history: names resolved by the kernel since then

vars == <<values, cache, op, warmQueue, resolved, serving, misses>>

Registered(n) == values[n] # <<>>
Version(n) == Len(values[n])
Length(n) == values[n][Version(n)]

OpIdle == [pc |-> "idle"]
Value(v, l) == [kind |-> "value", version |-> v, len |-> l]
Error(e) == [kind |-> "error", errno |-> e]

\* The locals of a read: of one under way, and of one about to return.
Mibs == {Mib[n] : n \in Names}
Results == [kind : {"value"}, version : Nat, len : Lens]
           \cup [kind : {"error"}, errno : {"ENOENT", "ENOMEM", "width"}]
Busy == [pc : {"lookup", "nametomib", "insert", "size", "read"}, path : {"mib", "byname"},
         name : Names, want : Widths \cup {AnyWidth}, mib : Mibs \cup {NoMib}, n : Nat, since : Nat]
Replied == [pc : {"return"}, name : Names, since : Nat, res : Results]

Init ==
    /\ values \in [Names -> {<<>>} \cup {<<l>> : l \in Lens}]
    /\ cache = [n \in Names |-> NoMib]
    /\ op = [p \in Procs \cup {Main} |-> OpIdle]
    /\ warmQueue = WarmNames /\ resolved = 0
    /\ serving = FALSE /\ misses = {}

-----------------------------------------------------------------------------
(* The kernel. *)

\* A name is registered (its first version), or its value changes.
KernelChange(n) ==
    /\ Version(n) < MaxVersion
    /\ \E l \in Lens : values' = [values EXCEPT ![n] = Append(@, l)]
    /\ UNCHANGED <<cache, op, warmQueue, resolved, serving, misses>>

\* The name a MIB stands for.
NameOf(mib) == CHOOSE n \in Names : Mib[n] = mib

-----------------------------------------------------------------------------
(* Resolve. *)

Goto(p, o) == op' = [op EXCEPT ![p] = o]
Reply(p, r) == Goto(p, [pc |-> "return", name |-> op[p].name, since |-> op[p].since, res |-> r])
Fail(p, e) == Reply(p, Error(e))

\* The cache lookup under RLock.
ResolveCached(p) ==
    /\ op[p].pc = "lookup"
    /\ Goto(p, IF cache[op[p].name] # NoMib
                 THEN [op[p] EXCEPT !.pc = "size", !.mib = cache[op[p].name]]
                 ELSE [op[p] EXCEPT !.pc = "nametomib"])
    /\ UNCHANGED <<values, cache, warmQueue, resolved, serving, misses>>

\* nametomib, the {0, 3} system call; a failure is not cached.
NameToMib(p) ==
    /\ op[p].pc = "nametomib"
    /\ IF Registered(op[p].name)
         THEN /\ Goto(p, [op[p] EXCEPT !.pc = "insert", !.mib = Mib[op[p].name]])
              /\ misses' = IF serving THEN misses \cup {op[p].name} ELSE misses
         ELSE /\ Fail(p, "ENOENT")
              /\ UNCHANGED misses
    /\ UNCHANGED <<values, cache, warmQueue, resolved, serving>>

\* Mutant: all names share one entry.
InsertMibCollides(p) ==
    /\ op[p].pc = "insert"
    /\ cache' = [n \in Names |-> op[p].mib]
    /\ Goto(p, [op[p] EXCEPT !.pc = "size"])
    /\ UNCHANGED <<values, warmQueue, resolved, serving, misses>>

\* The insertion under Lock; a concurrent resolver may have been here first.
InsertMib(p) ==
    /\ op[p].pc = "insert"
    /\ cache' = [cache EXCEPT ![op[p].name] = op[p].mib]
    /\ Goto(p, [op[p] EXCEPT !.pc = "size"])
    /\ UNCHANGED <<values, warmQueue, resolved, serving, misses>>

-----------------------------------------------------------------------------
(* GetRawMIB, GetRaw and the width check of the typed getters. *)

\* The object a read in progress asks the kernel for.
Target(p) == IF op[p].path = "mib" THEN NameOf(op[p].mib) ELSE op[p].name

Typed(o, r) == IF o.want = AnyWidth \/ r.len = o.want THEN r ELSE Error("width")
Succeed(p, r) == Reply(p, Typed(op[p], r))

\* Mutant: the buffer is one byte short.
ReadSizeShort(p) ==
    /\ op[p].pc = "size" /\ p # Main
    /\ LET n == Target(p)
       IN  IF ~Registered(n) THEN Fail(p, "ENOENT")
           ELSE IF Length(n) = 0 THEN Succeed(p, Value(Version(n), 0))
           ELSE Goto(p, [op[p] EXCEPT !.pc = "read", !.n = Length(n) - 1])
    /\ UNCHANGED <<values, cache, warmQueue, resolved, serving, misses>>

\* First call: the size.  An empty value needs no second call.
ReadSize(p) ==
    /\ op[p].pc = "size" /\ p # Main
    /\ LET n == Target(p)
       IN  IF ~Registered(n) THEN Fail(p, "ENOENT")
           ELSE IF Length(n) = 0 THEN Succeed(p, Value(Version(n), 0))
           ELSE Goto(p, [op[p] EXCEPT !.pc = "read", !.n = Length(n)])
    /\ UNCHANGED <<values, cache, warmQueue, resolved, serving, misses>>

\* Mutant: the whole buffer is returned, not buf[:n].
ReadValueUncut(p) ==
    /\ op[p].pc = "read"
    /\ LET n == Target(p)
       IN  IF Length(n) > op[p].n THEN Fail(p, "ENOMEM")
           ELSE Succeed(p, Value(Version(n), op[p].n))
    /\ UNCHANGED <<values, cache, warmQueue, resolved, serving, misses>>

\* Mutant: an error drops the cached MIB.
ReadValueEvicts(p) ==
    /\ op[p].pc = "read"
    /\ LET n == Target(p)
       IN  IF Length(n) > op[p].n
           THEN Fail(p, "ENOMEM") /\ cache' = [cache EXCEPT ![n] = NoMib]
           ELSE Succeed(p, Value(Version(n), Length(n))) /\ UNCHANGED cache
    /\ UNCHANGED <<values, warmQueue, resolved, serving, misses>>

\* Second call: the kernel fills the buffer of n bytes and sets n to the value's
\* length, or answers ENOMEM if the value has outgrown the buffer.
ReadValue(p) ==
    /\ op[p].pc = "read"
    /\ LET n == Target(p)
       IN  IF Length(n) > op[p].n THEN Fail(p, "ENOMEM")
           ELSE Succeed(p, Value(Version(n), Length(n)))
    /\ UNCHANGED <<values, cache, warmQueue, resolved, serving, misses>>

\* Some getter is called: through the cache, or by name (sysctl.go).  since is
\* history: the version at the call.
Start(n, w, path) ==
    [pc |-> IF path = "mib" THEN "lookup" ELSE "size", path |-> path, name |-> n,
     want |-> w, mib |-> NoMib, n |-> 0, since |-> Version(n)]

Call(p) ==
    /\ serving /\ op[p].pc = "idle"
    /\ \E n \in Names, w \in Widths \cup {AnyWidth}, path \in {"mib", "byname"} :
          Goto(p, Start(n, w, path))
    /\ UNCHANGED <<values, cache, warmQueue, resolved, serving, misses>>

Return(p) ==
    /\ op[p].pc = "return" /\ p # Main
    /\ Goto(p, OpIdle)
    /\ UNCHANGED <<values, cache, warmQueue, resolved, serving, misses>>

-----------------------------------------------------------------------------
(* Warm, called by New before the server serves. *)

WarmNext ==
    /\ op[Main].pc = "idle" /\ warmQueue # <<>>
    /\ Goto(Main, Start(Head(warmQueue), AnyWidth, "mib"))
    /\ warmQueue' = Tail(warmQueue)
    /\ UNCHANGED <<values, cache, resolved, serving, misses>>

\* Mutant: errors are counted too.
WarmResolvedAll ==
    /\ op[Main].pc \in {"size", "return"}
    /\ resolved' = resolved + 1
    /\ Goto(Main, OpIdle)
    /\ UNCHANGED <<values, cache, warmQueue, serving, misses>>

\* Resolve has returned to Warm: with a MIB ("size" is where a read would go on),
\* or with an error, which is skipped.
WarmResolved ==
    /\ op[Main].pc \in {"size", "return"}
    /\ resolved' = IF op[Main].pc = "size" THEN resolved + 1 ELSE resolved
    /\ Goto(Main, OpIdle)
    /\ UNCHANGED <<values, cache, warmQueue, serving, misses>>

Serve ==
    /\ ~serving /\ op[Main].pc = "idle" /\ warmQueue = <<>>
    /\ serving' = TRUE
    /\ UNCHANGED <<values, cache, op, warmQueue, resolved, misses>>

Next ==
    \/ \E n \in Names : KernelChange(n)
    \/ WarmNext \/ WarmResolved \/ Serve
    \/ \E p \in Procs \cup {Main} :
          ResolveCached(p) \/ NameToMib(p) \/ InsertMib(p) \/ ReadSize(p)
          \/ ReadValue(p) \/ Return(p)
    \/ \E p \in Procs : Call(p)

Spec == Init /\ [][Next]_vars

-----------------------------------------------------------------------------
\* Every variable has its type.
TypeOK ==
    /\ values \in [Names -> Seq(Lens)]
    /\ cache \in [Names -> Mibs \cup {NoMib}]
    /\ op \in [Procs \cup {Main} -> {OpIdle} \cup Busy \cup Replied]
    /\ warmQueue \in Seq(Names) /\ resolved \in Nat /\ serving \in BOOLEAN
    /\ misses \subseteq Names

\* Whatever other goroutines insert meanwhile, a reader in the middle of a read has
\* a MIB that belongs to the name it was asked for, and a buffer of a length that
\* this name's value has had since the call.
MibOfName ==
    \A p \in Procs \cup {Main} :
        LET o == op[p]
        IN  /\ (o.pc \in {"insert", "size", "read"} /\ o.path = "mib") => o.mib = Mib[o.name]
            /\ o.pc = "read" =>
                  \E a \in o.since..Version(o.name) : 0 < a /\ values[o.name][a] = o.n

\* ENOMEM is never spurious: the value's length grew during the call.
EnomemMeansGrown ==
    \A p \in Procs :
        (op[p].pc = "return" /\ op[p].res = Error("ENOMEM")) =>
            \E a, b \in op[p].since..Version(op[p].name) :
                /\ 0 < a /\ a < b
                /\ values[op[p].name][a] < values[op[p].name][b]

\* What Warm counts is what the cache holds for it, and every MIB it counted
\* spares the serving goroutines the resolution: a name in the cache when serving
\* starts is never asked of the kernel again.
WarmCounts ==
    serving => resolved = Cardinality({k \in 1..Len(WarmNames) :
                                          cache[WarmNames[k]] # NoMib /\ WarmNames[k] \notin misses})

\* An entry of the cache is never changed or dropped: a second resolver that
\* lost the race overwrites it with the same MIB.
CacheMonotone ==
    [][\A n \in Names : cache[n] # NoMib => cache'[n] = cache[n]]_vars

\* Every read, cached or by name, returns what the kernel held at one instant of
\* the call, whole, or a permitted error.
absCall == [p \in Procs |->
              CASE op[p].pc = "idle" -> [st |-> "idle"]
                [] op[p].pc = "return" -> [st |-> "replied", res |-> op[p].res]
                [] OTHER -> [st |-> "asked", name |-> op[p].name, want |-> op[p].want]]
Abstract == INSTANCE KernelRead WITH call <- absCall
ImplementsKernelRead == Abstract!Spec
=============================================================================
