------------------------------ MODULE Registry ------------------------------
(***************************************************************************)
(* How a metric gets its access pattern: generate_textproto.go classifies  *)
(* every Known metric and writes the kernel registry file; the file is     *)
(* embedded, and edited or left behind as Known changes; a server started  *)
(* with its OS version loads it, merges it with Known, and answers the     *)
(* registry requests from the merge.                                       *)
(*                                                                         *)
(* Names and categories are those of internal/metrics/registry.go.  Texts  *)
(* (descriptions, notes, messages of issues) are left out.  TTLs are in    *)
(* milliseconds.                                                           *)
(***************************************************************************)
EXTENDS Loops

CONSTANTS
    Known,              \* the metrics of registry.go: records [name, cat]
    writableTunables,   \* names
    OsVersion,          \* the OS version the file is named after
    OsVersions,         \* values of the server's osVersion argument
    EditTtls,           \* TTLs an edit may set
    Stray,              \* a name that is not Known
    MaxEdits,           \* bound of the model: edits of the file
    Editable,           \* bound of the model: positions that are edited
    Nil                 \* a message field that is not set; an error

\* The access patterns, and a pattern with its TTL.
PatternNames == {"STATIC", "POLLED", "CONSTRAINED", "DYNAMIC"}
Patterns == [pattern : PatternNames, ttl : Int]

ASSUME RegistryAssumption ==
    /\ Known \in Seq([name : STRING, cat : STRING])
    /\ EditTtls \subseteq Nat /\ MaxEdits \in Nat
    /\ \A k \in DOMAIN Known : Known[k].name # Stray
    /\ Nil \notin Patterns

\* The constants of type Category.
Category ==
    {"hw.cpu", "hw.memory", "hw.cache", "hw.perflevel", "hw.arm", "hw.misc",
     "kern.identity", "kern.process", "kern.memory", "kern.sched", "kern.time",
     "kern.limits", "kern.ipc", "kern.misc", "vm.pressure", "vm.pages",
     "vm.compressor", "vm.pageout", "vm.swap", "vm.wire", "vm.misc", "machdep",
     "net.tcp", "net.udp", "net.ip", "net.misc", "vfs", "debug", "kpc", "iogpu",
     "security", "computed"}

\* How registry.go is laid out: no name twice, a category's metrics together.
ASSUME KnownAssumption ==
    /\ \A j, k \in DOMAIN Known : Known[j].name = Known[k].name => j = k
    /\ \A k \in DOMAIN Known : Known[k].cat \in Category
    /\ \A i, j, k \in DOMAIN Known :
          i < j /\ j < k /\ Known[i].cat = Known[k].cat => Known[j].cat = Known[k].cat

NoTtl == -1
Sec(n) == [pattern |-> "POLLED", ttl |-> 1000 * n]
Bare(p) == [pattern |-> p, ttl |-> NoTtl]
KnownNames == {info.name : info \in Range(Known)}

-----------------------------------------------------------------------------
(* The generator. *)

HWCats == {"hw.cpu", "hw.memory", "hw.cache", "hw.perflevel", "hw.arm", "hw.misc"}

CpuIdentity ==
    {"machdep.cpu.brand_string", "machdep.cpu.core_count",
     "machdep.cpu.thread_count", "machdep.cpu.cores_per_package",
     "machdep.cpu.logical_per_package", "machdep.ptrauth_enabled",
     "machdep.virtual_address_size"}

BootFlags ==
    {"kern.hv_support", "kern.secure_kernel", "kern.safeboot",
     "kern.slide", "kern.stack_size", "kern.stack_depth_max"}

SetOnce == {"kern.boottime", "kern.clockrate"}

classifyKernel(name, cat) ==
    CASE cat \in HWCats -> "STATIC"
      [] cat = "kern.identity" ->
            IF name \in writableTunables THEN "CONSTRAINED" ELSE "STATIC"
      [] cat = "machdep" /\ name \in CpuIdentity -> "STATIC"
      [] cat = "kern.time" -> IF name \in SetOnce THEN "STATIC" ELSE "DYNAMIC"
      [] cat = "kern.misc" /\ name \in BootFlags -> "STATIC"
      [] OTHER -> IF name \in writableTunables THEN "CONSTRAINED" ELSE "DYNAMIC"

\* The early returns of classifyRecommended, by the answer they give.
RecStatic(name, cat) ==
    \/ cat \in HWCats
    \/ cat = "kern.identity" /\ name \notin writableTunables
    \/ cat = "machdep" /\ name \in CpuIdentity
    \/ cat # "kern.identity" /\ name \in {"kern.sched", "vm.swapfileprefix"} \cup SetOnce

TenSecondCats ==
    {"computed", "vm.pages", "vm.pageout", "vm.pressure", "kern.process",
     "security", "vm.compressor", "vfs", "vm.misc"}
TenSecondNames ==
    {"kern.memorystatus_level", "net.inet.tcp.pcbcount", "net.inet.udp.pcbcount",
     "net.local.pcbcount", "net.soflow.count", "net.inet.mptcp.pcbcount",
     "net.inet.tcp.sack_globalholes", "net.inet.tcp.cubic_sockets"}
ThirtySecondCats == {"kern.time", "machdep"}
\* Mutant: a category has no case.
MinuteCatsNoKpc ==
    {"vm.swap", "vm.wire", "kern.limits", "kern.ipc", "kern.sched", "kern.misc",
     "kern.memory", "net.tcp", "net.udp", "net.ip", "net.misc", "debug", "iogpu"}

MinuteCats ==
    {"vm.swap", "vm.wire", "kern.limits", "kern.ipc", "kern.sched", "kern.misc",
     "kern.memory", "net.tcp", "net.udp", "net.ip", "net.misc", "debug", "kpc",
     "iogpu"}

classifyRecommended(name, cat) ==
    IF RecStatic(name, cat) THEN Bare("STATIC")
    ELSE IF name \in writableTunables THEN [pattern |-> "CONSTRAINED", ttl |-> 60000]
    ELSE IF cat \in TenSecondCats \/ name \in TenSecondNames THEN Sec(10)
    ELSE IF name = "vm.swapusage" \/ cat \in ThirtySecondCats THEN Sec(30)
    ELSE IF cat \in MinuteCats THEN Sec(60)
    ELSE Bare("DYNAMIC")

Generated(info) ==
    [name   |-> info.name,
     kernel |-> Bare(classifyKernel(info.name, info.cat)),
     rec    |-> classifyRecommended(info.name, info.cat)]

-----------------------------------------------------------------------------
(* Validation and lookup. *)

\* KernelRegistryByName: the last entry of a name wins.
KernelRegistryByName(reg) ==
    [n \in {km.name : km \in Range(reg)} |->
        reg[Max({k \in DOMAIN reg : reg[k].name = n})]]

Scheduled(p) == p \in {"POLLED", "CONSTRAINED"}

\* What is wrong with the entry of a Known metric.
EntryIssues(km) ==
    {issue \in {"no kernel pattern", "no recommended pattern", "no TTL"} :
        \/ issue = "no kernel pattern" /\ km.kernel = Nil
        \/ issue = "no recommended pattern" /\ km.rec = Nil
        \/ /\ issue = "no TTL"
           /\ km.rec # Nil /\ Scheduled(km.rec.pattern) /\ km.rec.ttl = NoTtl}

\* Mutant: the entry is not struck off.
CheckKnownKeeps(byName, st, info) ==
    IF info.name \notin st.kernelMetrics
    THEN [st EXCEPT !.issues = @ \cup {"missing"}]
    ELSE [st EXCEPT !.issues = @ \cup EntryIssues(byName[info.name])]

\* One turn of the loop over Known; a metric that has an entry is struck off
\* kernelMetrics.
CheckKnown(byName, st, info) ==
    IF info.name \notin st.kernelMetrics
    THEN [st EXCEPT !.issues = @ \cup {"missing"}]
    ELSE [kernelMetrics |-> st.kernelMetrics \ {info.name},
          issues |-> st.issues \cup EntryIssues(byName[info.name])]

\* The loop over Known, after the entries that repeat a name were found.
Checked(reg) ==
    LET byName == KernelRegistryByName(reg)
        dups == {k \in DOMAIN reg : \E j \in 1 .. k - 1 : reg[j].name = reg[k].name}
    IN  FoldLeft(LAMBDA st, info : CheckKnown(byName, st, info),
                 [kernelMetrics |-> {km.name : km \in Range(reg)},
                  issues |-> {"duplicate" : k \in dups}],
                 Known)

ValidateRegistry(reg) ==
    LET end == Checked(reg)
    IN  end.issues \cup {"not in Known" : n \in end.kernelMetrics}

-----------------------------------------------------------------------------
(* The server. *)

\* Mutant: entries are merged by position.
FullRegistryByPosition(reg) ==
    [k \in DOMAIN Known |->
        [name |-> Known[k].name, cat |-> Known[k].cat,
         kernel |-> IF reg # Nil /\ k <= Len(reg) THEN reg[k].kernel ELSE Bare("DYNAMIC"),
         rec    |-> IF reg # Nil /\ k <= Len(reg) THEN reg[k].rec ELSE Bare("DYNAMIC")]]

\* buildFullRegistry
FullRegistry(reg) ==
    LET byName == IF reg = Nil THEN << >> ELSE KernelRegistryByName(reg)
    IN [k \in DOMAIN Known |->
          [name |-> Known[k].name, cat |-> Known[k].cat,
           kernel |-> IF Known[k].name \in DOMAIN byName
                      THEN byName[Known[k].name].kernel ELSE Bare("DYNAMIC"),
           rec    |-> IF Known[k].name \in DOMAIN byName
                      THEN byName[Known[k].name].rec ELSE Bare("DYNAMIC")]]

InCategory(s, cat) == {e \in Range(s) : e.cat = cat}

ByCategory(cat) == Filter(Known, InCategory(Known, cat))

Categories ==
    FoldLeft(LAMBDA out, info : IF Contains(out, info.cat) THEN out
                                ELSE Append(out, info.cat), << >>, Known)

\* Mutant: the filter loop starts at index 1.
ListKnownMetricsFromOne(full, cat) ==
    IF cat = "" THEN full
    ELSE Filter(Tail(full), InCategory(full, cat))

ListKnownMetrics(full, cat) ==
    IF cat = "" THEN full ELSE Filter(full, InCategory(full, cat))

ListCategories ==
    [k \in DOMAIN Categories |->
        [name |-> Categories[k], count |-> Len(ByCategory(Categories[k]))]]

-----------------------------------------------------------------------------
VARIABLES
    file,             \* entries of the textproto, in order
    wellFormed,       \* prototext.Unmarshal accepts the file
    edits,            \* edits since the file was generated
    kernelRegistry,   \* what the running server loaded, or Nil
    fullRegistry      \* what it serves from; << >> before the first start

vars == <<file, wellFormed, edits, kernelRegistry, fullRegistry>>

Init ==
    /\ file = << >> /\ wellFormed = TRUE /\ edits = 0
    /\ kernelRegistry = Nil /\ fullRegistry = << >>

Done == Len(file) >= Len(Known) \/ edits > 0

\* main of generate_textproto.go, one metric; what it wrote replaces the file
\* as a whole, so nothing else happens before the last one.
GenerateEntry ==
    /\ ~Done
    /\ file' = Append(file, Generated(Known[Len(file) + 1]))
    /\ UNCHANGED <<wellFormed, edits, kernelRegistry, fullRegistry>>

\* The file falls behind Known, or is edited.
Edit(f, ok) ==
    /\ Done /\ edits < MaxEdits
    /\ file' = f /\ wellFormed' = ok /\ edits' = edits + 1
    /\ UNCHANGED <<kernelRegistry, fullRegistry>>

Spots == DOMAIN file \cap Editable

RemoveEntry == \E k \in Spots : Edit(RemoveAt(file, k), wellFormed)
CopyEntry   == \E k \in Spots : Edit(Append(file, file[k]), wellFormed)
RenameEntry == \E k \in Spots : Edit([file EXCEPT ![k].name = Stray], wellFormed)
SetRecommended ==
    \E k \in Spots, a \in {Nil} \cup [pattern : {"POLLED"}, ttl : EditTtls \cup {NoTtl}] :
        Edit([file EXCEPT ![k].rec = a], wellFormed)
UnsetKernel == \E k \in Spots : Edit([file EXCEPT ![k].kernel = Nil], wellFormed)
Garble == wellFormed /\ Edit(file, FALSE)

LoadKernelRegistry(osVersion) ==
    IF osVersion = OsVersion /\ wellFormed THEN file ELSE Nil

\* New(osVersion), in place of the server that ran before.
New(osVersion) ==
    /\ Done
    /\ kernelRegistry' = IF osVersion # "" THEN LoadKernelRegistry(osVersion) ELSE Nil
    /\ fullRegistry' = FullRegistry(kernelRegistry')
    /\ UNCHANGED <<file, wellFormed, edits>>

Next ==
    \/ GenerateEntry
    \/ RemoveEntry \/ CopyEntry \/ RenameEntry \/ SetRecommended \/ UnsetKernel \/ Garble
    \/ \E v \in OsVersions : New(v)

Spec == Init /\ [][Next]_vars

-----------------------------------------------------------------------------
Serving == fullRegistry # << >>

\* What ValidateRegistry is for: the registry has exactly one entry for each
\* Known metric and no other, and every entry can be scheduled.
Consistent(reg) ==
    /\ Cardinality({km.name : km \in Range(reg)}) = Len(reg)
    /\ {km.name : km \in Range(reg)} = KnownNames
    /\ \A km \in Range(reg) :
          /\ km.kernel # Nil /\ km.rec # Nil
          /\ Scheduled(km.rec.pattern) => km.rec.ttl # NoTtl

\* ValidateRegistry, which folds over Known while it empties its own map and
\* sees only the last of several entries of a name, reports no issue exactly
\* for the consistent registries.
ValidatorExact ==
    Done => (ValidateRegistry(file) = {} <=> Consistent(file))

\* The generator's output passes the validator, and no category falls through
\* classifyRecommended to DYNAMIC: a server with the generated registry reads
\* no Known metric live.
GeneratedIsComplete ==
    Done /\ edits = 0 =>
        /\ ValidateRegistry(file) = {}
        /\ \A km \in Range(file) : km.rec.pattern # "DYNAMIC"

\* Whatever happened to the file, the merged registry lists the Known metrics
\* in order; an entry carries the patterns of an entry the server loaded under
\* that name, and is DYNAMIC only if there was none or that entry said so.
MergeFaithful ==
    Serving =>
        /\ Len(fullRegistry) = Len(Known)
        /\ \A k \in DOMAIN Known :
              LET km == fullRegistry[k]
                  own == IF kernelRegistry = Nil THEN {}
                         ELSE {e \in Range(kernelRegistry) : e.name = km.name}
              IN /\ km.name = Known[k].name /\ km.cat = Known[k].cat
                 /\ IF own = {} THEN km.kernel = Bare("DYNAMIC") /\ km.rec = Bare("DYNAMIC")
                    ELSE \E e \in own : km.kernel = e.kernel /\ km.rec = e.rec

Total(cats) == FoldLeft(LAMBDA n, c : n + c.count, 0, cats)

\* The category requests cut the registry up without loss or overlap: the
\* categories listed are distinct, their counts are the lengths of what
\* ListKnownMetrics answers for them, and the counts add up to the whole.
CategoriesPartition ==
    Serving =>
        LET cats == ListCategories
        IN /\ \A a, b \in DOMAIN cats : cats[a].name = cats[b].name => a = b
           /\ \A a \in DOMAIN cats :
                 cats[a].count = Len(ListKnownMetrics(fullRegistry, cats[a].name))
           /\ Total(cats) = Len(ListKnownMetrics(fullRegistry, ""))

\* CACHE_DESIGN.md: "if a layer upstream says a metric is STATIC, all
\* downstream layers must treat it as STATIC or DISABLED".
StaticStaysStatic ==
    \A km \in Range(fullRegistry) :
        km.kernel # Nil /\ km.rec # Nil /\ km.kernel.pattern = "STATIC"
            => km.rec.pattern \in {"STATIC", "DISABLED"}
=============================================================================
