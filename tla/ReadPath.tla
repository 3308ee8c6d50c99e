------------------------------ MODULE ReadPath ------------------------------
(***************************************************************************)
(* readMetricLive (internal/server/server.go) from the call to the answer: *)
(* the lookup in the index of LazyIndex, one kernel read after the other,  *)
(* decoding, and the seven metrics the server computes, against a kernel   *)
(* that changes between any two of these steps.                            *)
(*                                                                         *)
(* A kernel read is one step, which is what MIBCache shows of GetRaw: the  *)
(* value of one instant, whole, or ENOMEM for a value that grew meanwhile. *)
(* Quotients are kept as pairs <<numerator, denominator>>; formatting, and *)
(* the fields that show a time once more in another format, are left out.  *)
(***************************************************************************)
EXTENDS LazyIndex, Decode

CONSTANTS
    TypeOf,      \* the type registry.go gives each Known name
    Asks,        \* Asks[w]: the names worker w asks for
    Kernels,     \* states of the kernel at the start: [now, obj]
    Moves,       \* new objects for some names, changed by the kernel at once
    Steps,       \* by how much the wall clock may be stepped
    PerSec,      \* ticks of the clock in a second: 10^6 in the program
    Gone,        \* a name the kernel does not have
    MaxChanges   \* bound of the model: changes of the kernel

Computed ==
    {"computed.memory_utilization_pct", "computed.compression_ratio",
     "computed.swap_utilization_pct", "computed.compressor_pressure_pct",
     "computed.total_connections", "computed.uptime_seconds",
     "computed.vfs_reclamation_pct"}

Op(name, type) == [name |-> name, type |-> type]

\* What readComputed's functions read, in order.
Operands ==
    [m \in Computed |->
        CASE m = "computed.memory_utilization_pct" ->
                <<Op("vm.pages", "int32"), Op("vm.page_free_count", "int32")>>
          [] m = "computed.compression_ratio" ->
                <<Op("vm.compressor_input_bytes", "uint64"),
                  Op("vm.compressor_compressed_bytes", "uint64")>>
          [] m = "computed.swap_utilization_pct" -> <<Op("vm.swapusage", "swap")>>
          [] m = "computed.compressor_pressure_pct" ->
                <<Op("vm.compressor_bytes_used", "uint64"),
                  Op("vm.compressor_pool_size", "uint64")>>
          [] m = "computed.total_connections" ->
                <<Op("net.inet.tcp.pcbcount", "int32"),
                  Op("net.inet.udp.pcbcount", "int32"), Op("net.local.pcbcount", "int32")>>
          [] m = "computed.uptime_seconds" -> <<Op("kern.boottime", "timeval")>>
          [] m = "computed.vfs_reclamation_pct" ->
                <<Op("vfs.vnstats.num_vnodes", "int64"),
                  Op("vfs.vnstats.num_recycledvnodes", "int64")>>]

\* The switch of readMetricLive, and its three getters without a parameter.
Getter(type, raw) ==
    CASE type = "string"  -> GetString(raw)
      [] type = "uint64"  -> GetUint64(raw)
      [] type = "uint32"  -> GetUint32(raw)
      [] type = "int32"   -> GetInt32(raw)
      [] type = "int64"   -> GetInt64(raw)
      [] type = "timeval" -> GetTimeval(raw)
      [] type = "loadavg" -> GetLoadavg(raw)
      [] type = "swap"    -> GetSwapUsage(raw)
      [] type = "clock"   -> GetClockinfo(raw)
      [] type = "raw"     -> Ok(raw)

\* The types the switch knows, and the names that are read from the kernel.
Types ==
    {"string", "uint64", "uint32", "int32", "int64", "timeval", "loadavg", "swap",
     "clock", "raw"}
OperandNames == UNION {{op.name : op \in Range(Operands[m])} : m \in Computed}
ReadNames == (KnownNames \ Computed) \cup Unknown \cup OperandNames

ASSUME ReadPathAssumption ==
    /\ DOMAIN TypeOf = KnownNames /\ PerSec \in Nat \ {0} /\ MaxChanges \in Nat
    /\ Computed \subseteq KnownNames
    /\ \A n \in KnownNames : IF n \in Computed THEN TypeOf[n] = "computed"
                                               ELSE TypeOf[n] \in Types
    /\ Nil \notin KnownNames \cup Unknown \cup OperandNames \cup {"vm.pages is 0"}
    /\ \A n \in KnownNames : /\ TypeOf[n] = "loadavg" => n = "vm.loadavg"
                             /\ TypeOf[n] = "swap" => n = "vm.swapusage"
                             /\ TypeOf[n] = "clock" => n = "kern.clockrate"

\* The reads for a name, given ByName's answer.
Plan(name, info) ==
    IF info = Nil THEN <<Op(name, "raw")>>
    ELSE IF TypeOf[name] = "computed" THEN Operands[name]
    ELSE <<Op(name, TypeOf[name])>>

-----------------------------------------------------------------------------
Value(type, v) == [error |-> Nil, type |-> type, value |-> v]
Error(of)      == [error |-> of]

\* The fields a response shows of a struct.
Shown(type, v) ==
    CASE type = "swap"  -> [total |-> v.Total, avail |-> v.Avail, used |-> v.Used]
      [] type = "clock" -> [hz |-> v.Hz, tick |-> v.Tick, profhz |-> v.Profhz,
                            stathz |-> v.Stathz]
      [] OTHER -> v

Ratio(num, den) == IF den > 0 THEN <<num, den>> ELSE <<0, 1>>

computeMemoryUtil(total, free) ==
    IF total = 0 THEN Error("vm.pages is 0")
    ELSE Value("computed", [value |-> <<100 * Signed(total - free, 4), total>>,
                            total_pages |-> total, free_pages |-> free])

computeCompressionRatio(input, compressed) ==
    Value("computed", [value |-> Ratio(input, compressed), input_bytes |-> input,
                       compressed_bytes |-> compressed])

computeSwapUtil(su) ==
    Value("computed", [value |-> Ratio(100 * su.Used, su.Total), swap_used |-> su.Used,
                       swap_total |-> su.Total])

\* Mutant: the quotient upside down.
computeCompressorPressureInverse(used, pool) ==
    Value("computed", [value |-> Ratio(100 * pool, used), bytes_used |-> used,
                       pool_size |-> pool])

computeCompressorPressure(used, pool) ==
    Value("computed", [value |-> Ratio(100 * used, pool), bytes_used |-> used,
                       pool_size |-> pool])

computeTotalConnections(tcp, udp, unix) ==
    Value("computed", [value |-> tcp + udp + unix, tcp |-> tcp, udp |-> udp, unix |-> unix])

Time(tv) == Signed(tv.Sec, 8) * PerSec + Signed(tv.Usec, 8)
Truncate(d) == IF d >= 0 THEN d \div PerSec ELSE -((-d) \div PerSec)

computeUptime(tv, now) == Value("computed", [value |-> Truncate(now - Time(tv))])

computeVFSReclamation(total, recycled) ==
    Value("computed", [value |-> Ratio(100 * recycled, total), recycled |-> recycled,
                       total |-> total])

\* The answer once everything has been read.
Answer(name, info, v, now) ==
    IF info = Nil THEN Value("raw", v[1])
    ELSE CASE name = "computed.memory_utilization_pct"  -> computeMemoryUtil(v[1], v[2])
           [] name = "computed.compression_ratio"       -> computeCompressionRatio(v[1], v[2])
           [] name = "computed.swap_utilization_pct"    -> computeSwapUtil(v[1])
           [] name = "computed.compressor_pressure_pct" -> computeCompressorPressure(v[1], v[2])
           [] name = "computed.total_connections"       -> computeTotalConnections(v[1], v[2], v[3])
           [] name = "computed.uptime_seconds"          -> computeUptime(v[1], now)
           [] name = "computed.vfs_reclamation_pct"     -> computeVFSReclamation(v[1], v[2])
           [] OTHER -> Value(TypeOf[name], Shown(TypeOf[name], v[1]))

-----------------------------------------------------------------------------
VARIABLES
    hist,    \* the states the kernel has been in, the present one last
    phase,   \* where readMetricLive is in each thread
    at,      \* at[t]: the instant of the call, then that of each read, as
             \* positions in hist
    got,     \* got[t]: the operands decoded so far
    resp     \* resp[t]: the answer, Nil while there is none

readVars == <<hist, phase, at, got, resp>>
allVars == <<vars, readVars>>

Kernel == Last(hist)

RInit ==
    /\ Init
    /\ hist \in {<<k>> : k \in Kernels}
    /\ phase = [t \in Threads |-> "idle"]
    /\ at = [t \in Threads |-> << >>]
    /\ got = [t \in Threads |-> << >>]
    /\ resp = [t \in Threads |-> Nil]

-----------------------------------------------------------------------------
(* The kernel. *)

\* What a name can stand for: an object of any C type, for an operand of a
\* computed metric the one its C declaration gives it; or nothing.
Proper(n, obj) ==
    obj = Gone \/ /\ WellFormed(obj)
                  /\ \A m \in Computed : \A op \in Range(Operands[m]) :
                        op.name = n => obj.ctype = op.type

\* A part is at most its whole, at any instant at which the kernel has both.
AtMost(obj, part, p, whole, w) ==
    obj[part] # Gone /\ obj[whole] # Gone => obj[part].vals[p] \in 0 .. obj[whole].vals[w]

Sane(obj) ==
    /\ AtMost(obj, "vm.page_free_count", 1, "vm.pages", 1)
    /\ AtMost(obj, "vm.swapusage", 3, "vm.swapusage", 1)
    /\ AtMost(obj, "vm.compressor_bytes_used", 1, "vm.compressor_pool_size", 1)

Healthy(k) ==
    /\ k.now \in Int /\ ReadNames \subseteq DOMAIN k.obj
    /\ \A n \in DOMAIN k.obj : Proper(n, k.obj[n])
    /\ k.obj["kern.boottime"] # Gone /\ Sane(k.obj)

\* The boot time moves only with the clock.
ASSUME KernelAssumption ==
    /\ \A k \in Kernels : Healthy(k)
    /\ \A m \in Moves : /\ "kern.boottime" \notin DOMAIN m
                        /\ \A n \in DOMAIN m : Proper(n, m[n])
    /\ Steps \subseteq Int /\ Gone \notin [ctype : {"timeval"}, vals : Members("timeval")]

KernelStep(now, obj) ==
    /\ Len(hist) <= MaxChanges
    /\ hist' = Append(hist, [now |-> now, obj |-> obj])
    /\ UNCHANGED <<vars, phase, at, got, resp>>

Changed(m) == [n \in DOMAIN Kernel.obj |-> IF n \in DOMAIN m THEN m[n] ELSE Kernel.obj[n]]

KernelChange == \E m \in Moves : Sane(Changed(m)) /\ KernelStep(Kernel.now, Changed(m))

Advance == KernelStep(Kernel.now + 1, Kernel.obj)

BootTicks(k) == k.obj["kern.boottime"].vals[1] * PerSec + k.obj["kern.boottime"].vals[2]

BootTime(ticks) == [ctype |-> "timeval", vals |-> <<ticks \div PerSec, ticks % PerSec>>]

\* Setting the clock moves the boot time with it: uptime does not jump.
StepClock ==
    \E d \in Steps :
        LET boot == BootTime(BootTicks(Kernel) + d)
        IN  /\ WellFormed(boot)
            /\ KernelStep(Kernel.now + d, [Kernel.obj EXCEPT !["kern.boottime"] = boot])

\* readMetricLive is called: by newPoller, then by handlers and the poller.
BeginRead(t) ==
    /\ phase' = [phase EXCEPT ![t] = "index"]
    /\ at' = [at EXCEPT ![t] = <<Len(hist)>>]
    /\ got' = [got EXCEPT ![t] = << >>]
    /\ resp' = [resp EXCEPT ![t] = Nil]
    /\ UNCHANGED hist

Free(t) == phase[t] \in {"idle", "done"}

NewReads == Free(Main) /\ StartupCall /\ BeginRead(Main)

\* newPoller has returned; what it read is in the poller's store.
NewReturns ==
    /\ Free(Main) /\ Serve
    /\ phase' = [phase EXCEPT ![Main] = "idle"]
    /\ at' = [at EXCEPT ![Main] = << >>]
    /\ got' = [got EXCEPT ![Main] = << >>]
    /\ resp' = [resp EXCEPT ![Main] = Nil]
    /\ UNCHANGED hist

Ask(t) == Free(t) /\ Call(t) /\ arg'[t] \in Asks[t] /\ BeginRead(t)

IndexStep(t) ==
    /\ Check(t) \/ MakeMap(t) \/ InsertBegin(t) \/ InsertEnd(t) \/ FillDone(t)
    /\ UNCHANGED readVars

LookedUp(t) ==
    /\ Lookup(t)
    /\ phase' = [phase EXCEPT ![t] = IF crashed' THEN @ ELSE "read"]
    /\ UNCHANGED <<hist, at, got, resp>>

Reply(t, r) ==
    /\ resp' = [resp EXCEPT ![t] = r]
    /\ phase' = [phase EXCEPT ![t] = "done"]

\* An operand could not be read or decoded: nothing else is read.
ReadFails(t) ==
    /\ Reply(t, Error(Plan(arg[t], ret[t])[Len(got[t]) + 1].name))
    /\ UNCHANGED got

ReadOk(t, v) ==
    /\ got' = [got EXCEPT ![t] = Append(@, v)]
    /\ IF Len(got'[t]) < Len(Plan(arg[t], ret[t])) THEN UNCHANGED <<phase, resp>>
       ELSE IF ret[t] = "computed.uptime_seconds"
         THEN phase' = [phase EXCEPT ![t] = "now"] /\ UNCHANGED resp
         ELSE Reply(t, Answer(arg[t], ret[t], got'[t], 0))

RawOf(obj) == CopyOut(obj.ctype, obj.vals)

Read(t) ==
    /\ phase[t] = "read"
    /\ at' = [at EXCEPT ![t] = Append(@, Len(hist))]
    /\ LET op  == Plan(arg[t], ret[t])[Len(got[t]) + 1]
           obj == Kernel.obj[op.name]
       IN  \/ obj = Gone /\ ReadFails(t)
           \/ /\ obj # Gone
              /\ LET r == Getter(op.type, RawOf(obj))
                 IN IF r.ok THEN ReadOk(t, r.val) ELSE ReadFails(t)
    /\ UNCHANGED <<hist, vars>>

\* The value grew between the two calls of a read.
Grew(n, from) ==
    \E a, b \in from .. Len(hist) :
        /\ a < b /\ Gone \notin {hist[a].obj[n], hist[b].obj[n]}
        /\ Len(RawOf(hist[a].obj[n])) < Len(RawOf(hist[b].obj[n]))

ReadEnomem(t) ==
    /\ phase[t] = "read"
    /\ Grew(Plan(arg[t], ret[t])[Len(got[t]) + 1].name, Last(at[t]))
    /\ at' = [at EXCEPT ![t] = Append(@, Len(hist))]
    /\ ReadFails(t)
    /\ UNCHANGED <<hist, vars>>

\* Mutant: the time of the call stands in for the time of the read.
ReadClockAtCall(t) ==
    /\ phase[t] = "now"
    /\ at' = [at EXCEPT ![t] = Append(@, Len(hist))]
    /\ Reply(t, Answer(arg[t], ret[t], got[t], hist[at[t][1]].now))
    /\ UNCHANGED <<hist, got, vars>>

\* time.Since: the wall clock, after the boot time was read.
ReadClock(t) ==
    /\ phase[t] = "now"
    /\ at' = [at EXCEPT ![t] = Append(@, Len(hist))]
    /\ Reply(t, Answer(arg[t], ret[t], got[t], Kernel.now))
    /\ UNCHANGED <<hist, got, vars>>

RNext ==
    /\ ~crashed
    /\ \/ KernelChange \/ Advance \/ StepClock \/ NewReads \/ NewReturns
       \/ \E t \in Workers : Ask(t)
       \/ \E t \in Threads : IndexStep(t) \/ LookedUp(t) \/ Read(t) \/ ReadEnomem(t)
                               \/ ReadClock(t)

RSpec == RInit /\ [][RNext]_allVars

-----------------------------------------------------------------------------
\* What is to be read for a metric, whatever the index said of it.
Info(n) == IF n \in KnownNames THEN n ELSE Nil
Wanted(t) == Plan(arg[t], Info(arg[t]))
ObjAt(t, k, j) == hist[j].obj[Wanted(t)[k].name]

\* The objects a thread has read.
Objs(t) == [k \in 1 .. Min({Len(at[t]) - 1, Len(Wanted(t))}) |-> ObjAt(t, k, at[t][k + 1])]
Answered(t) == phase[t] = "done" /\ resp[t].error = Nil

\* What an object says to someone who knows its C type.
Meaning(obj) ==
    LET v == obj.vals
        load(k) == <<v[k], IF v[4] = 0 THEN 2048 ELSE v[4]>>
    IN  CASE obj.ctype = "string"  -> SubSeq(v, 1, Min({k \in DOMAIN v : v[k] = 0}) - 1)
          [] obj.ctype = "raw"     -> v
          [] obj.ctype = "timeval" -> [Sec |-> v[1], Usec |-> v[2]]
          [] obj.ctype = "loadavg" -> [Load1 |-> load(1), Load5 |-> load(2), Load15 |-> load(3)]
          [] obj.ctype = "swap"    -> [Total |-> v[1], Avail |-> v[2], Used |-> v[3],
                                       Flags |-> v[4] + v[5] * Word]
          [] obj.ctype = "clock"   -> [Hz |-> v[1], Tick |-> v[2], Spare |-> v[3],
                                       Profhz |-> v[4], Stathz |-> v[5]]
          [] OTHER -> v[1]

\* A response is made of what the kernel held, member by member, at the
\* instants of its reads, typed as the registry types the metric: never raw
\* bytes because the index was not ready, never a member from the wrong offset
\* or with the wrong sign.  It is an error only if the operand read last was
\* missing, grew under the read or had another width, or vm.pages was 0.
AnswerHeld ==
    \A t \in Threads : phase[t] = "done" =>
        LET plan == Wanted(t)
            objs == Objs(t)
            last == Len(objs)
        IN IF resp[t].error = Nil
           THEN /\ last = Len(plan) /\ Gone \notin Range(objs)
                /\ (\A k \in DOMAIN plan : objs[k].ctype = plan[k].type) =>
                      resp[t] = Answer(arg[t], Info(arg[t]),
                                       [k \in DOMAIN plan |-> Meaning(objs[k])],
                                       hist[Last(at[t])].now)
           ELSE \/ objs[last] = Gone
                \/ objs[last].ctype # plan[last].type
                \/ Grew(plan[last].name, at[t][last])
                \/ resp[t].error = "vm.pages is 0" /\ objs[1].vals = <<0>>

\* The kernel never held, during the call, all that the answer is made of.
Torn(t) ==
    ~\E j \in at[t][1] .. Last(at[t]) : \A k \in DOMAIN Objs(t) : Objs(t)[k] = ObjAt(t, k, j)

Percentages ==
    {"computed.memory_utilization_pct", "computed.swap_utilization_pct",
     "computed.compressor_pressure_pct"}

\* A utilization is between 0 and 100 per cent unless its operands were read
\* on both sides of a change; that of swap, which is one read, always is.
PercentSane ==
    \A t \in Threads : Answered(t) /\ arg[t] \in Percentages =>
        LET pct == resp[t].value.value
        IN  pct[1] \in 0 .. 100 * pct[2] \/ Torn(t)

\* The uptime answered is one the machine had between the call and the return, off
\* by what the clock was set by between the read of the boot time and that of the
\* clock, to the tick: a clock set at any other moment of the call does no harm.
UptimeTrue ==
    \A t \in Threads : Answered(t) /\ arg[t] = "computed.uptime_seconds" =>
        LET end == Last(at[t])
            set == BootTicks(hist[end]) - BootTicks(hist[at[t][2]])
            up(j) == Truncate(hist[j].now - BootTicks(hist[j]) + set)
        IN  resp[t].value.value \in up(at[t][1]) .. up(end)
=============================================================================
