----------------------------- MODULE MCReadPath -----------------------------
(***************************************************************************)
(* An instance of ReadPath for TLC: a metric of every type, the computed   *)
(* ones, a name the registry does not know and one the kernel does not     *)
(* have.  A byte is a bit: 4-byte numbers are -8 .. 7, 8-byte ones 0 ..    *)
(* 255 or -128 .. 127.                                                     *)
(***************************************************************************)
EXTENDS ReadPath

Rows ==
    <<<<"kern.ostype", "string">>, <<"hw.memsize", "uint64">>, <<"vm.pages", "int32">>,
      <<"hw.pagesize", "int64">>, <<"hw.l3cachesize", "int64">>,
      <<"kern.boottime", "timeval">>, <<"vm.loadavg", "loadavg">>,
      <<"vm.swapusage", "swap">>, <<"kern.clockrate", "clock">>,
      <<"hw.cacheconfig", "raw">>, <<"computed.memory_utilization_pct", "computed">>,
      <<"computed.compression_ratio", "computed">>,
      <<"computed.swap_utilization_pct", "computed">>,
      <<"computed.compressor_pressure_pct", "computed">>,
      <<"computed.total_connections", "computed">>,
      <<"computed.uptime_seconds", "computed">>,
      <<"computed.vfs_reclamation_pct", "computed">>>>

AllKnown == [k \in DOMAIN Rows |-> Rows[k][1]]
TypeRows == [n \in Range(AllKnown) |-> (CHOOSE r \in Range(Rows) : r[1] = n)[2]]
AllUnknown == {"kern.unlisted", "kern.nosuch"}
StartReads == <<"kern.ostype">>

Obj(ctype, vals) == [ctype |-> ctype, vals |-> vals]

FullKernel ==
    [n \in {"kern.ostype"} |-> Obj("string", <<1, 1, 0>>)]
    @@ [n \in {"hw.memsize", "vm.compressor_input_bytes"} |-> Obj("uint64", <<200>>)]
    @@ [n \in {"vm.compressor_compressed_bytes"} |-> Obj("uint64", <<50>>)]
    @@ [n \in {"vm.compressor_bytes_used"} |-> Obj("uint64", <<20>>)]
    @@ [n \in {"vm.compressor_pool_size"} |-> Obj("uint64", <<30>>)]
    @@ [n \in {"vm.pages"} |-> Obj("int32", <<5>>)]
    @@ [n \in {"vm.page_free_count"} |-> Obj("int32", <<4>>)]
    @@ [n \in {"net.inet.tcp.pcbcount", "net.inet.udp.pcbcount", "net.local.pcbcount"}
          |-> Obj("int32", <<7>>)]
    @@ [n \in {"hw.pagesize", "vfs.vnstats.num_vnodes"} |-> Obj("int64", <<64>>)]
    @@ [n \in {"vfs.vnstats.num_recycledvnodes"} |-> Obj("int64", <<-3>>)]
    @@ [n \in {"hw.l3cachesize"} |-> Obj("int32", <<3>>)]
    @@ [n \in {"kern.boottime"} |-> Obj("timeval", <<10, 1>>)]
    @@ [n \in {"vm.loadavg"} |-> Obj("loadavg", <<1, 2, 3, 8>>)]
    @@ [n \in {"vm.swapusage"} |-> Obj("swap", <<90, 60, 30, 4, 1>>)]
    @@ [n \in {"kern.clockrate"} |-> Obj("clock", <<1, 2, -1, 3, 4>>)]
    @@ [n \in {"hw.cacheconfig", "kern.unlisted"} |-> Obj("raw", <<1, 0, 1>>)]
    @@ [n \in {"kern.nosuch"} |-> Gone]

\* A kernel without swap, without a compressor pool and with nothing counted.
BareKernel ==
    [n \in {"vm.swapusage"} |-> Obj("swap", <<0, 0, 0, 4, 0>>)]
    @@ [n \in {"vm.compressor_compressed_bytes", "vm.compressor_pool_size",
               "vm.compressor_bytes_used"} |-> Obj("uint64", <<0>>)]
    @@ [n \in {"vm.pages", "vm.page_free_count"} |-> Obj("int32", <<0>>)]
    @@ [n \in {"vfs.vnstats.num_vnodes"} |-> Obj("int64", <<0>>)]
    @@ [n \in {"net.local.pcbcount", "hw.memsize"} |-> Gone]
    @@ [n \in {"vm.loadavg"} |-> Obj("loadavg", <<1, 2, 3, 0>>)]
    @@ FullKernel

TwoKernels == {[now |-> 25, obj |-> FullKernel], [now |-> 25, obj |-> BareKernel]}

\* Two changes of everything that is read together: pages are brought in and
\* freed, the compressor and swap shrink, a value grows, an object goes away;
\* and the other way about.
SomeMoves ==
    {[n \in {"vm.pages"} |-> Obj("int32", <<7>>)]
        @@ [n \in {"vm.page_free_count"} |-> Obj("int32", <<6>>)]
        @@ [n \in {"vm.compressor_bytes_used"} |-> Obj("uint64", <<4>>)]
        @@ [n \in {"vm.compressor_pool_size"} |-> Obj("uint64", <<10>>)]
        @@ [n \in {"vm.swapusage"} |-> Obj("swap", <<40, 30, 10, 4, 1>>)]
        @@ [n \in {"vm.loadavg"} |-> Obj("loadavg", <<8, 4, 2, 16>>)]
        @@ [n \in {"kern.ostype"} |-> Obj("string", <<1, 1, 1, 1, 0>>)]
        @@ [n \in {"net.inet.udp.pcbcount"} |-> Gone],
     [n \in {"vm.pages"} |-> Obj("int32", <<2>>)]
        @@ [n \in {"vm.page_free_count"} |-> Obj("int32", <<0>>)]
        @@ [n \in {"vm.compressor_bytes_used", "vm.compressor_pool_size"}
              |-> Obj("uint64", <<100>>)]
        @@ [n \in {"net.local.pcbcount"} |-> Obj("int32", <<1>>)]}

ClockSteps == {-3}

AskAll == [w1 |-> DOMAIN TypeRows \cup AllUnknown, w2 |-> {"kern.nosuch"}]
=============================================================================
