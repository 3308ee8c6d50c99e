----------------------------- MODULE MCRegistry -----------------------------
(***************************************************************************)
(* An excerpt of the Known table, in its order: a writable and a read-only *)
(* metric of every category of registry.go that has one, and the names the *)
(* generator singles out.                                                  *)
(***************************************************************************)
EXTENDS Client

M(name, cat) == [name |-> name, cat |-> cat]

Catalogue ==
    <<M("hw.ncpu", "hw.cpu"), M("hw.memsize", "hw.memory"),
      M("hw.cachelinesize", "hw.cache"), M("hw.perflevel0.name", "hw.perflevel"),
      M("hw.optional.arm.FEAT_AES", "hw.arm"), M("kern.ostype", "kern.identity"),
      M("kern.hostname", "kern.identity"), M("kern.num_files", "kern.process"),
      M("kern.memorystatus_level", "kern.memory"), M("kern.memorystatus_purge_on_warning", "kern.memory"),
      M("kern.sched", "kern.sched"), M("kern.sched_allow_NO_SMT_threads", "kern.sched"),
      M("kern.cpu_checkin_interval", "kern.sched"), M("kern.boottime", "kern.time"),
      M("kern.sleeptime", "kern.time"), M("kern.maxproc", "kern.limits"),
      M("kern.argmax", "kern.limits"), M("kern.ipc.maxsockbuf", "kern.ipc"),
      M("kern.ipc.nmbclusters", "kern.ipc"), M("kern.hv_support", "kern.misc"),
      M("kern.hv_vmm_present", "kern.misc"), M("kern.hibernatemode", "kern.misc"),
      M("vm.memory_pressure", "vm.pressure"), M("vm.pages", "vm.pages"),
      M("vm.compressor_mode", "vm.compressor"), M("vm.pageout_inactive_clean", "vm.pageout"),
      M("vm.swapusage", "vm.swap"), M("vm.swap_enabled", "vm.swap"),
      M("vm.swapfileprefix", "vm.swap"), M("vm.global_user_wire_limit", "vm.wire"),
      M("vm.add_wire_count_over_global_limit", "vm.wire"), M("vm.cs_blob_count", "vm.misc"),
      M("machdep.cpu.brand_string", "machdep"), M("machdep.cpu.core_count", "machdep"),
      M("machdep.user_idle_level", "machdep"), M("net.inet.tcp.mssdflt", "net.tcp"),
      M("net.inet.tcp.pcbcount", "net.tcp"), M("net.inet.tcp.sack_globalholes", "net.tcp"),
      M("net.inet.udp.pcbcount", "net.udp"), M("net.inet.udp.maxdgram", "net.udp"),
      M("net.inet.ip.forwarding", "net.ip"), M("net.local.pcbcount", "net.misc"),
      M("net.soflow.count", "net.misc"), M("vfs.vnstats.num_vnodes", "vfs"),
      M("debug.lowpri_throttle_enabled", "debug"), M("kpc.pc_capture_supported", "kpc"),
      M("kperf.debug_level", "kpc"), M("iogpu.wired_limit_mb", "iogpu"),
      M("security.mac.vnode_label_count", "security"), M("computed.memory_utilization_pct", "computed")>>

Tunables ==
    {"debug.lowpri_throttle_enabled", "iogpu.wired_limit_mb",
     "kern.cpu_checkin_interval", "kern.hibernatemode", "kern.hostname",
     "kern.ipc.maxsockbuf", "kern.maxproc",
     "kern.memorystatus_purge_on_warning", "kperf.debug_level",
     "machdep.user_idle_level", "net.inet.ip.forwarding",
     "net.inet.tcp.mssdflt", "net.inet.udp.maxdgram",
     "vm.global_user_wire_limit"}

\* Command lines of the client: one for each request, and the usage.
Line(cats, list, all, cat, args) ==
    [cats |-> cats, list |-> list, all |-> all, cat |-> cat, args |-> args]

CommandLines ==
    {Line(TRUE, TRUE, FALSE, "", << >>), Line(FALSE, TRUE, TRUE, "kern.time", << >>),
     Line(FALSE, FALSE, TRUE, "vfs", << >>), Line(FALSE, FALSE, TRUE, "", << >>),
     Line(FALSE, FALSE, FALSE, "", <<"kern.gone", "hw.ncpu">>),
     Line(FALSE, FALSE, FALSE, "", << >>)}
=============================================================================
