----------------------------- MODULE MCName2Int -----------------------------
(***************************************************************************)
(* An instance of Name2Int for TLC.  The MIBs are those Darwin gives, with *)
(* numbers above 127 made small enough for a level to have 128 values; one *)
(* name is not resolved, one MIB is too deep and one too large, and two    *)
(* pairs of names stand for the collisions: a MIB given to two names, and  *)
(* MIBs that differ by a zero at the end.                                  *)
(***************************************************************************)
EXTENDS Name2Int

Mibs ==
    "kern.ostype" :> <<1, 1>> @@ "hw.pagesize" :> <<6, 115>> @@
    "kern.ipc.maxsockbuf" :> <<1, 32, 1>> @@ "vm.loadavg" :> <<2, 2>> @@
    "net.inet.ip.forwarding" :> <<4, 2, 0, 1>> @@ "net.inet" :> <<4, 2>> @@
    "net.inet.ip" :> <<4, 2, 0>> @@ "vfs.vnstats.num_vnodes" :> <<3, 100, 1>> @@
    "security.mac.vnode_label_count" :> <<103, 101, 124, 104, 7>> @@
    "kern.large" :> <<1, 128>> @@ "hw.alias" :> <<6, 115>> @@ "kern.nosuch" :> Nil

Catalogue ==
    <<"kern.ostype", "hw.pagesize", "kern.ipc.maxsockbuf", "kern.nosuch", "vm.loadavg",
      "net.inet.ip.forwarding", "computed.uptime_seconds", "net.inet", "net.inet.ip",
      "vfs.vnstats.num_vnodes", "security.mac.vnode_label_count", "kern.large", "hw.alias",
      "computed.total_connections">>
=============================================================================
