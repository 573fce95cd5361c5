----------------------------- MODULE MibTables -----------------------------
(***************************************************************************)
(* The tables of the MIB modules (agent/mibgroup, agent/disman, agent/trap):*)
(* for each builder of cells, the set of instance OIDs it produces on a     *)
(* machine. OIDs are written below 1.3.6.1; the values of the cells are     *)
(* left out, except where they decide whether a row is there at all.        *)
(*                                                                         *)
(* A machine `m` is what the builders read: the collector's sample, the     *)
(* lines of the /proc files (a malformed line is one whose `ok` is FALSE),  *)
(* the configured checks and the rows of the management tables.             *)
(***************************************************************************)
EXTENDS Oid, FiniteSets

mib2 == <<2, 1>>
enterprises == <<4, 1>>
snmpModules == <<6, 3>>

Scalars(root, columns) == {root \o <<c, 0>> : c \in columns}
TableCells(entry, columns, rows) == {entry \o <<c>> \o i : c \in columns, i \in rows}

(* What `sort_by` makes of the cells of a builder.                          *)
InOrder(cells) ==
    LET place == [c \in cells |-> Cardinality({d \in cells : OidLeq(d, c)})]
    IN  [i \in 1..Cardinality(cells) |-> CHOOSE c \in cells : place[c] = i]

(* Rows numbered from 1, as `enumerate` numbers the entries of a list.      *)
Numbered(n) == {<<i>> : i \in 1..n}

string_index(name) == <<Len(name)>> \o name
oid_index(oid) == <<Len(oid)>> \o oid

----------------------------------------------------------------------------
(* The collector: interfaces and mount points are sorted by name, mount     *)
(* points listed twice appear once.                                         *)

gather_cpus(m) == m.cpus
gather_processes(m) == m.pids
gather_interfaces(m) == Cardinality(m.networks)
gather_disks(m) == Cardinality(ToSet(m.mounts))
host_snapshot(m) ==
    [mem |-> m.mem, swap |-> m.swap, cpus |-> gather_cpus(m), disks |-> gather_disks(m),
     processes |-> gather_processes(m), interfaces |-> gather_interfaces(m)]

(* A device's index is its place in the order the devices are first seen,   *)
(* among the lines that were kept.                                          *)
device_index(kept, device) ==
    LET first(d) == CHOOSE i \in DOMAIN kept :
                      kept[i].device = d /\ \A j \in 1..(i - 1) : kept[j].device # d
        devices == {line.device : line \in ToSet(kept)}
    IN  Cardinality({d \in devices : first(d) <= first(device)})

----------------------------------------------------------------------------
(* SNMPv2-MIB system and IF-MIB. *)

system_cells(c) == Scalars(mib2 \o <<1>>, {c})
sysor_cells(m) == TableCells(mib2 \o <<1, 9, 1>>, {2, 3, 4}, Numbered(m.sysor))

if_number_cells == Scalars(mib2 \o <<2>>, {1})
interface_cells(snap) ==
    TableCells(mib2 \o <<2, 2, 1>>, (1..11) \cup {13, 14, 16, 17, 19, 20}, Numbered(snap.interfaces))
if_xtable_cells(snap) ==
    TableCells(mib2 \o <<31, 1, 1, 1>>, (1..7) \cup {10, 11, 15, 18}, Numbered(snap.interfaces))

----------------------------------------------------------------------------
(* HOST-RESOURCES-MIB. *)

HOST == mib2 \o <<25>>

hr_system_cells == Scalars(HOST \o <<1>>, {1, 2, 5, 6, 7})

(* Physical memory is storage 1, swap space 3, the disks start at 4.        *)
storage_rows(snap) ==
    LET memory == (IF snap.mem THEN {1} ELSE {}) \cup (IF snap.swap THEN {3} ELSE {})
    IN  {<<i>> : i \in memory \cup 4..(3 + snap.disks)}
storage_table_cells(snap) == TableCells(HOST \o <<2, 3, 1>>, 1..6, storage_rows(snap))
hr_storage_cells(snap) == Scalars(HOST \o <<2>>, {2}) \cup storage_table_cells(snap)

(* Devices are the processors, then the disks.                              *)
hr_device_cells(snap) ==
    LET processors == Numbered(snap.cpus)
        devices == Numbered(snap.cpus + snap.disks)
    IN  TableCells(HOST \o <<3, 2, 1>>, {1, 2, 3, 5}, devices)
            \cup TableCells(HOST \o <<3, 3, 1>>, {1, 2}, processors)
            \cup TableCells(HOST \o <<3, 8, 1>>, 1..9, Numbered(snap.disks))

hr_swrun_cells(snap) == TableCells(HOST \o <<4, 2, 1>>, 1..7, {<<p>> : p \in snap.processes})
hr_swrun_perf_cells(snap) == TableCells(HOST \o <<5, 1, 1>>, {1, 2}, {<<p>> : p \in snap.processes})

hr_printer_cells == {}
hr_sw_installed_cells == {}

(* Block devices in the order of their names, without loop and ram devices. *)
disk_storage_names(m) == InOrder({d.name : d \in {b \in m.block : ~ b.virtual}})
disk_storage_rows(m) == Numbered(Len(disk_storage_names(m)))
hr_disk_storage_cells(m) == TableCells(HOST \o <<3, 6, 1, 1>>, 1..5, disk_storage_rows(m))

(* The first disk whose name starts the partition's name, or 0. A line that *)
(* names the disk itself is no partition.                                   *)
parent_index(m, name) ==
    LET disks == disk_storage_names(m)
    IN  IF \E d \in DOMAIN disks : IsPrefix(disks[d], name)
        THEN CHOOSE d \in DOMAIN disks :
               IsPrefix(disks[d], name) /\ \A e \in 1..(d - 1) : ~ IsPrefix(disks[e], name)
        ELSE 0

partition_rows(m) ==
    LET lines == SelectSeq(m.partitions, LAMBDA l : l.ok)
        parent(i) == parent_index(m, lines[i].name)
        listed == {i \in DOMAIN lines :
                     parent(i) # 0 /\ lines[i].name # disk_storage_names(m)[parent(i)]}
    IN  {[parent |-> parent(i),
          index |-> Cardinality({j \in listed : j <= i /\ parent(j) = parent(i)})] : i \in listed}
hr_partition_cells(m) ==
    TableCells(HOST \o <<3, 7, 1, 1>>, 1..5, {<<r.parent * 256 + r.index>> : r \in partition_rows(m)})

hr_network_cells(snap) == TableCells(HOST \o <<3, 4, 1, 1>>, {1}, Numbered(snap.interfaces))

----------------------------------------------------------------------------
(* UCD-SNMP-MIB, LM-SENSORS-MIB and NET-SNMP-EXTEND-MIB. *)

UCD == enterprises \o <<2021>>

memory_cells == Scalars(UCD \o <<4>>, {3, 4, 5, 6, 11})
la_cells == TableCells(UCD \o <<10, 1>>, {1, 2, 3, 5}, Numbered(3))
dsk_cells(snap) == TableCells(UCD \o <<9, 1>>, {1, 2, 3, 6, 7, 8, 9}, Numbered(snap.disks))
ss_cpu_cells == Scalars(UCD \o <<11>>, {9, 10, 11})

ss_cpu_raw_cells == Scalars(UCD \o <<11>>, 50..63)
version_cells == Scalars(UCD \o <<1>>, {1, 2, 3})
ext_table_cells(m) == TableCells(UCD \o <<8, 1>>, 1..5, Numbered(Len(m.exec)))
pr_table_cells(m) == TableCells(UCD \o <<2, 1>>, 1..7, Numbered(m.procs))
file_cells(m) == TableCells(UCD \o <<3, 1>>, 1..6, Numbered(m.files))
log_match_cells(m) == TableCells(UCD \o <<16, 1>>, {1, 2, 3, 4, 7}, Numbered(m.logs))

ucd_cells(m, config) ==
    memory_cells \cup la_cells \cup dsk_cells(host_snapshot(m)) \cup ss_cpu_cells
        \cup ss_cpu_raw_cells \cup version_cells
        \cup IF config THEN ext_table_cells(m) \cup pr_table_cells(m)
                              \cup file_cells(m) \cup log_match_cells(m) ELSE {}

sensor_table_cells(table, n) == TableCells(UCD \o <<13, 16, table, 1>>, 1..4, Numbered(n))
lm_sensors_cells(m) ==
    sensor_table_cells(2, m.temperatures) \cup sensor_table_cells(3, m.fans)
        \cup sensor_table_cells(4, m.voltages)

(* The index is the name without its length; entries of one name share      *)
(* their cells.                                                             *)
NS_EXTEND_OUTPUT1 == enterprises \o <<8072, 1, 3, 2, 3, 1>>
extend_cells(m) == TableCells(NS_EXTEND_OUTPUT1, 1..5, ToSet(m.exec))

----------------------------------------------------------------------------
(* MIB-II: the tables of the /proc files skip the lines they cannot read.   *)

well_formed(lines) == SelectSeq(lines, LAMBDA l : l.ok)

tcp_scalar_cells == Scalars(mib2 \o <<6>>, 1..14)
parse_tcp_conns(m) == ToSet(well_formed(m.tcp))
tcp_conn_cells(m) ==
    TableCells(mib2 \o <<6, 13, 1, 1>>, 1..5,
          {c.local \o <<c.lport>> \o c.remote \o <<c.rport>> : c \in parse_tcp_conns(m)})

udp_scalar_cells == Scalars(mib2 \o <<7>>, 1..4)
parse_udp_entries(m) == ToSet(well_formed(m.udp))
udp_entry_cells(m) ==
    TableCells(mib2 \o <<7, 5, 1, 1>>, {1, 2}, {e.local \o <<e.lport>> : e \in parse_udp_entries(m)})

ip_scalar_cells == Scalars(mib2 \o <<4>>, 1..19)

(* An ARP entry without a hardware address is incomplete and skipped.       *)
parse_arp_entries(m) ==
    LET kept == SelectSeq(m.arp, LAMBDA l : l.ok /\ l.mac # 0)
    IN  {<<device_index(kept, l.device)>> \o l.address : l \in ToSet(kept)}
ip_net_to_media_cells(m) == TableCells(mib2 \o <<4, 22, 1, 1>>, 1..4, parse_arp_entries(m))
at_cells(m) == TableCells(mib2 \o <<3, 1, 1, 1>>, 1..3, parse_arp_entries(m))

icmp_scalar_cells == Scalars(mib2 \o <<5>>, 1..26)

(* Two routes to one destination share their cells: the later line is shown.*)
parse_route_entries(m) == ToSet(well_formed(m.routes))
route_cells(m) ==
    TableCells(mib2 \o <<4, 21, 1, 1>>, (1..9) \cup {11}, {r.dest : r \in parse_route_entries(m)})

snmp_mib_cells == Scalars(mib2 \o <<11>>, 1..31)
set_serial_cells == Scalars(snmpModules \o <<1, 1, 6>>, {1})

----------------------------------------------------------------------------
(* The engine's own objects. *)

snmp_engine_cells(c) == Scalars(snmpModules \o <<10, 2, 1>>, {c})
usm_stats_cells == Scalars(snmpModules \o <<15, 1, 1>>, 1..6)
snmp_mpd_cells == Scalars(snmpModules \o <<11, 2, 1>>, {1, 2})

NETSNMP == enterprises \o <<8072, 1>>

ns_cache_cells(m) ==
    Scalars(NETSNMP \o <<6>>, {1})
        \cup TableCells(NETSNMP \o <<6, 2, 1>>, {2, 3}, {string_index(n) : n \in m.caches})
ns_debug_cells(c) == Scalars(NETSNMP \o <<3>>, {c})
ns_logging_cells == Scalars(NETSNMP \o <<7>>, {1})

(* One row for each handler in the list that was passed in.                 *)
ns_module_cells(m) == TableCells(NETSNMP \o <<5, 1>>, {1, 2}, Numbered(m.modules))
ns_transaction_cells == {}
ns_vacm_access_cells == {}
netsnmp_system_cells == Scalars(NETSNMP \o <<0>>, {1})

VACM == snmpModules \o <<16, 1>>

context_cells(m) == TableCells(VACM \o <<1>>, {1}, {string_index(c) : c \in m.contexts})
s2g_cells(m) ==
    TableCells(VACM \o <<2, 1>>, {3, 4, 5}, {<<g.model>> \o string_index(g.name) : g \in m.groups})
access_cells(m) ==
    TableCells(VACM \o <<4, 1>>, 4..9,
          {string_index(a.group) \o string_index(a.prefix) \o <<a.model, a.level>> : a \in m.access})
view_cells(m) ==
    TableCells(VACM \o <<5, 2, 1>>, 3..6, {string_index(v.name) \o oid_index(v.subtree) : v \in m.views})

target_addr_cells(m) ==
    TableCells(snmpModules \o <<12, 1, 2, 1>>, 2..9, {string_index(n) : n \in m.targets})
target_params_cells(m) ==
    TableCells(snmpModules \o <<12, 1, 3, 1>>, 2..7, {string_index(n) : n \in m.params})
notify_cells(m) ==
    TableCells(snmpModules \o <<13, 1, 1, 1>>, 2..5, {string_index(n) : n \in m.notifies})

----------------------------------------------------------------------------
(* SMUX, protocol modules, the notification log and DISMAN. *)

smux_mib_cells(m) ==
    Scalars(mib2 \o <<20>>, {1})
        \cup TableCells(mib2 \o <<20, 3, 1, 1>>, {1, 2, 5}, Numbered(m.smux))

(* Rows keep the number of their line in /proc/net/dev.                     *)
dot3_stats_cells(m) ==
    TableCells(mib2 \o <<10, 7, 2, 1, 1>>, {1, 3, 7, 10, 11, 13, 16, 17},
          {<<i>> : i \in {j \in DOMAIN m.netdev : m.netdev[j] = "ethernet"}})
sctp_scalar_cells == Scalars(mib2 \o <<105>>, {1, 2, 3, 4, 7, 9, 10})
bridge_cells == {}
rmon_cells == {}
tunnel_cells == {}
mta_cells == {}

nlm_log_cells(m) ==
    TableCells(mib2 \o <<92, 1, 3, 1, 1>>, 2..9, {<<i>> : i \in m.logged})

(* DISMAN rows are indexed by owner and name with a zero between them, and  *)
(* no lengths.                                                              *)
owner_index(k) == k.owner \o <<0>> \o k.name

trigger_cells(m) ==
    TableCells(mib2 \o <<88, 1, 2, 2, 1>>, {2, 4, 5, 8, 9, 14, 18, 19, 23, 24},
          {owner_index(k) : k \in m.triggers})
event_cells(m) ==
    TableCells(mib2 \o <<88, 1, 4, 2, 1>>, {2, 4, 5, 8, 10, 11, 12}, {owner_index(k) : k \in m.events})
objects_cells(m) ==
    TableCells(mib2 \o <<88, 1, 3, 2, 1>>, {4, 5, 6},
          {owner_index(k) \o <<0, k.id>> : k \in m.objects})
sched_cells(m) ==
    TableCells(mib2 \o <<63, 1, 2, 1, 1>>, {2, 3, 4, 13, 16, 19, 20, 21},
          {owner_index(k) : k \in m.schedules})
============================================================================
