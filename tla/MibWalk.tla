------------------------------ MODULE MibWalk ------------------------------
(***************************************************************************)
(* The registration of the MIB modules (agent/mibgroup/mod.rs) and a walk   *)
(* of the tree they make (agent/registry.rs): which of the cells a manager  *)
(* who steps through the agent with GETNEXT gets to see. ReadDispatch has   *)
(* the same dispatch with handlers that change under the walk; here the     *)
(* handlers are the program's own, with their real roots.                   *)
(***************************************************************************)
EXTENDS MibTables

CONSTANTS
    Machines,   \* machines the agent may run on
    Plans       \* sequences of register_* functions a program may call

VARIABLES
    machine,
    todo,       \* register_* functions still to be called
    pending,    \* handlers that the current one has still to register
    handlers,   \* the registry: [root, cells], cells in the order of their OIDs
    cursor      \* the last OID the walk was given

walkVars == <<machine, todo, pending, handlers, cursor>>

FnHandler(root, cells) == [root |-> root, cells |-> InOrder(cells)]

(* FnHandler::scalar and ScalarHandler: the instance is the root's child 0. *)
ScalarAt(cells) ==
    LET instance == CHOOSE c \in cells : TRUE
    IN  FnHandler(Front(instance), cells)

----------------------------------------------------------------------------
(* The groups of handlers. *)

register_system_mibs(m) ==
    LET snap == host_snapshot(m)
    IN  [c \in 1..7 |-> ScalarAt(system_cells(c))]
        \o << ScalarAt(if_number_cells),
              FnHandler(mib2 \o <<2, 2>>, interface_cells(snap)),
              FnHandler(mib2 \o <<31>>, if_xtable_cells(snap)),
              FnHandler(HOST \o <<1>>, hr_system_cells),
              FnHandler(HOST \o <<2>>, hr_storage_cells(snap)),
              FnHandler(HOST \o <<3>>, hr_device_cells(snap)),
              FnHandler(HOST \o <<4>>, hr_swrun_cells(snap)),
              FnHandler(HOST \o <<5>>, hr_swrun_perf_cells(snap)),
              FnHandler(UCD, ucd_cells(m, FALSE)) >>

(* The UCD handler with its optional groups, which a program registers      *)
(* itself.                                                                  *)
ucd_handler_with(m) == << FnHandler(UCD, ucd_cells(m, TRUE)) >>

register_ucd_mibs(m) == << FnHandler(NS_EXTEND_OUTPUT1, extend_cells(m)) >>

register_host_mibs(m) ==
    LET snap == host_snapshot(m)
    IN  << FnHandler(HOST \o <<3, 5>>, hr_printer_cells),
           FnHandler(HOST \o <<3, 6>>, hr_disk_storage_cells(m)),
           FnHandler(HOST \o <<3, 7>>, hr_partition_cells(m)),
           FnHandler(HOST \o <<3, 4>>, hr_network_cells(snap)),
           FnHandler(HOST \o <<4>>, hr_swrun_cells(snap)),
           FnHandler(HOST \o <<6, 3>>, hr_sw_installed_cells),
           FnHandler(UCD \o <<13>>, lm_sensors_cells(m)) >>

register_framework_mibs(m) ==
    [c \in 1..4 |-> ScalarAt(snmp_engine_cells(c))]
    \o << FnHandler(snmpModules \o <<15, 1, 1>>, usm_stats_cells),
          FnHandler(snmpModules \o <<11, 2, 1>>, snmp_mpd_cells),
          FnHandler(mib2 \o <<1, 9, 1>>, sysor_cells(m)) >>

register_mib2_mibs(m) ==
    << FnHandler(mib2 \o <<6>>, tcp_scalar_cells \cup tcp_conn_cells(m)),
       FnHandler(mib2 \o <<7>>, udp_scalar_cells \cup udp_entry_cells(m)),
       FnHandler(mib2 \o <<4>>, ip_scalar_cells \cup ip_net_to_media_cells(m)),
       FnHandler(mib2 \o <<5>>, icmp_scalar_cells),
       FnHandler(mib2 \o <<3, 1>>, at_cells(m)),
       FnHandler(mib2 \o <<4, 21, 1>>, route_cells(m)),
       FnHandler(mib2 \o <<11>>, snmp_mib_cells),
       ScalarAt(set_serial_cells) >>

register_netsnmp_mibs(m) ==
    << FnHandler(NETSNMP \o <<6>>, ns_cache_cells(m)),
       ScalarAt(ns_debug_cells(1)), ScalarAt(ns_debug_cells(2)),
       FnHandler(NETSNMP \o <<3, 4, 1>>, {}),
       ScalarAt(ns_logging_cells),
       FnHandler(NETSNMP \o <<7, 2, 1>>, {}),
       FnHandler(NETSNMP \o <<5, 1>>, ns_module_cells(m)),
       FnHandler(NETSNMP \o <<8, 1>>, ns_transaction_cells),
       FnHandler(NETSNMP \o <<9, 1>>, ns_vacm_access_cells),
       ScalarAt(netsnmp_system_cells) >>

register_protocol_misc_mibs(m) ==
    << FnHandler(mib2 \o <<10, 7, 2>>, dot3_stats_cells(m)),
       FnHandler(mib2 \o <<17, 1, 4>>, bridge_cells), FnHandler(mib2 \o <<17, 4, 3>>, bridge_cells),
       FnHandler(mib2 \o <<105>>, sctp_scalar_cells), FnHandler(mib2 \o <<105, 3, 1>>, {}),
       FnHandler(mib2 \o <<10, 131, 1, 1>>, tunnel_cells),
       FnHandler(mib2 \o <<16, 3, 1>>, rmon_cells), FnHandler(mib2 \o <<16, 9, 1>>, rmon_cells),
       FnHandler(mib2 \o <<28, 1, 1>>, mta_cells) >>

register_smux_mibs(m) == << FnHandler(mib2 \o <<20>>, smux_mib_cells(m)) >>

register_vacm_mibs(m) ==
    << FnHandler(VACM \o <<1>>, context_cells(m)), FnHandler(VACM \o <<2, 1>>, s2g_cells(m)),
       FnHandler(VACM \o <<4, 1>>, access_cells(m)), FnHandler(VACM \o <<5, 2, 1>>, view_cells(m)) >>

register_notify_mibs(m) ==
    << FnHandler(snmpModules \o <<12, 1, 2, 1>>, target_addr_cells(m)),
       FnHandler(snmpModules \o <<12, 1, 3, 1>>, target_params_cells(m)),
       FnHandler(snmpModules \o <<13, 1, 1, 1>>, notify_cells(m)) >>

register_notiflog_mibs(m) == << FnHandler(mib2 \o <<92, 1, 3, 1, 1>>, nlm_log_cells(m)) >>

(* TriggerTableHandler, EventTableHandler, ObjectsTableHandler and          *)
(* SchedTableHandler are rooted at their entries.                           *)
disman_handlers(m) ==
    << FnHandler(mib2 \o <<88, 1, 2, 2, 1>>, trigger_cells(m)),
       FnHandler(mib2 \o <<88, 1, 4, 2, 1>>, event_cells(m)),
       FnHandler(mib2 \o <<88, 1, 3, 2, 1>>, objects_cells(m)),
       FnHandler(mib2 \o <<63, 1, 2, 1, 1>>, sched_cells(m)) >>

Group(name, m) ==
    CASE name = "system" -> register_system_mibs(m)
      [] name = "ucd_with" -> ucd_handler_with(m)
      [] name = "ucd" -> register_ucd_mibs(m)
      [] name = "host" -> register_host_mibs(m)
      [] name = "framework" -> register_framework_mibs(m)
      [] name = "mib2" -> register_mib2_mibs(m)
      [] name = "netsnmp" -> register_netsnmp_mibs(m)
      [] name = "misc" -> register_protocol_misc_mibs(m)
      [] name = "smux" -> register_smux_mibs(m)
      [] name = "vacm" -> register_vacm_mibs(m)
      [] name = "notify" -> register_notify_mibs(m)
      [] name = "notiflog" -> register_notiflog_mibs(m)
      [] name = "disman" -> disman_handlers(m)

PlanHandlers(m, plan) == UNION {ToSet(Group(name, m)) : name \in ToSet(plan)}

(* A handler's cells are OIDs below its root, and a handler below another   *)
(* (or in its place) serves whatever cell of the other lies below itself.   *)
BelowRoot(h) ==
    /\ h.root \in Oids /\ IsFiniteSet(ToSet(h.cells)) /\ h = FnHandler(h.root, ToSet(h.cells))
    /\ \A c \in ToSet(h.cells) : c \in Oids /\ IsPrefix(h.root, c)

Covers(h, other) ==
    IsPrefix(other.root, h.root) =>
      \A c \in ToSet(other.cells) : IsPrefix(h.root, c) => c \in ToSet(h.cells)

ASSUME WalkAssumption ==
    \A m \in Machines, plan \in Plans :
      LET all == PlanHandlers(m, plan)
      IN  /\ plan \in Seq(ToSet(plan))
          /\ \A name \in ToSet(plan) : Group(name, m) \in Seq(all)
          /\ \A h \in all : BelowRoot(h) /\ \A other \in all : Covers(h, other)

----------------------------------------------------------------------------
(* The registry. *)

RegisterLast(registry, handler) == Append(registry, handler)

(* `register` pushes the handler and sorts by root; the sort is stable, so  *)
(* the handler comes after those whose root is not greater.                 *)
Register(registry, handler) ==
    LET before == Cardinality({i \in DOMAIN registry : OidLeq(registry[i].root, handler.root)})
    IN  InsertAt(registry, before + 1, handler)

(* Longest matching root wins, among equal ones the last.                   *)
handler_for(oid) ==
    LET matching == {i \in DOMAIN handlers : IsPrefix(handlers[i].root, oid)}
    IN  CHOOSE i \in matching : \A j \in matching :
          \/ Len(handlers[j].root) < Len(handlers[i].root)
          \/ Len(handlers[j].root) = Len(handlers[i].root) /\ j <= i

(* `partition_point`: the place of the first cell after the OID.            *)
Successor(cells, oid) ==
    LET i == Cardinality({j \in DOMAIN cells : OidLeq(cells[j], oid)}) + 1
    IN  IF i <= Len(cells) THEN <<cells[i]>> ELSE <<>>

EndOfMib == <<>>

(* The first handler that has a successor answers.                          *)
DoGetNext(oid) ==
    LET able == {i \in DOMAIN handlers : Successor(handlers[i].cells, oid) # <<>>}
    IN  IF able = {} THEN EndOfMib
        ELSE LET first == CHOOSE i \in able : \A j \in able : i <= j
             IN  Successor(handlers[first].cells, oid)[1]

----------------------------------------------------------------------------
WalkInit ==
    /\ machine \in Machines /\ todo \in Plans
    /\ pending = <<>> /\ handlers = <<>> /\ cursor = <<>>

RegisterGroup ==
    /\ pending = <<>> /\ todo # <<>>
    /\ pending' = Group(Head(todo), machine)
    /\ todo' = Tail(todo)
    /\ UNCHANGED <<machine, handlers, cursor>>

RegisterHandler ==
    /\ pending # <<>>
    /\ handlers' = Register(handlers, Head(pending))
    /\ pending' = Tail(pending)
    /\ UNCHANGED <<machine, todo, cursor>>

(* A GETNEXT of the walk; after the end of the MIB the manager starts over. *)
WalkOn ==
    /\ todo = <<>> /\ pending = <<>>
    /\ cursor' = DoGetNext(cursor)
    /\ UNCHANGED <<machine, todo, pending, handlers>>

WalkNext == RegisterGroup \/ RegisterHandler \/ WalkOn
WalkSpec == WalkInit /\ [][WalkNext]_walkVars

----------------------------------------------------------------------------
AllCells == UNION {ToSet(handlers[h].cells) : h \in DOMAIN handlers}

(* The cells that a step of the walk passes over. *)
Skipped ==
    {c \in AllCells : /\ OidLess(cursor, c)
                      /\ cursor' # EndOfMib => OidLess(c, cursor')}

(* A cell that a handler holds inside the subtree of another one, before a  *)
(* cell of that other one.                                                  *)
Shadowed(c, at) ==
    \E h \in DOMAIN handlers :
      /\ IsPrefix(handlers[h].root, c) /\ c \notin ToSet(handlers[h].cells)
      /\ at \in ToSet(handlers[h].cells)

(* "GETNEXT can walk subtrees in lexicographic order" (registry.rs,         *)
(* register): a walk never goes back, it gives only OIDs that GET also      *)
(* finds (the handler that handler_for picks for one is one that holds it), *)
(* and it passes over a cell only when the cell's handler is nested in the  *)
(* subtree of the handler that answers.                                     *)
OnlyNestedSkipped ==
    [][WalkOn => /\ cursor' # EndOfMib =>
                      /\ OidLess(cursor, cursor')
                      /\ cursor' \in ToSet(handlers[handler_for(cursor')].cells)
                 /\ \A c \in Skipped : cursor' # EndOfMib /\ Shadowed(c, cursor')]_walkVars

(* The same without the exception: every cell of every registered table is  *)
(* met by the walk.                                                         *)
WalkIsComplete == [][WalkOn => Skipped = {}]_walkVars
============================================================================
