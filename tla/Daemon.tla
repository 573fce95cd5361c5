------------------------------- MODULE Daemon -------------------------------
(***************************************************************************)
(* The life of an snmpd process (netsnmp-apps/src/bin/snmpd.rs) and the    *)
(* state it keeps across restarts (netsnmp-agent/src/persist.rs): a        *)
(* writable scalar of the system group is restored before the sockets are  *)
(* served and saved by the signal handler.  The process may be killed      *)
(* between any two steps, and each serve loop may end on an I/O error.     *)
(***************************************************************************)
EXTENDS Naturals, FiniteSets

CONSTANTS
    Addresses,  \* listening addresses asked for
    Texts,      \* classes of octet strings a scalar may hold, a subset of AllTexts
    Configured, \* the texts of the command line or snmpd.conf, a subset of Texts
    MaxStarts,  \* bound: starts of the process
    MaxClock    \* bound: seconds, or stretches of them

AllTexts == {"plain", "spaced", "quoted", "control", "binary"}

ASSUME DaemonAssumption ==
    /\ Addresses # {} /\ Texts \subseteq AllTexts
    /\ Configured \subseteq Texts /\ Configured # {}
    /\ MaxStarts \in Nat /\ MaxClock \in Nat

VARIABLES
    proc,       \* "down", "up", or the step of save() the signal handler is at
    scalar,     \* the value of the scalar handler
    disk, tmp,  \* snmpd.persist and snmpd.persist.tmp
    snapshot,   \* the text save() has put together
    listening,  \* addresses whose serve_on loop runs
    clock,      \* real time
    bootAt,     \* Agent.boot_time
    starts,     \* starts so far
    committed,  \* history: the value held by the last completed save
    assigned    \* history: the scalar was SET since the start

daemonVars == <<proc, scalar, disk, tmp, snapshot, listening, clock, bootAt, starts, committed, assigned>>

Absent == [tag |-> "absent", text |-> "none"]
Torn   == [tag |-> "torn", text |-> "none"]

Octets(text) == [kind |-> "OctetString", text |-> text]

\* encode_value: octets go to hex unless they are UTF-8 without control characters.
TagOf(v) ==
    CASE v.kind = "OctetString" -> IF v.text \in {"control", "binary"} THEN "x" ELSE "s"
      [] v.kind = "Opaque"      -> "x"
      [] v.kind = "Integer"     -> "i"
      [] v.kind = "Counter32"   -> "c"
      [] v.kind = "Gauge32"     -> "u"
      [] v.kind = "TimeTicks"   -> "t"
      [] v.kind = "Counter64"   -> "6"
      [] v.kind = "Oid"         -> "o"
      [] v.kind = "IpAddress"   -> "a"
      [] OTHER                  -> "n"

\* ScalarPersistable::snapshot and serialize_directive: one line, the text quoted.
Snapshot(v) == [tag |-> TagOf(v), text |-> v.text]

\* decode_value; a tag outside the table is skipped with a warning.
KindOf ==
    [tag \in {"s", "x", "i", "c", "u", "t", "6", "o", "a", "n"} |->
       CASE tag \in {"s", "x"} -> "OctetString"
         [] tag = "i" -> "Integer"
         [] tag = "c" -> "Counter32"
         [] tag = "u" -> "Gauge32"
         [] tag = "t" -> "TimeTicks"
         [] tag = "6" -> "Counter64"
         [] tag = "o" -> "Oid"
         [] tag = "a" -> "IpAddress"
         [] tag = "n" -> "Null"]

\* load() and restore: lines are split before words are read, so a control character
\* inside a quoted word ends it; a torn file has no directive for the scalar.
Restored(line, default) ==
    IF line.tag \notin DOMAIN KindOf THEN default
    ELSE [kind |-> KindOf[line.tag],
          text |-> IF line.tag = "s" /\ line.text \in {"control", "binary"} THEN "cut" ELSE line.text]

---------------------------------------------------------------------------
Up == proc # "down"

\* Agent::engine: snmpEngineBoots is the configured constant and is neither loaded
\* nor advanced by a start; the engine time is the time since it.
Boots == 1
EngineTime == clock - bootAt

\* main(): the registry, load(), then the sockets.  Addresses that cannot be bound are
\* skipped; none at all, or no inherited socket, ends the process.
Start ==
    /\ proc = "down" /\ starts < MaxStarts
    /\ starts' = starts + 1
    /\ \E c \in Configured, bound \in SUBSET Addresses :
         /\ listening' = bound
         /\ IF bound = {} THEN UNCHANGED <<proc, scalar>>
            ELSE proc' = "up" /\ scalar' = Restored(disk, Octets(c))
    /\ bootAt' = clock
    /\ assigned' = FALSE
    /\ UNCHANGED <<disk, tmp, snapshot, clock, committed>>

\* A committed SET of the scalar (handle_community or handle_v3).
Assign(v) == scalar' = v /\ assigned' = TRUE

\* The end of the process and of what it had in memory.
Exit == proc' = "down" /\ listening' = {} /\ scalar' = Octets("none") /\ snapshot' = Absent /\ assigned' = FALSE

\* serve_on returns on the first receive, encode or send error; main() returns, without
\* a save, when all loops have ended and no save is under way.
ServeFails(a) ==
    /\ Up /\ a \in listening
    /\ IF listening = {a} /\ proc = "up" THEN Exit
       ELSE listening' = listening \ {a} /\ UNCHANGED <<proc, scalar, snapshot, assigned>>
    /\ UNCHANGED <<disk, tmp, clock, bootAt, starts, committed>>

\* SIGTERM or SIGINT: the handler's task starts save().
Signal ==
    /\ proc = "up"
    /\ proc' = "create"
    /\ snapshot' = Snapshot(scalar)
    /\ UNCHANGED <<scalar, disk, tmp, listening, clock, bootAt, starts, committed, assigned>>

\* File::create truncates the temporary file.
CreateTmp ==
    /\ proc = "create"
    /\ tmp' = Torn /\ proc' = "write"
    /\ UNCHANGED <<scalar, disk, snapshot, listening, clock, bootAt, starts, committed, assigned>>

\* Seeded fault: the file is renamed before its contents have reached the disk.
WriteTmpLater ==
    /\ proc = "write"
    /\ proc' = "rename"
    /\ UNCHANGED <<scalar, disk, tmp, snapshot, listening, clock, bootAt, starts, committed, assigned>>

\* write_all and sync_all.
WriteTmp ==
    /\ proc = "write"
    /\ tmp' = snapshot /\ proc' = "rename"
    /\ UNCHANGED <<scalar, disk, snapshot, listening, clock, bootAt, starts, committed, assigned>>

\* rename, then exit(0).
Rename ==
    /\ proc = "rename"
    /\ disk' = tmp /\ tmp' = Absent
    /\ committed' = [tag |-> "saved", text |-> snapshot.text]
    /\ Exit
    /\ UNCHANGED <<clock, bootAt, starts>>

\* A failing step of save() is logged and the process exits; a kill ends
\* it anywhere, and so does a signal under --sd, where no handler is installed.
Die ==
    /\ Up
    /\ Exit
    /\ UNCHANGED <<disk, tmp, clock, bootAt, starts, committed>>

Tick ==
    /\ clock < MaxClock
    /\ clock' = clock + 1
    /\ UNCHANGED <<proc, scalar, disk, tmp, snapshot, listening, bootAt, starts, committed, assigned>>

DaemonInit ==
    /\ proc = "down"
    /\ scalar = Octets("none")
    /\ disk = Absent /\ tmp = Absent /\ snapshot = Absent
    /\ listening = {}
    /\ clock = 0 /\ bootAt = 0 /\ starts = 0
    /\ committed = Absent
    /\ assigned = FALSE

Save == CreateTmp \/ WriteTmp \/ Rename

DaemonNext ==
    \/ Start \/ Signal \/ Save \/ Die
    \/ \E a \in Addresses : ServeFails(a)

DaemonTypeOK ==
    /\ proc \in {"down", "up", "create", "write", "rename"}
    /\ listening \subseteq Addresses /\ (proc = "up" => listening # {})
    /\ bootAt \in 0..clock /\ starts \in 0..MaxStarts
    /\ {disk.tag, tmp.tag, snapshot.tag} \subseteq {"absent", "torn", "s", "x"}

(* A start serves the value of the last completed save, or the configured  *)
(* one before the first save, wherever an earlier run was killed and       *)
(* whatever the text (Persistence::save, Persistence::load).               *)
RestartServesSaved ==
    proc = "up" /\ ~assigned =>
        scalar \in IF committed = Absent THEN {Octets(c) : c \in Configured}
                   ELSE {Octets(committed.text)}
=============================================================================
