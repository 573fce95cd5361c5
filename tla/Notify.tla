-------------------------------- MODULE Notify --------------------------------
(***************************************************************************)
(* Notifications from end to end: the originator                           *)
(* (netsnmp-agent/src/notify/mod.rs) with its three configuration tables,  *)
(* which another thread may extend while senders fan a notification out to *)
(* the targets, and the trap receiver (netsnmp-agent/src/trap/) with its   *)
(* log, its forwarding sink and its acknowledgements of informs.           *)
(***************************************************************************)
EXTENDS Naturals, Integers, Sequences, FiniteSets, SequencesExt

CONSTANTS
    Senders,     \* threads that call NotificationOriginator::send
    Config,      \* directives of snmpd.conf, a sequence
    Extra,       \* directives whose rows are added while the agent runs
    Traps,       \* identities of the notifications sent
    Hosts,       \* trap receivers
    Community,   \* the community the receivers accept
    Users,       \* the USM users the receivers know
    Forward,     \* where each receiver's forwarding sink sends, or "none"
    Strays,      \* datagrams of other programs
    Attempts,    \* retries + 1
    Cap,         \* capacity of the notification log
    IndexSpace,  \* 2^32 in the code: nlmLogIndex wraps there
    MaxSends,    \* bound: sends of each thread
    MaxClock     \* bound on the agent's uptime

ASSUME NotifyAssumption ==
    /\ Attempts \in Nat \ {0} /\ Cap \in Nat \ {0} /\ IndexSpace \in Nat /\ Cap < IndexSpace
    /\ MaxSends \in Nat /\ MaxClock \in Nat
    /\ Forward \in [Hosts -> Hosts \cup {"none"}]
    /\ Config \in Seq(Range(Config))
    /\ \A m \in Strays : m.id \notin Senders \X Nat \X Nat  \* their answers go elsewhere

VARIABLES
    table,   \* NotifyConfig: params, targets and notifies, each under its own lock
    adding,  \* the rows of the directive being added, and how many of them were
    send,    \* the call of send of each sender
    net,     \* datagrams under way
    acks,    \* acknowledgements under way, by the inform they answer
    log,     \* NotificationLog of each receiver
    clock,   \* time since the agent's boot
    seen,    \* history: what each receiver surfaced, oldest first
    oks      \* history: informs whose send_inform returned Ok

vars == <<table, adding, send, net, acks, log, clock, seen, oks>>

---------------------------------------------------------------------------
(* Notification PDUs: the variable bindings, as typed values.              *)

Ticks(n) == [type |-> "ticks", val |-> <<n>>]
OidVal(o) == [type |-> "oid", val |-> o]
Payload == [type |-> "string", val |-> <<>>]

build_notification(uptime, trap, varbinds) == <<Ticks(uptime), OidVal(trap)>> \o varbinds

\* parse_notification answers an error for anything else.
WellFormed(vb) == Len(vb) >= 2 /\ vb[1].type = "ticks" /\ vb[2].type = "oid"

parse_notification(vb) ==
    [uptime |-> vb[1].val[1], trap |-> vb[2].val, varbinds |-> SubSeq(vb, 3, Len(vb))]

\* 1.3.6.1.6.3.1.1.5, cut down to one arc.
SnmpTraps == <<5>>

\* A trapsink gets a v1 Trap-PDU, always enterpriseSpecific: enterprise snmpTraps
\* and the last arc.  The receiver maps those back onto enterprise.0.specific.
V1Trap(uptime, trap, varbinds) == [specific |-> Last(trap), uptime |-> uptime, varbinds |-> varbinds]

V1Received(v1) ==
    [uptime |-> v1.uptime, trap |-> SnmpTraps \o <<0, v1.specific>>, varbinds |-> v1.varbinds]

---------------------------------------------------------------------------
(* The configuration tables.                                               *)

Empty == [params |-> <<>>, targets |-> <<>>, notifies |-> <<>>]

\* A directive without HOST, or a v3 trapsess without user, is skipped.
Accepted(d) == d.host # "none" /\ (d.token = "trapsess3" => d.name # "none")

MpModel(d) == CASE d.token = "trapsink" -> 0 [] d.token = "trapsess3" -> 3 [] OTHER -> 1

RowName(d, t) == <<IF d.token \in {"trapsess2", "trapsess3"} THEN "sess" ELSE "sink", Len(t.targets) + 1>>

\* apply_community_sink and apply_trapsess: one row of each table, all of one name.
Rows(d, t) ==
    LET name == RowName(d, t)
    IN  [params   |-> [name |-> name, mp |-> MpModel(d), security |-> d.name],
         targets  |-> [name |-> name, address |-> d.host],
         notifies |-> [name |-> name, tag |-> name, params |-> name,
                       type |-> IF d.token = "informsink" THEN "inform" ELSE "trap"]]

AddRow(t, rows, k) == [t EXCEPT ![k] = Append(@, rows[k])]

\* Mutant: the notify row comes first.
RowOrderNotifyFirst == <<"notifies", "params", "targets">>

\* The tables in the order a directive fills them.
RowOrder == <<"params", "targets", "notifies">>

\* Nobody reads the tables yet, so that the order does not show.
ApplyDirective(t, d) ==
    LET rows == Rows(d, t)
    IN  IF Accepted(d) THEN [k \in DOMAIN t |-> Append(t[k], rows[k])] ELSE t

from_config_directives(ds) == FoldLeft(ApplyDirective, Empty, ds)

Idle == [todo |-> Extra, rows |-> <<>>, at |-> 0]

BeginAdd ==
    /\ adding.at = 0 /\ adding.todo # <<>>
    /\ LET d == Head(adding.todo)
       IN  adding' = IF Accepted(d) THEN [todo |-> Tail(adding.todo), rows |-> <<Rows(d, table)>>, at |-> 1]
                                    ELSE [adding EXCEPT !.todo = Tail(@)]
    /\ UNCHANGED <<table, send, net, acks, log, clock, seen, oks>>

AddNextRow ==
    /\ adding.at > 0
    /\ table' = AddRow(table, adding.rows[1], RowOrder[adding.at])
    /\ adding' = IF adding.at < Len(RowOrder) THEN [adding EXCEPT !.at = @ + 1]
                                              ELSE [adding EXCEPT !.at = 0, !.rows = <<>>]
    /\ UNCHANGED <<send, net, acks, log, clock, seen, oks>>

---------------------------------------------------------------------------
(* NotificationOriginator::send.                                           *)

NoSend == [pc |-> "done", n |-> 0, trap |-> <<>>, uptime |-> 0, copy |-> Empty, row |-> 1,
           attempt |-> 0, due |-> <<>>, tried |-> <<>>]

Start(s, trap) ==
    /\ send[s].pc = "done" /\ send[s].n < MaxSends
    /\ send' = [send EXCEPT ![s] =
         [NoSend EXCEPT !.pc = IF table.targets = <<>> THEN "done" ELSE "notifies",
                        !.n = send[s].n + 1, !.trap = trap, !.uptime = clock,
                        !.due = table.notifies]]
    /\ UNCHANGED <<table, adding, net, acks, log, clock, seen, oks>>

\* The tables are copied one after the other.
AfterCopy == [notifies |-> "params", params |-> "targets", targets |-> "fan"]

CopyTable(s) ==
    /\ send[s].pc \in DOMAIN AfterCopy
    /\ send' = [send EXCEPT ![s].copy[send[s].pc] = table[send[s].pc],
                            ![s].pc = AfterCopy[send[s].pc]]
    /\ UNCHANGED <<table, adding, net, acks, log, clock, seen, oks>>

\* find: the first row of that name, if there is one.
Named(rows, name) ==
    LET at == {i \in DOMAIN rows : rows[i].name = name}
    IN  IF at = {} THEN <<>> ELSE <<rows[Min(at)]>>

TargetOf(c, n) == Named(c.targets, n.tag)
ParamsOf(c, n) == Named(c.params, n.params)

NextRow(c) == [c EXCEPT !.pc = "fan", !.row = @ + 1, !.attempt = 0]

\* Mutant: the two bindings that the session adds itself are left in.
DatagramUnstripped(s, n, t, p, attempt) ==
    LET c == send[s]
    IN  [id |-> <<s, c.n, c.row>>, attempt |-> attempt, to |-> t.address, mp |-> 1, security |-> p.security,
         type |-> n.type, v1 |-> <<>>,
         varbinds |-> build_notification(c.uptime, c.trap, build_notification(c.uptime, c.trap, <<Payload>>))]

\* What send_to_target hands to the session.  The v3 session puts the two leading
\* bindings in front of the list it is given, and here nothing strips the list.
Datagram(s, n, t, p, attempt) ==
    LET c == send[s]
        full == build_notification(c.uptime, c.trap, <<Payload>>)
        extra == SubSeq(full, 3, Len(full))
    IN  [id |-> <<s, c.n, c.row>>, attempt |-> attempt, to |-> t.address, mp |-> p.mp, security |-> p.security, type |-> n.type,
         v1 |-> IF p.mp = 0 THEN <<V1Trap(c.uptime, c.trap, extra)>> ELSE <<>>,
         varbinds |-> CASE p.mp = 0 -> <<>>
                        [] p.mp = 1 -> build_notification(full[1].val[1], c.trap, extra)
                        [] p.mp = 3 -> build_notification(0, c.trap, full)]

\* One turn of the loop.  An address that does not resolve fails the session's
\* open; the error is logged and the loop goes on.
FanOut(s) ==
    LET c == send[s]
    IN  /\ c.pc = "fan" /\ c.row <= Len(c.copy.notifies)
        /\ LET n == c.copy.notifies[c.row]
               t == TargetOf(c.copy, n)
               p == ParamsOf(c.copy, n)
               tried == [c EXCEPT !.tried = Append(@, n.name)]
           IN  \/ /\ t = <<>> \/ p = <<>>
                  /\ send' = [send EXCEPT ![s] = NextRow(c)]
                  /\ net' = net
               \/ /\ t # <<>> /\ p # <<>> /\ t[1].address \notin Hosts
                  /\ send' = [send EXCEPT ![s] = NextRow(tried)]
                  /\ net' = net
               \/ /\ t # <<>> /\ p # <<>> /\ t[1].address \in Hosts
                  /\ net' = net \cup {Datagram(s, n, t[1], p[1], 1)}
                  /\ send' = [send EXCEPT ![s] = IF n.type = "trap" THEN NextRow(tried)
                                                 ELSE [tried EXCEPT !.pc = "wait", !.attempt = 1]]
        /\ UNCHANGED <<table, adding, acks, log, clock, seen, oks>>

Pending(s) == <<s, send[s].n, send[s].row>>

Acknowledged(s) ==
    /\ send[s].pc = "wait" /\ Pending(s) \in acks
    /\ acks' = acks \ {Pending(s)}
    /\ oks' = oks \cup {[host |-> TargetOf(send[s].copy, send[s].copy.notifies[send[s].row])[1].address,
                         note |-> [uptime |-> send[s].uptime, trap |-> send[s].trap, varbinds |-> <<Payload>>]]}
    /\ send' = [send EXCEPT ![s] = NextRow(@)]
    /\ UNCHANGED <<table, adding, net, log, clock, seen>>

\* Mutant: an inform is repeated for ever.
TimeoutForever(s) ==
    LET c == send[s]
        n == c.copy.notifies[c.row]
    IN  /\ c.pc = "wait"
        /\ net' = net \cup {Datagram(s, n, TargetOf(c.copy, n)[1], ParamsOf(c.copy, n)[1], 1)}
        /\ UNCHANGED <<table, adding, send, acks, log, clock, seen, oks>>

\* send_inform repeats the same message until its attempts are used up.
Timeout(s) ==
    LET c == send[s]
        n == c.copy.notifies[c.row]
    IN  /\ c.pc = "wait"
        /\ IF c.attempt < Attempts
           THEN /\ send' = [send EXCEPT ![s].attempt = @ + 1]
                /\ net' = net \cup {Datagram(s, n, TargetOf(c.copy, n)[1], ParamsOf(c.copy, n)[1], c.attempt + 1)}
           ELSE /\ send' = [send EXCEPT ![s] = NextRow(@)]
                /\ net' = net
        /\ UNCHANGED <<table, adding, acks, log, clock, seen, oks>>

\* receive reports an error, or the next attempt's send does: the inform ends at once,
\* whatever attempts are left.
InformFails(s) ==
    /\ send[s].pc = "wait"
    /\ send' = [send EXCEPT ![s] = NextRow(@)]
    /\ UNCHANGED <<table, adding, net, acks, log, clock, seen, oks>>

Return(s) ==
    /\ send[s].pc = "fan" /\ send[s].row > Len(send[s].copy.notifies)
    /\ send' = [send EXCEPT ![s].pc = "done"]
    /\ UNCHANGED <<table, adding, net, acks, log, clock, seen, oks>>

---------------------------------------------------------------------------
(* TrapReceiver::serve_on.                                                 *)

NextIndex(entries) == IF entries = <<>> THEN 1 ELSE (Last(entries).index + 1) % IndexSpace

\* Mutant: the oldest entry is only dropped once the log is over its capacity.
RecordTooMany(entries, trap) ==
    LET kept == IF Len(entries) > Cap THEN Tail(entries) ELSE entries
    IN  Append(kept, [index |-> NextIndex(entries), trap |-> trap])

\* NotificationLog::record.
Record(entries, trap) ==
    LET kept == IF Len(entries) >= Cap THEN Tail(entries) ELSE entries
    IN  Append(kept, [index |-> NextIndex(entries), trap |-> trap])

\* handle_datagram: the notification to surface, if the datagram holds one.
Surfaced(m) ==
    IF m.mp = 3
    THEN IF m.security \in Users /\ WellFormed(m.varbinds) THEN <<parse_notification(m.varbinds)>> ELSE <<>>
    ELSE CASE m.security # Community -> <<>>
           [] m.security = Community /\ m.v1 # <<>> -> <<V1Received(m.v1[1])>>
           [] OTHER -> IF m.type \in {"trap", "inform"} /\ WellFormed(m.varbinds)
                       THEN <<parse_notification(m.varbinds)>> ELSE <<>>

\* The forwarding sink sends what it is given as a v2c trap.
Forwarded(m, note) ==
    IF Forward[m.to] = "none" THEN {}
    ELSE {[id |-> Append(m.id, m.to), attempt |-> m.attempt, to |-> Forward[m.to], mp |-> 1, security |-> Community,
           type |-> "trap", v1 |-> <<>>, varbinds |-> build_notification(note.uptime, note.trap, note.varbinds)]}

\* The log comes first, then the sinks, the callback and the reply; an error of
\* a sink or of the reply's send is ignored.
Deliver(m) ==
    /\ LET notes == Surfaced(m)
       IN  IF notes = <<>>
           THEN /\ net' = net \ {m}
                /\ UNCHANGED <<log, seen, acks>>
           ELSE /\ log' = [log EXCEPT ![m.to] = Record(@, notes[1].trap)]
                /\ seen' = [seen EXCEPT ![m.to] = Append(@, notes[1])]
                /\ net' = (net \ {m}) \cup Forwarded(m, notes[1])
                /\ acks' = IF m.type = "inform" /\ m.mp = 1 THEN acks \cup {m.id} ELSE acks
    /\ UNCHANGED <<table, adding, send, clock, oks>>

---------------------------------------------------------------------------
(* The network and time.                                                   *)

Lose(m) ==
    /\ net' = net \ {m}
    /\ UNCHANGED <<table, adding, send, acks, log, clock, seen, oks>>

LoseAck(a) ==
    /\ acks' = acks \ {a}
    /\ UNCHANGED <<table, adding, send, net, log, clock, seen, oks>>

Tick ==
    /\ clock < MaxClock
    /\ clock' = clock + 1
    /\ UNCHANGED <<table, adding, send, net, acks, log, seen, oks>>

Init ==
    /\ table = from_config_directives(Config)
    /\ adding = Idle
    /\ send = [s \in Senders |-> NoSend]
    /\ net = Strays
    /\ acks = {} /\ oks = {}
    /\ log = [h \in Hosts |-> <<>>] /\ seen = [h \in Hosts |-> <<>>]
    /\ clock = 0

SenderStep(s) ==
    \/ CopyTable(s)
    \/ FanOut(s)
    \/ Acknowledged(s)
    \/ Timeout(s)
    \/ Return(s)

Next ==
    \/ BeginAdd \/ AddNextRow
    \/ \E s \in Senders : SenderStep(s) \/ InformFails(s) \/ \E t \in Traps : Start(s, t)
    \/ \E m \in net : Deliver(m) \/ Lose(m)
    \/ \E a \in acks : LoseAck(a)
    \/ Tick

\* A thread that can go on does, and the timer of an inform fires: tokio drives
\* every ready task.
Fairness == \A s \in Senders : WF_vars(SenderStep(s))

Spec == Init /\ [][Next]_vars /\ Fairness

---------------------------------------------------------------------------
(* Properties.                                                             *)

Names(rows) == [i \in DOMAIN rows |-> rows[i].name]

\* A send that has returned tried every target whose rows were complete when it
\* began, in order and once each, and every notify row it copied: neither rows
\* added meanwhile, nor an address that cannot be reached, nor an inform nobody
\* answers makes it skip one ("one dead target must not stop the others",
\* notify/mod.rs).
FanOutComplete ==
    \A s \in Senders : send[s].pc = "done" =>
      /\ send[s].tried = Names(send[s].copy.notifies)
      /\ IsPrefix(Names(send[s].due), send[s].tried)

\* An inform counts as delivered only after its receiver surfaced it, with the
\* uptime, identity and bindings that were sent, whatever was lost or repeated
\* (send_to_target and handle_community).
InformOkWasSurfaced == \A k \in oks : \E i \in DOMAIN seen[k.host] : seen[k.host][i] = k.note

\* nlmLogTable always shows the most recent notifications, as many as fit, oldest
\* first (NotificationLog::record).  The index of a row is its arrival number, modulo
\* the width of the index: wrapping_add goes on with 0, so from there on indices are
\* neither 1-based nor monotonic (IndexFromOne), but no two rows have the same.
LogIsRecent ==
    \A h \in Hosts :
      LET n == Len(seen[h])
          k == IF n < Cap THEN n ELSE Cap
      IN  /\ Len(log[h]) = k
          /\ \A i \in 1 .. k : /\ log[h][i].trap = seen[h][n - k + i].trap
                               /\ log[h][i].index = (n - k + i) % IndexSpace

\* notiflog.rs, comment of record: indices are 1-based and monotonic across evictions.
IndexFromOne ==
    \A h \in Hosts : \A i \in DOMAIN log[h] :
      /\ log[h][i].index >= 1
      /\ i > 1 => log[h][i - 1].index < log[h][i].index

\* Every send returns, even if no target ever answers.
SendsReturn == \A s \in Senders : send[s].pc # "done" ~> send[s].pc = "done"
=============================================================================
