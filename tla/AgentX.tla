------------------------------- MODULE AgentX -------------------------------
(***************************************************************************)
(* The AgentX master (crates/netsnmp-agent/src/agentx/master.rs) with its  *)
(* subagents (agentx/subagent.rs).  A connection stands for one run of a   *)
(* subagent process: it connects, makes calls (register, notify, ...),     *)
(* serves forwarded requests, and may die at any point.  The master runs   *)
(* one task per connection; SNMP requests are forwarded by any number of   *)
(* concurrent callers of forward_get, forward_get_next and forward_set.    *)
(***************************************************************************)
EXTENDS Oid, Retain

CONSTANTS
    Conns,       \* connections, each the life of one subagent process
    Restarts,    \* <<c, d>>: d is c's process started again, after c has died
    Forwarders,  \* concurrent callers of forward_get / forward_get_next / forward_set
    Calls,       \* bound: the PDUs each subagent may send after Open, each once
    Asks,        \* what each of them may ask for: records of kind and oid
    Buffer,      \* PDUs the socket to a subagent holds before a write to it blocks
    MaxPackets   \* bound: packet ids used per session

RequestKinds == {"get", "getNext", "set"}

\* PDUs the master acknowledges and otherwise ignores, and PDUs it only ignores.
AckedOnly == {"ping", "notify", "addAgentCaps", "removeAgentCaps", "indexAllocate", "indexDeallocate"}
Ignored   == {"cleanup", "unexpected"}

\* What a subagent sends besides Open and Response.  `packet` is the id the call
\* always uses (2 for register, 3 for notify).
CallShapes ==
    [type : {"register"}, subtree : Oids, subid : Nat, bound : Nat, priority : Nat, packet : Nat]
    \cup [type : {"unregister"}, subtree : Oids, packet : Nat]
    \cup [type : AckedOnly \cup Ignored \cup {"close"}, packet : Nat]

ASSUME AgentXAssumption ==
    /\ \A c \in Conns : Calls[c] \subseteq CallShapes
    /\ \A f \in Forwarders : Asks[f] \subseteq [kind : RequestKinds, oid : Oids]
    /\ MaxPackets \in Nat /\ Buffer \in Nat \ {0}
    /\ Restarts \subseteq Conns \X Conns
    /\ IsFiniteSet(Conns)

VARIABLES
    subtrees,     \* AgentxMaster.subtrees: registrations in lookup order
    sessions,     \* ids in AgentxMaster.sessions
    nextSession,  \* AgentxMaster.next_session_id
    packet,       \* Session.next_packet_id
    pending,      \* Session.pending: packet ids with a waiting forwarder
    task,         \* the master's handle_connection task
    sid,          \* the session id the task assigned, 0 before
    ackOf,        \* the packet id the task still has to acknowledge
    toMaster,     \* PDUs written by the subagent, not yet read
    toSub,        \* PDUs written by the master, not yet read
    sub,          \* the subagent process
    call,         \* the call the subagent is waiting in
    todo,         \* the calls it has not made yet
    fwd,          \* the forwarders
    acked,        \* history: subtrees whose register() returned Ok
    clean         \* history: no call has read a forwarded request as its answer

master == <<subtrees, sessions, nextSession, packet, pending, task, sid, ackOf>>
agent  == <<sub, call, todo, acked, clean>>
vars   == <<master, toMaster, toSub, agent, fwd>>

NoCall == [type |-> "none"]

\* No request: what a Response that no handler produced answers.
NoAsk == [kind |-> "none", oid |-> <<>>]

Idle == [state |-> "idle", ask |-> NoAsk, sid |-> 0, packet |-> 0, reply |-> "none", of |-> NoAsk]

---------------------------------------------------------------------------
(* The registration table.                                                 *)

\* The upper bound add_registration computes; empty for an open subtree.
RangeEnd(r) ==
    CASE r.subid = 0 -> <<>>
      [] r.subid \in DOMAIN r.subtree -> [r.subtree EXCEPT ![r.subid] = r.bound]
      [] OTHER -> r.subtree

Covers(reg, oid) ==
    /\ IsPrefix(reg.subtree, oid)
    /\ reg.rangeEnd = <<>> \/ OidLeq(oid, reg.rangeEnd)

\* The keys of min_by_key, in its lexicographic order.
Preferred(a, b) ==
    \/ Len(a.subtree) < Len(b.subtree)
    \/ Len(a.subtree) = Len(b.subtree) /\ a.priority <= b.priority

\* owner_for: among the registrations covering the OID, the first minimal one;
\* 0 when there is none.
OwnerFor(oid) ==
    LET covering == {i \in DOMAIN subtrees : Covers(subtrees[i], oid)}
        best == {i \in covering :
                   \A j \in covering :
                     /\ Preferred(subtrees[i], subtrees[j])
                     /\ Preferred(subtrees[j], subtrees[i]) => i <= j}
    IN  IF best = {} THEN 0 ELSE subtrees[CHOOSE i \in best : TRUE].sid

SortsBefore(a, b) ==
    \/ OidLess(a.subtree, b.subtree)
    \/ a.subtree = b.subtree /\ a.priority < b.priority

\* The table after push and the stable sort: the new entry goes after all those it
\* does not sort before.
Inserted(reg) ==
    InsertAt(subtrees, 1 + Cardinality({i \in DOMAIN subtrees : ~SortsBefore(reg, subtrees[i])}), reg)

Registration(s, r) ==
    [subtree |-> r.subtree, rangeEnd |-> RangeEnd(r), sid |-> s, priority |-> r.priority]

\* Seeded fault: the table is skipped when its lock is contended.
TryAddRegistration(s, r) == subtrees' \in {subtrees, Inserted(Registration(s, r))}

AddRegistration(s, r) == subtrees' = Inserted(Registration(s, r))

RemoveRegistration(s, subtree) ==
    subtrees' = Retain(subtrees, {i \in DOMAIN subtrees :
                                   ~(subtrees[i].sid = s /\ subtrees[i].subtree = subtree)})

\* Seeded fault: the session goes, its registrations stay.
ForgetSession(s) ==
    /\ sessions' = sessions \ {s}
    /\ UNCHANGED subtrees

\* reclaim_session.
ReclaimSession(s) ==
    /\ subtrees' = Retain(subtrees, {i \in DOMAIN subtrees : subtrees[i].sid # s})
    /\ sessions' = sessions \ {s}

---------------------------------------------------------------------------
(* The two ends of a connection.                                           *)

\* The subagent's socket is open; only then does a write to it succeed.
SubUp(c) == sub[c] \notin {"off", "gone"}

\* A write_all to the subagent gets through: its socket has room.  A subagent that is
\* there but does not read leaves the writer waiting, with the writer lock held.
Writable(c) == SubUp(c) /\ Len(toSub[c]) < Buffer

\* The forwarders that hold the session's Arc, and with it the write half.
Holding(s) == {f \in Forwarders : fwd[f].sid = s /\ fwd[f].state \in {"write", "wait"}}

\* The master's socket closes when the task is over and no one holds the session.
MasterUp(c) ==
    \/ task[c] # "ended"
    \/ sid[c] # 0 /\ (sid[c] \in sessions \/ Holding(sid[c]) # {})

ConnOf(s) == CHOOSE c \in Conns : sid[c] = s

Ack(id) == [type |-> "response", packet |-> id]

\* The subagent's end of the connection closes; what it has not read is discarded,
\* what it has written can still be read.
SubGone(c) ==
    /\ sub' = [sub EXCEPT ![c] = "gone"]
    /\ toSub' = [toSub EXCEPT ![c] = <<>>]
    /\ call' = [call EXCEPT ![c] = NoCall]
    /\ todo' = [todo EXCEPT ![c] = {}]
    /\ acked' = [acked EXCEPT ![c] = {}]

---------------------------------------------------------------------------
(* The master's task for one connection: handle_connection.                *)

\* The first PDU must be Open; assign_session enters the session before it answers.
First(c) ==
    /\ task[c] = "first"
    /\ \/ /\ toMaster[c] # <<>>
          /\ toMaster' = [toMaster EXCEPT ![c] = Tail(@)]
          /\ \/ /\ Head(toMaster[c]).type = "open"
                /\ sid' = [sid EXCEPT ![c] = nextSession]
                /\ sessions' = sessions \cup {nextSession}
                /\ nextSession' = nextSession + 1
                /\ ackOf' = [ackOf EXCEPT ![c] = Head(toMaster[c]).packet]
                /\ task' = [task EXCEPT ![c] = "opening"]
             \/ /\ Head(toMaster[c]).type # "open"
                /\ task' = [task EXCEPT ![c] = "ended"]
                /\ UNCHANGED <<sid, sessions, nextSession, ackOf>>
       \/ /\ toMaster[c] = <<>> /\ ~SubUp(c)
          /\ task' = [task EXCEPT ![c] = "ended"]
          /\ UNCHANGED <<toMaster, sid, sessions, nextSession, ackOf>>
    /\ UNCHANGED <<subtrees, packet, pending, toSub, agent, fwd>>

\* send_response (and assign_session's own write): `?` ends the task at once when
\* the subagent has gone; while its socket is full the task waits, and reads nothing.
Answer(c) ==
    /\ task[c] \in {"opening", "answering"}
    /\ \/ /\ Writable(c)
          /\ toSub' = [toSub EXCEPT ![c] = Append(@, Ack(ackOf[c]))]
          /\ task' = [task EXCEPT ![c] = "serving"]
       \/ /\ ~SubUp(c)
          /\ task' = [task EXCEPT ![c] = "ended"]
          /\ UNCHANGED toSub
    /\ UNCHANGED <<subtrees, sessions, nextSession, packet, pending, sid, ackOf,
                   toMaster, agent, fwd>>

\* A call that is acknowledged: its effect on the table, then the answer is due.
ReadCall(c) ==
    LET pdu == Head(toMaster[c])
    IN  /\ \/ pdu.type = "register" /\ AddRegistration(sid[c], pdu)
           \/ pdu.type = "unregister" /\ RemoveRegistration(sid[c], pdu.subtree)
           \/ pdu.type \in AckedOnly /\ UNCHANGED subtrees
        /\ ackOf' = [ackOf EXCEPT ![c] = pdu.packet]
        /\ task' = [task EXCEPT ![c] = "answering"]
        /\ UNCHANGED <<sessions, pending, fwd>>

\* A Response is handed to the forwarder whose packet id it carries, if one waits.
ReadResponse(c) ==
    LET pdu == Head(toMaster[c])
        s == sid[c]
    IN  /\ pdu.type = "response"
        /\ pending' = [pending EXCEPT ![s] = @ \ {pdu.packet}]
        /\ fwd' = [f \in Forwarders |->
                     IF pdu.packet \in pending[s] /\ f \in Holding(s) /\ fwd[f].packet = pdu.packet
                     THEN [fwd[f] EXCEPT !.reply = pdu.outcome, !.of = pdu.of] ELSE fwd[f]]
        /\ UNCHANGED <<subtrees, sessions, task, ackOf>>

ReadClose(c) ==
    /\ Head(toMaster[c]).type = "close"
    /\ ReclaimSession(sid[c])
    /\ task' = [task EXCEPT ![c] = "ended"]
    /\ UNCHANGED <<pending, ackOf, fwd>>

ReadIgnored(c) ==
    /\ Head(toMaster[c]).type \in Ignored
    /\ UNCHANGED <<subtrees, sessions, pending, task, ackOf, fwd>>

Read(c) ==
    /\ task[c] = "serving"
    /\ toMaster[c] # <<>>
    /\ toMaster' = [toMaster EXCEPT ![c] = Tail(@)]
    /\ ReadCall(c) \/ ReadResponse(c) \/ ReadClose(c) \/ ReadIgnored(c)
    /\ UNCHANGED <<nextSession, packet, sid, toSub, agent>>

\* The read fails once the subagent has gone and its last PDU has been read.
ReadEnd(c) ==
    /\ task[c] = "serving"
    /\ toMaster[c] = <<>> /\ ~SubUp(c)
    /\ ReclaimSession(sid[c])
    /\ task' = [task EXCEPT ![c] = "ended"]
    /\ UNCHANGED <<nextSession, packet, pending, sid, ackOf, toMaster, toSub, agent, fwd>>

Task(c) == First(c) \/ Answer(c) \/ Read(c) \/ ReadEnd(c)

---------------------------------------------------------------------------
(* A caller of forward_get, forward_get_next or forward_set: the three     *)
(* differ in the PDU they send only.                                       *)

\* The call returns.
Finished(f, result) == [fwd EXCEPT ![f] = [Idle EXCEPT !.state = "done", !.reply = result]]

\* The bound: session s has a packet id for one more request.
PacketLeft(s) ==
    packet[s] + Cardinality({f \in Forwarders : fwd[f].state = "owned" /\ fwd[f].sid = s}) < MaxPackets

\* owner_for.
Ask(f, ask) ==
    LET owner == OwnerFor(ask.oid)
    IN  /\ fwd[f].state \in {"idle", "done"}
        /\ \/ owner = 0 /\ fwd' = Finished(f, "NoOwner")
           \/ /\ owner # 0 /\ PacketLeft(owner)
              /\ fwd' = [fwd EXCEPT ![f] =
                            [Idle EXCEPT !.state = "owned", !.ask = ask, !.sid = owner]]
        /\ UNCHANGED <<master, toMaster, toSub, agent>>

\* Seeded fault: the packet id is read but never advanced.
FreshPacketStuck(s) == UNCHANGED packet

FreshPacket(s) == packet' = [packet EXCEPT ![s] = @ + 1]

\* session(), next_packet and the first half of exchange: the session may have been
\* reclaimed since owner_for; otherwise its Arc is kept.
Enter(f) ==
    LET s == fwd[f].sid
    IN  /\ fwd[f].state = "owned"
        /\ \/ /\ s \notin sessions
              /\ fwd' = Finished(f, "NoOwner")
              /\ UNCHANGED <<packet, pending>>
           \/ /\ s \in sessions
              /\ FreshPacket(s)
              /\ pending' = [pending EXCEPT ![s] = @ \cup {packet'[s]}]
              /\ fwd' = [fwd EXCEPT ![f].state = "write", ![f].packet = packet'[s]]
        /\ UNCHANGED <<subtrees, sessions, nextSession, task, sid, ackOf, toMaster, toSub, agent>>

\* The write of exchange, under the writer lock: a failed one leaves the pending entry
\* behind.  FORWARD_TIMEOUT does not run yet, so nothing ends the wait for a socket that
\* stays full.
Write(f) ==
    LET c == ConnOf(fwd[f].sid)
    IN  /\ fwd[f].state = "write"
        /\ \/ /\ Writable(c)
              /\ toSub' = [toSub EXCEPT ![c] =
                             Append(@, [type |-> fwd[f].ask.kind, oid |-> fwd[f].ask.oid,
                                        packet |-> fwd[f].packet])]
              /\ fwd' = [fwd EXCEPT ![f].state = "wait"]
           \/ /\ ~SubUp(c)
              /\ fwd' = Finished(f, "Disconnected")
              /\ UNCHANGED toSub
        /\ UNCHANGED <<master, toMaster, agent>>

\* The oneshot has a value; an AgentX error or an empty Response is an Err as well.
Finish(f) ==
    /\ fwd[f].state = "wait" /\ fwd[f].reply # "none"
    /\ fwd' = Finished(f, fwd[f].reply)
    /\ UNCHANGED <<master, toMaster, toSub, agent>>

\* Seeded fault: a timeout leaves its entry in the pending table.
TimeoutKeepsEntry(f) ==
    /\ fwd[f].state = "wait" /\ fwd[f].reply = "none"
    /\ fwd' = Finished(f, "Timeout")
    /\ UNCHANGED <<master, toMaster, toSub, agent>>

\* Seeded fault: the timer runs only while the subagent is there.
TimeoutWhileUp(f) ==
    /\ fwd[f].state = "wait" /\ fwd[f].reply = "none"
    /\ SubUp(ConnOf(fwd[f].sid))
    /\ pending' = [pending EXCEPT ![fwd[f].sid] = @ \ {fwd[f].packet}]
    /\ fwd' = Finished(f, "Timeout")
    /\ UNCHANGED <<subtrees, sessions, nextSession, packet, task, sid, ackOf, toMaster, toSub, agent>>

\* FORWARD_TIMEOUT passes.  Nothing else wakes a forwarder whose subagent has gone:
\* it keeps the session alive itself.
Timeout(f) ==
    /\ fwd[f].state = "wait" /\ fwd[f].reply = "none"
    /\ pending' = [pending EXCEPT ![fwd[f].sid] = @ \ {fwd[f].packet}]
    /\ fwd' = Finished(f, "Timeout")
    /\ UNCHANGED <<subtrees, sessions, nextSession, packet, task, sid, ackOf, toMaster, toSub, agent>>

Forward(f) == Enter(f) \/ Write(f) \/ Finish(f) \/ Timeout(f)

---------------------------------------------------------------------------
(* A subagent process.                                                     *)

\* connect_unix; the listener accepts and spawns the task.  A program that is not
\* this repository's subagent may send something else first.
Connect(c, first) ==
    /\ sub[c] = "off"
    /\ \A d \in Conns : <<d, c>> \in Restarts => sub[d] = "gone"
    /\ sub' = [sub EXCEPT ![c] = "opening"]
    /\ toMaster' = [toMaster EXCEPT ![c] = <<[type |-> first, packet |-> 1]>>]
    /\ task' = [task EXCEPT ![c] = "first"]
    /\ UNCHANGED <<subtrees, sessions, nextSession, packet, pending, sid, ackOf, toSub,
                   call, todo, acked, clean, fwd>>

\* The master's answer to Open has been read.
Opened(c) ==
    /\ sub[c] = "opening" /\ toSub[c] # <<>>
    /\ toSub' = [toSub EXCEPT ![c] = Tail(@)]
    /\ sub' = [sub EXCEPT ![c] = "ready"]
    /\ UNCHANGED <<master, toMaster, call, todo, acked, clean, fwd>>

\* register, notify, or another call: the PDU is written and its answer awaited.
MakeCall(c, pdu) ==
    /\ sub[c] = "ready" /\ pdu \in todo[c]
    /\ \/ /\ MasterUp(c)
          /\ todo' = [todo EXCEPT ![c] = @ \ {pdu}]
          /\ toMaster' = [toMaster EXCEPT ![c] = Append(@, pdu)]
          /\ \/ /\ pdu.type \in Ignored \cup {"close"}
                /\ UNCHANGED <<sub, call>>
             \/ /\ pdu.type \notin Ignored \cup {"close"}
                /\ sub' = [sub EXCEPT ![c] = "calling"]
                /\ call' = [call EXCEPT ![c] = pdu]
          /\ acked' = IF pdu.type = "unregister" THEN [acked EXCEPT ![c] = @ \ {pdu.subtree}] ELSE acked
          /\ UNCHANGED toSub
       \/ /\ ~MasterUp(c)
          /\ SubGone(c)
          /\ UNCHANGED toMaster
    /\ UNCHANGED <<master, clean, fwd>>

\* The next PDU is taken for the call's answer.  register returns Ok on a Response
\* and fails on a forwarded request, upon which its caller gives the subagent up;
\* any other call returns Ok on either, and the request is lost.
CallReturns(c) ==
    LET pdu == Head(toSub[c])
        register == call[c].type = "register"
    IN  /\ sub[c] = "calling" /\ toSub[c] # <<>>
        /\ \/ /\ register /\ pdu.type # "response"
              /\ SubGone(c)
              /\ UNCHANGED clean
           \/ /\ ~register \/ pdu.type = "response"
              /\ toSub' = [toSub EXCEPT ![c] = Tail(@)]
              /\ sub' = [sub EXCEPT ![c] = "ready"]
              /\ call' = [call EXCEPT ![c] = NoCall]
              /\ clean' = [clean EXCEPT ![c] = @ /\ pdu.type = "response"]
              /\ acked' = IF register THEN [acked EXCEPT ![c] = @ \cup {call[c].subtree}] ELSE acked
              /\ UNCHANGED todo
        /\ UNCHANGED <<master, toMaster, fwd>>

Run(c) ==
    /\ sub[c] = "ready"
    /\ sub' = [sub EXCEPT ![c] = "running"]
    /\ UNCHANGED <<master, toMaster, toSub, call, todo, acked, clean, fwd>>

\* What the handler makes of a request: only set can fail.
Outcomes(kind) == IF kind = "set" THEN {"ok", "agentxError"} ELSE {"ok"}

\* decode_body: the payload of a GetNext becomes the body of a Get, and run looks at
\* the body only.
Decoded(kind) == IF kind = "getNext" THEN "get" ELSE kind

\* A forwarded request as the subagent reads it.
AsRead(ask) == [kind |-> Decoded(ask.kind), oid |-> ask.oid]

\* One turn of run: the handler is invoked for a request; any other PDU is answered
\* with processingError under its own packet id.
ServeRequest(c) ==
    LET pdu == Head(toSub[c])
        Respond(outcome, of) ==
            toMaster' = [toMaster EXCEPT ![c] =
                           Append(@, [type |-> "response", packet |-> pdu.packet,
                                      outcome |-> outcome, of |-> of])]
    IN  /\ sub[c] = "running" /\ toSub[c] # <<>> /\ MasterUp(c)
        /\ toSub' = [toSub EXCEPT ![c] = Tail(@)]
        /\ \/ /\ pdu.type \in RequestKinds
              /\ \E outcome \in Outcomes(Decoded(pdu.type)) :
                   Respond(outcome, AsRead([kind |-> pdu.type, oid |-> pdu.oid]))
           \/ /\ pdu.type \notin RequestKinds
              /\ Respond("agentxError", NoAsk)
        /\ UNCHANGED <<master, agent, fwd>>

\* A read or a write finds the connection closed by the master.
SubEnd(c) ==
    /\ sub[c] \in {"opening", "calling", "running"} /\ ~MasterUp(c)
    /\ sub[c] = "running" \/ toSub[c] = <<>>
    /\ SubGone(c)
    /\ UNCHANGED <<master, toMaster, clean, fwd>>

\* The process dies, or drops the Subagent.
Die(c) ==
    /\ SubUp(c)
    /\ SubGone(c)
    /\ UNCHANGED <<master, toMaster, clean, fwd>>

Subagent(c) ==
    \/ Opened(c) \/ CallReturns(c) \/ Run(c) \/ ServeRequest(c) \/ SubEnd(c)

---------------------------------------------------------------------------
Init ==
    /\ subtrees = <<>> /\ sessions = {} /\ nextSession = 1
    /\ packet = [s \in 1..Cardinality(Conns) |-> 0]
    /\ pending = [s \in 1..Cardinality(Conns) |-> {}]
    /\ task = [c \in Conns |-> "none"]
    /\ sid = [c \in Conns |-> 0]
    /\ ackOf = [c \in Conns |-> 0]
    /\ toMaster = [c \in Conns |-> <<>>]
    /\ toSub = [c \in Conns |-> <<>>]
    /\ sub = [c \in Conns |-> "off"]
    /\ call = [c \in Conns |-> NoCall]
    /\ todo = [c \in Conns |-> Calls[c]]
    /\ fwd = [f \in Forwarders |-> Idle]
    /\ acked = [c \in Conns |-> {}]
    /\ clean = [c \in Conns |-> TRUE]

Next ==
    \/ \E c \in Conns :
         \/ Task(c) \/ Subagent(c) \/ Die(c)
         \/ \E first \in {"open", "unexpected"} : Connect(c, first)
         \/ \E pdu \in Calls[c] : MakeCall(c, pdu)
    \/ \E f \in Forwarders : Forward(f) \/ \E ask \in Asks[f] : Ask(f, ask)

\* Tasks and forwarders are tokio tasks that run whenever they can, the timer of
\* exchange fires, and the writer lock is a queue, so a forwarder is not passed over for
\* ever when the socket has room again and again; nothing is assumed of the subagents.
Fairness ==
    /\ \A c \in Conns : WF_vars(Task(c))
    /\ \A f \in Forwarders : WF_vars(Forward(f)) /\ SF_vars(Write(f))

Spec == Init /\ [][Next]_vars /\ Fairness

---------------------------------------------------------------------------
(* Properties.                                                             *)

\* Every variable has its type; session ids are assigned to one connection each.
TypeOK ==
    /\ sessions \subseteq 1..(nextSession - 1)
    /\ nextSession \in 1..(Cardinality(Conns) + 1)
    /\ \A i \in DOMAIN subtrees : subtrees[i].sid \in 1..(nextSession - 1)
    /\ \A s \in DOMAIN pending : pending[s] \subseteq 1..packet[s]
    /\ \A c \in Conns :
         /\ task[c] \in {"none", "first", "opening", "serving", "answering", "ended"}
         /\ sub[c] \in {"off", "opening", "ready", "calling", "running", "gone"}
         /\ task[c] \in {"opening", "serving", "answering"} => sid[c] # 0
    /\ \A c, d \in Conns : sid[c] = sid[d] => c = d \/ sid[c] = 0
    /\ \A f \in Forwarders : fwd[f].state \in {"idle", "owned", "write", "wait", "done"}

\* master.rs: whatever dies when, a registration in the table belongs to a session
\* in the session map, so owner_for never names a session that was reclaimed.
RegistrationsHaveSessions ==
    \A i \in DOMAIN subtrees : subtrees[i].sid \in sessions

Answered(f) == fwd[f].state = "wait" /\ fwd[f].reply # "none"

\* master.rs exchange: as long as no call of the subagent has swallowed a forwarded
\* request, an answered forwarder has the answer the handler gave to its own request,
\* although others share the connection, time out and are answered late.  The handler
\* sees the request as decode_body reads it: to a GetNext it gives the answer to a Get.
RepliesMatch ==
    \A f \in Forwarders :
        Answered(f) /\ clean[ConnOf(fwd[f].sid)] => fwd[f].of = AsRead(fwd[f].ask)

\* master.rs exchange: the pending table of a live connection holds entries of
\* forwarders that still wait, so timeouts do not make it grow.
PendingIsAwaited ==
    \A c \in Conns : SubUp(c) /\ sid[c] # 0 =>
        \A id \in pending[sid[c]] : \E f \in Holding(sid[c]) : fwd[f].packet = id

\* subagent.rs register: as long as no call has swallowed a forwarded request, Ok
\* means the master holds the registration while the connection lasts.
RegisterOkMeansRegistered ==
    \A c \in Conns : SubUp(c) /\ clean[c] /\ sid[c] \in sessions =>
        \A x \in acked[c] : \E i \in DOMAIN subtrees :
            subtrees[i].sid = sid[c] /\ subtrees[i].subtree = x

\* The forwarder waits in exchange's write for a subagent that is there and does not read.
Blocked(f) == fwd[f].state = "write" /\ SubUp(ConnOf(fwd[f].sid)) /\ ~Writable(ConnOf(fwd[f].sid))

\* master.rs exchange: every forwarded request comes back with a value or an error,
\* whether the subagent answers, is late, dies or hangs, except that a write to a socket
\* that is full and is never read again does not return: the lock and write_all are
\* outside FORWARD_TIMEOUT.
EveryForwardCompletes ==
    \A f \in Forwarders :
        fwd[f].state = "owned" ~> (fwd[f].state = "done" \/ []Blocked(f))

\* master.rs, documentation of FORWARD_TIMEOUT: every forwarded request has a timeout.
ForwardsEnd == \A f \in Forwarders : fwd[f].state = "owned" ~> fwd[f].state = "done"

\* master.rs, module documentation: the connection task removes every registration
\* owned by its session on exit.
ReclaimedOnExit ==
    \A c \in Conns : task[c] = "ended" =>
        \A i \in DOMAIN subtrees : subtrees[i].sid # sid[c]

\* master.rs, documentation of owner_for: the longest subtree prefix owns an OID.
OwnerIsLongestPrefix ==
    \A ask \in UNION {Asks[f] : f \in Forwarders}, i \in DOMAIN subtrees :
        Covers(subtrees[i], ask.oid) =>
            \E j \in DOMAIN subtrees :
                /\ subtrees[j].sid = OwnerFor(ask.oid) /\ Covers(subtrees[j], ask.oid)
                /\ Len(subtrees[j].subtree) >= Len(subtrees[i].subtree)

\* subagent.rs, documentation of run: a Response is sent for a request for which
\* the handler was invoked; so what a forwarder receives answers its request.
AnsweredByHandler == \A f \in Forwarders : Answered(f) => fwd[f].of # NoAsk

\* master.rs, documentation of forward_get_next: what it returns is the successor of the
\* OID, the answer to a GETNEXT.
NextIsAsked ==
    \A f \in Forwarders :
        Answered(f) /\ fwd[f].ask.kind = "getNext" /\ fwd[f].of # NoAsk => fwd[f].of.kind = "getNext"
=============================================================================
