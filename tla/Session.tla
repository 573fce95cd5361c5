------------------------------ MODULE Session ------------------------------
(***************************************************************************)
(* The request loop of a client session (netsnmp/src/session/community.rs, *)
(* and session/secure.rs as far as its loop is the same) over the three    *)
(* kinds of transport: a connected UDP socket, one UDP socket shared by    *)
(* several sessions (udp_shared.rs) and a byte stream (TCP, TLS, Unix).    *)
(* Datagrams are lost, duplicated and delivered in any order; a stream     *)
(* keeps order but may pause in the middle of a message.                   *)
(***************************************************************************)
EXTENDS Naturals, Sequences, FiniteSets, SequencesExt

CONSTANTS
    Sessions,      \* client sessions of one process
    Version,       \* the protocol version of each: "v1", "v2c" or "v3"
    Uses,          \* the operations each of them is used for, subsets of Ops
    Kinds,         \* transports to consider, a subset of AllKinds
    Retries,       \* SessionConfig.retries
    MaxRequests,   \* bound: calls per session, by transport
    Backlog,       \* what a stream holds under way before a write to it blocks
    MaxDuplicates, \* bound: datagrams the network duplicates
    MaxId          \* i32::MAX, where the request-id counter wraps

AllKinds  == {"udp", "shared", "stream"}
Confirmed == {"get", "getBulk", "inform"}
OneShot   == {"trap", "trapV1"}
Ops       == Confirmed \cup OneShot

ASSUME SessionAssumption ==
    /\ Version \in [Sessions -> {"v1", "v2c", "v3"}]
    /\ Uses \in [Sessions -> SUBSET Ops]
    /\ Kinds \subseteq AllKinds
    /\ Retries \in Nat /\ MaxDuplicates \in Nat /\ MaxId \in Nat \ {0} /\ Backlog \in Nat \ {0}
    /\ MaxRequests \in [Kinds -> [Sessions -> Nat]]

VARIABLES
    kind,    \* the transport all sessions use
    nextId,  \* REQUEST_ID
    msgId,   \* V3Session.msg_id
    call,    \* the call each session is in, or its last one
    made,    \* calls made by each session
    wire,   \* exchanges under way: the request, the agent's work or its answer
    inbox,   \* answers in the session's own socket
    routes,  \* UdpShared.routes: <<routing id, session>>
    slot,    \* the oneshot receiver a UdpSharedTransport stashed
    reading, \* stream: the id whose header receive() has consumed, 0 for none
    cut,     \* history: a timeout has dropped a half-read message
    copies   \* datagrams duplicated so far

vars == <<kind, nextId, msgId, call, made, wire, inbox, routes, slot, reading, cut, copies>>

\* A header that was really the middle of a message.
Garbage == MaxId + 1

NoAnswer == [id |-> 0, route |-> 0, of |-> "none", part |-> "whole"]

\* A receiver whose sender is gone or that has been consumed, and one still waiting.
Taken  == [is |-> "taken", answer |-> NoAnswer]
Open   == [is |-> "open", answer |-> NoAnswer]
Closed == [is |-> "closed", answer |-> NoAnswer]

NoCall == [pc |-> "idle", op |-> "none", id |-> 0, route |-> 0, attempt |-> 0,
           lastErr |-> "timeout", result |-> "none", answer |-> NoAnswer,
           late |-> FALSE, foreign |-> 0]

---------------------------------------------------------------------------
(* Ids.                                                                    *)

\* Seeded fault: load and store instead of one atomic update.
NextIdLost == nextId

\* next_request_id: returns the value before wrapping_add(1).max(1).
NextId == IF nextId = MaxId THEN 1 ELSE nextId + 1

\* peek_request_id: what the shared socket routes by.
RoutingId(s, id) == IF Version[s] = "v3" THEN msgId[s] ELSE id

\* The early returns of get_bulk, send_trap and send_trap_v1.
Refused(s, op) ==
    \/ op \in {"getBulk", "trap"} /\ Version[s] = "v1"
    \/ op = "trapV1" /\ Version[s] # "v1"

\* Everything under way to session s from before the call.
Foreign(s) == Len(wire[s]) + Len(inbox[s])

---------------------------------------------------------------------------
(* The request loop.                                                       *)

Finish(s, result) == call' = [call EXCEPT ![s].pc = "idle", ![s].result = result]

Begin(s, op) ==
    /\ call[s].pc = "idle" /\ made[s] < MaxRequests[kind][s]
    /\ made' = [made EXCEPT ![s] = @ + 1]
    /\ \/ /\ Refused(s, op)
          /\ call' = [call EXCEPT ![s] = [NoCall EXCEPT !.op = op, !.result = "refused"]]
          /\ UNCHANGED nextId
       \/ /\ ~Refused(s, op)
          /\ nextId' = IF op = "trapV1" THEN nextId ELSE NextId
          /\ call' = [call EXCEPT ![s] =
                        [NoCall EXCEPT !.pc = "send", !.op = op, !.foreign = Foreign(s),
                                       !.id = IF op = "trapV1" THEN 0 ELSE nextId]]
    /\ UNCHANGED <<kind, msgId, wire, inbox, routes, slot, reading, cut, copies>>

\* UdpShared::route and the stash in UdpSharedTransport::send: a route for the same
\* id is replaced, which closes the channel of whoever waits on it.
AddRoute(s, r) ==
    /\ routes' = {e \in routes : e[1] # r} \cup {<<r, s>>}
    /\ slot' = [t \in Sessions |->
                  CASE t = s -> Open
                    [] t # s /\ <<r, t>> \in routes /\ call[t].route = r /\ slot[t] = Open -> Closed
                    [] OTHER -> slot[t]]

\* What the agent sends back: one datagram, or two stretches of a stream.
Exchange(s, id, r) ==
    LET whole == [id |-> id, route |-> r, of |-> s, part |-> "whole"] IN
    IF kind = "stream" THEN <<[whole EXCEPT !.part = "head"], [whole EXCEPT !.part = "body"]>>
    ELSE <<whole>>

\* A datagram can always be sent.  The write_all and flush of a stream wait while the
\* peer, which has this much to deal with, does not read; no timeout covers them.
Sendable(s) == kind = "stream" => Len(wire[s]) < Backlog

Send(s) ==
    LET r == RoutingId(s, call[s].id) IN
    /\ call[s].pc = "send" /\ Sendable(s)
    /\ wire' = IF call[s].op \in OneShot THEN wire
                ELSE [wire EXCEPT ![s] = @ \o Exchange(s, call[s].id, r)]
    /\ msgId' = IF Version[s] = "v3" THEN [msgId EXCEPT ![s] = @ + 1] ELSE msgId
    /\ IF kind = "shared" THEN AddRoute(s, r) ELSE UNCHANGED <<routes, slot>>
    /\ call' = IF call[s].op \in OneShot
                 THEN [call EXCEPT ![s].pc = "idle", ![s].result = "sent"]
                 ELSE [call EXCEPT ![s].pc = "wait", ![s].route = r]
    /\ UNCHANGED <<kind, nextId, made, inbox, reading, cut, copies>>

\* send() fails, or a datagram socket reports an error instead of a datagram; a
\* stream ends.
TransportFails(s) ==
    /\ call[s].pc \in {"send", "wait"}
    /\ Finish(s, "io")
    /\ reading' = [reading EXCEPT ![s] = 0]
    /\ cut' = [cut EXCEPT ![s] = @ \/ reading[s] # 0]
    /\ UNCHANGED <<kind, nextId, msgId, made, wire, inbox, routes, slot, copies>>

\* Seeded fault: one attempt too few.
MoreAttemptsFew(s) == call[s].attempt + 1 < Retries

MoreAttempts(s) == call[s].attempt < Retries

\* The end of a failed attempt: `continue`, or Err(last_err) after the last one.
AttemptFails(s, err, late) ==
    LET c == [call[s] EXCEPT !.lastErr = err, !.late = @ \/ late] IN
    call' = [call EXCEPT ![s] =
               IF MoreAttempts(s) THEN [c EXCEPT !.pc = "send", !.attempt = @ + 1]
               ELSE [c EXCEPT !.pc = "idle", !.result = err]]

\* Seeded fault: any well-formed answer is taken.
AnyAnswer(s, m) == TRUE

\* The only check a response undergoes.
Matches(s, m) == m.id = call[s].id

\* A complete datagram: the answer (checked_request turns its error status into an
\* error), or one that answers something else.
Take(s, m) ==
    \/ /\ Matches(s, m)
       /\ \E result \in {"ok", "snmpError"} :
            call' = [call EXCEPT ![s].pc = "idle", ![s].answer = m, ![s].result = result]
    \/ ~Matches(s, m) /\ AttemptFails(s, "mismatch", FALSE)

---------------------------------------------------------------------------
(* receive(), for each kind of transport.                                  *)

ReceiveUdp(s) ==
    /\ kind = "udp" /\ call[s].pc = "wait" /\ inbox[s] # <<>>
    /\ inbox' = [inbox EXCEPT ![s] = Tail(@)]
    /\ Take(s, Head(inbox[s]))
    /\ UNCHANGED <<kind, nextId, msgId, made, wire, routes, slot, reading, cut, copies>>

\* The stashed receiver yields a datagram or finds its sender gone.
ReceiveShared(s) ==
    /\ kind = "shared" /\ call[s].pc = "wait" /\ slot[s].is \in {"full", "closed"}
    /\ slot' = [slot EXCEPT ![s] = Taken]
    /\ IF slot[s] = Closed THEN Finish(s, "closed") ELSE Take(s, slot[s].answer)
    /\ UNCHANGED <<kind, nextId, msgId, made, wire, inbox, routes, reading, cut, copies>>

\* read_ber_message, header first.  The middle of a message read as a header gives
\* an invalid length or some length.
ReadHeader(s) ==
    /\ kind = "stream" /\ call[s].pc = "wait" /\ reading[s] = 0 /\ inbox[s] # <<>>
    /\ inbox' = [inbox EXCEPT ![s] = Tail(@)]
    /\ LET p == Head(inbox[s]) IN
       \/ /\ reading' = [reading EXCEPT ![s] = IF p.part = "head" THEN p.id ELSE Garbage]
          /\ UNCHANGED call
       \/ p.part # "head" /\ Finish(s, "garbled") /\ UNCHANGED reading
    /\ UNCHANGED <<kind, nextId, msgId, made, wire, routes, slot, cut, copies>>

ReadContent(s) ==
    /\ kind = "stream" /\ call[s].pc = "wait" /\ reading[s] # 0 /\ inbox[s] # <<>>
    /\ inbox' = [inbox EXCEPT ![s] = Tail(@)]
    /\ reading' = [reading EXCEPT ![s] = 0]
    /\ LET p == Head(inbox[s]) IN
       IF p.part = "body" /\ p.id = reading[s] THEN Take(s, p) ELSE Finish(s, "garbled")
    /\ UNCHANGED <<kind, nextId, msgId, made, wire, routes, slot, cut, copies>>

Pending(s) == IF kind = "shared" THEN slot[s] = Open ELSE inbox[s] = <<>>

\* Seeded fault: the timeout covers the first byte of the answer only.
PendingAtStart(s) == Pending(s) /\ reading[s] = 0

Elapsed(s) == Pending(s)

\* timeout() polls receive() first, so it elapses only when nothing is ready; it drops
\* the future and with it the header already read.
Timeout(s) ==
    /\ call[s].pc = "wait" /\ Elapsed(s)
    /\ reading' = [reading EXCEPT ![s] = 0]
    /\ cut' = [cut EXCEPT ![s] = @ \/ reading[s] # 0]
    /\ slot' = IF kind = "shared" THEN [slot EXCEPT ![s] = Taken] ELSE slot
    /\ AttemptFails(s, "timeout", TRUE)
    /\ UNCHANGED <<kind, nextId, msgId, made, wire, inbox, routes, copies>>

---------------------------------------------------------------------------
(* The agents and the network.                                             *)

Deliverable(q) == IF kind = "stream" THEN {1} \cap DOMAIN q ELSE DOMAIN q

\* The receive task of UdpShared: the route is removed, and the send fails silently
\* when its receiver is gone.
Dispatch(m) ==
    IF \E t \in Sessions : <<m.route, t>> \in routes
      THEN LET t == CHOOSE x \in Sessions : <<m.route, x>> \in routes IN
           /\ routes' = routes \ {<<m.route, t>>}
           /\ slot' = IF call[t].pc = "wait" /\ call[t].route = m.route /\ slot[t] = Open
                        THEN [slot EXCEPT ![t] = [is |-> "full", answer |-> m]] ELSE slot
      ELSE UNCHANGED <<routes, slot>>

Deliver(s) ==
    \E i \in Deliverable(wire[s]) :
      /\ wire' = [wire EXCEPT ![s] = RemoveAt(@, i)]
      /\ IF kind = "shared" THEN Dispatch(wire[s][i]) /\ UNCHANGED inbox
         ELSE inbox' = [inbox EXCEPT ![s] = Append(@, wire[s][i])] /\ UNCHANGED <<routes, slot>>
      /\ UNCHANGED <<kind, nextId, msgId, call, made, reading, cut, copies>>

\* Datagrams only.
Lose(s) ==
    /\ kind # "stream"
    /\ \E i \in DOMAIN wire[s] : wire' = [wire EXCEPT ![s] = RemoveAt(@, i)]
    /\ UNCHANGED <<kind, nextId, msgId, call, made, inbox, routes, slot, reading, cut, copies>>

Duplicate(s) ==
    /\ kind # "stream" /\ copies < MaxDuplicates
    /\ copies' = copies + 1
    /\ \E i \in DOMAIN wire[s] :
         /\ wire' = [wire EXCEPT ![s] = Append(@, wire[s][i])]
         /\ call' = IF wire[s][i].id = call[s].id THEN call ELSE [call EXCEPT ![s].foreign = @ + 1]
    /\ UNCHANGED <<kind, nextId, msgId, made, inbox, routes, slot, reading, cut>>

---------------------------------------------------------------------------
Init ==
    /\ kind \in Kinds
    /\ nextId = 1
    /\ msgId = [s \in Sessions |-> 1]
    /\ call = [s \in Sessions |-> NoCall]
    /\ made = [s \in Sessions |-> 0]
    /\ wire = [s \in Sessions |-> <<>>] /\ inbox = wire
    /\ routes = {}
    /\ slot = [s \in Sessions |-> Taken]
    /\ reading = [s \in Sessions |-> 0]
    /\ cut = [s \in Sessions |-> FALSE]
    /\ copies = 0

\* One poll of the session's future.
Step(s) == Send(s) \/ ReceiveUdp(s) \/ ReceiveShared(s) \/ ReadHeader(s) \/ ReadContent(s) \/ Timeout(s)

Network(s) == Deliver(s) \/ Lose(s) \/ Duplicate(s)

Next ==
    \E s \in Sessions :
      \/ \E op \in Uses[s] : Begin(s, op)
      \/ Step(s)
      \/ TransportFails(s)
      \/ Network(s)

\* The runtime polls a woken future and the clock reaches every deadline; nothing is
\* assumed of agents and network.
Spec == Init /\ [][Next]_vars /\ \A s \in Sessions : WF_vars(Step(s))

---------------------------------------------------------------------------
Results == {"none", "ok", "snmpError", "timeout", "mismatch", "closed", "io", "refused", "garbled", "sent"}

TypeOK ==
    /\ kind \in Kinds /\ nextId \in 1..MaxId
    /\ \A s \in Sessions :
         /\ call[s].pc \in {"idle", "send", "wait"} /\ call[s].result \in Results
         /\ call[s].attempt \in 0..Retries
         /\ reading[s] \in 0..Garbage
         /\ reading[s] # 0 => kind = "stream"
    /\ \A e \in routes : e[2] \in Sessions

(* A successful call returns the answer its own agent gave to its own       *)
(* request, whatever late, duplicated or misrouted answers are around       *)
(* (Session::request).                                                      *)
OkIsMine ==
    \A s \in Sessions : call[s].result \in {"ok", "snmpError"} =>
        call[s].answer.of = s /\ call[s].answer.id = call[s].id

(* A call fails for a reason: without a timeout it runs out of attempts only *)
(* when more foreign answers than retries were under way to its socket, since *)
(* each one costs an attempt (community.rs:100); and a stream is misframed   *)
(* only after a timeout dropped a half-read message.                         *)
FailureHasCause ==
    \A s \in Sessions :
      /\ call[s].result \in {"timeout", "mismatch"} /\ ~call[s].late => call[s].foreign > Retries
      /\ call[s].result = "garbled" => cut[s]

(* On the shared socket a waiting community session has its route in the    *)
(* table or its answer in the slot: no other session takes the route away   *)
(* (UdpShared::route).                                                      *)
WaitingHasRoute ==
    \A s \in Sessions : kind = "shared" /\ call[s].pc = "wait" =>
        slot[s].is = "full" \/ (slot[s] = Open /\ <<call[s].route, s>> \in routes)

(* Concurrent sessions on one shared socket do not disturb each other: no   *)
(* call ends because another session replaced its route (udp_shared.rs:27). *)
NoRouteStolen == \A s \in Sessions : call[s].result # "closed"

(* Every call returns, whatever the network loses, delays or delivers       *)
(* (Session::request); the exception is a send on a stream whose peer never *)
(* reads again, for transport.send is awaited outside the timeout.          *)
EveryRequestReturns ==
    \A s \in Sessions :
      call[s].pc # "idle" ~> (call[s].pc = "idle" \/ [](call[s].pc = "send" /\ ~Sendable(s)))

(* session/config.rs, documentation of timeout and retries: a request has a *)
(* timeout, and a number of retries after its first attempt.                *)
TimeoutBoundsCall == \A s \in Sessions : call[s].pc # "idle" ~> call[s].pc = "idle"
=============================================================================
