-------------------------------- MODULE Smux --------------------------------
(***************************************************************************)
(* The SMUX server (netsnmp-agent/src/smux.rs): peers connect over TCP,    *)
(* open, register subtrees and answer the GETs that agent threads forward  *)
(* to them.  Per connection a reader task demultiplexes what the peer      *)
(* sends: answers go into one slot, everything else to the server loop.    *)
(***************************************************************************)
EXTENDS Naturals, Integers, Sequences, FiniteSets, SequencesExt, Retain

CONSTANTS
    Peers,       \* connections
    Threads,     \* agent threads that forward a GET or GETNEXT
    Password,    \* the password each peer opens with
    Entries,     \* smuxpeer lines: [password, subtree]; empty allows everything
    Registers,   \* the subtrees each peer asks for
    Stallers,    \* peers that may stop reading
    Names,       \* object names managers ask for
    Capacity,    \* of the channel between reader and server loop
    MaxForwards, \* bound: forwards of each thread
    MaxSent      \* bound: PDUs each peer sends of its own accord

ASSUME SmuxAssumption ==
    /\ Capacity \in Nat \ {0} /\ MaxForwards \in [Threads -> Nat] /\ MaxSent \in [Peers -> Nat]
    /\ DOMAIN Password = Peers /\ DOMAIN Registers = Peers

VARIABLES
    conn,     \* state of handle_connection
    stream,   \* bytes from the peer that the reader has not read, as PDUs
    chan,     \* the channel to the server loop
    reading,  \* the reader task runs
    slot,     \* pending_response
    peers,    \* SmuxServer.peers
    subtrees, \* SmuxServer.subtrees
    asked,    \* requests written to the peer and not answered yet
    stalled,  \* the peer has stopped reading its socket
    sent,     \* PDUs sent by the peer of its own accord
    fwd,      \* forward_roundtrip of each thread
    forwards  \* forwards of each thread, the source of request ids

vars == <<conn, stream, chan, reading, slot, peers, subtrees, asked, stalled, sent, fwd, forwards>>

Nothing == [id |-> <<>>, name |-> <<>>]

NoForward == [pc |-> "idle", peer |-> "none", id |-> <<>>, name |-> <<>>, answer |-> Nothing, mixed |-> FALSE]

---------------------------------------------------------------------------
(* PDUs.  The peer's bytes are decoded by decode_smux_pdu.                 *)

Plain(type) == [type |-> type, subtree |-> <<>>, operation |-> 0, answer |-> Nothing]

RegisterPdu(o, op) == [Plain("get") EXCEPT !.subtree = o, !.operation = op]

Response(a) == [Plain("response") EXCEPT !.answer = a]

\* The two arcs after the subtree are unsigned, so an unregister request carries
\* 2^32 - 1 and not -1; a GET that is no register request has the shape, for the
\* decoder, of an open.
Decode(pdu) ==
    CASE pdu.type = "get" /\ pdu.operation = 1 -> [pdu EXCEPT !.type = "register"]
      [] pdu.type = "get" /\ pdu.operation # 1 -> Plain("open")
      [] OTHER -> pdu

---------------------------------------------------------------------------
(* The peer.                                                               *)

PeerSends(p, pdu) ==
    /\ conn[p] # "away" /\ sent[p] < MaxSent[p]
    /\ stream' = [stream EXCEPT ![p] = Append(@, pdu)]
    /\ sent' = [sent EXCEPT ![p] = @ + 1]
    /\ UNCHANGED <<conn, chan, reading, slot, peers, subtrees, asked, stalled, fwd, forwards>>

\* The end of the stream, or bytes that do not decode.
PeerPdus(p) == {RegisterPdu(o, op) : o \in Registers[p], op \in {1, -1}}
               \cup {Plain("close"), Plain("end")}

\* Requests are answered in any order.
PeerAnswers(p) ==
    \E i \in DOMAIN asked[p] :
      /\ asked' = [asked EXCEPT ![p] = RemoveAt(@, i)]
      /\ stream' = [stream EXCEPT ![p] = Append(@, Response(asked[p][i]))]
      /\ UNCHANGED <<conn, chan, reading, slot, peers, subtrees, stalled, sent, fwd, forwards>>

\* The server loop runs and has its end of the channel.
Served(p) == conn[p] \in {"open", "replying"}

PeerStalls(p) ==
    /\ Served(p) /\ p \in Stallers /\ ~stalled[p]
    /\ stalled' = [stalled EXCEPT ![p] = TRUE]
    /\ UNCHANGED <<conn, stream, chan, reading, slot, peers, subtrees, asked, sent, fwd, forwards>>

---------------------------------------------------------------------------
(* handle_connection.                                                      *)

\* The first PDU must be an open; then the peer is recorded and the reader started.
Accept(p) ==
    /\ conn[p] = "away"
    /\ conn' = [conn EXCEPT ![p] = "open"]
    /\ peers' = peers \cup {p}
    /\ reading' = [reading EXCEPT ![p] = TRUE]
    /\ UNCHANGED <<stream, chan, slot, subtrees, asked, stalled, sent, fwd, forwards>>

\* A connection that starts with something else is dropped.
Reject(p) ==
    /\ conn[p] = "away"
    /\ conn' = [conn EXCEPT ![p] = "closed"]
    /\ UNCHANGED <<stream, chan, reading, slot, peers, subtrees, asked, stalled, sent, fwd, forwards>>

\* The reader task: one PDU off the stream.  It waits while the channel is full, and
\* ends with the stream or with the server loop.
Read(p) ==
    LET pdu == Decode(Head(stream[p])) IN
    /\ reading[p] /\ stream[p] # <<>>
    /\ stream' = [stream EXCEPT ![p] = Tail(@)]
    /\ \/ /\ pdu.type = "response"
          /\ slot' = [slot EXCEPT ![p] = pdu.answer]
          /\ UNCHANGED <<chan, reading>>
       \/ /\ pdu.type = "end" \/ (pdu.type # "response" /\ ~Served(p))
          /\ reading' = [reading EXCEPT ![p] = FALSE]
          /\ UNCHANGED <<chan, slot>>
       \/ /\ pdu.type \notin {"response", "end"} /\ Served(p) /\ Len(chan[p]) < Capacity
          /\ chan' = [chan EXCEPT ![p] = Append(@, pdu)]
          /\ UNCHANGED <<reading, slot>>
    /\ UNCHANGED <<conn, peers, subtrees, asked, stalled, sent, fwd, forwards>>

Authorized(p, o) ==
    Entries = {} \/ \E e \in Entries : e.password = Password[p] /\ IsPrefix(e.subtree, o)

\* A register request: the subtree is in the table before the peer is told.
Register(p) ==
    LET o == Head(chan[p]).subtree IN
    /\ conn[p] = "open" /\ chan[p] # <<>> /\ Head(chan[p]).type = "register"
    /\ chan' = [chan EXCEPT ![p] = Tail(@)]
    /\ subtrees' = IF Authorized(p, o) THEN Append(subtrees, <<o, p>>) ELSE subtrees
    /\ conn' = [conn EXCEPT ![p] = "replying"]
    /\ UNCHANGED <<stream, reading, slot, peers, asked, stalled, sent, fwd, forwards>>

\* The RRsp.  When its write fails, `?` leaves the function past the tear-down; while
\* the peer does not read, it does not return.
Reply(p) ==
    /\ conn[p] = "replying" /\ ~stalled[p]
    /\ \E c \in {"open", "abandoned"} : conn' = [conn EXCEPT ![p] = c]
    /\ UNCHANGED <<stream, chan, reading, slot, peers, subtrees, asked, stalled, sent, fwd, forwards>>

\* PDUs the server loop has no use for.
Ignore(p) ==
    /\ conn[p] = "open" /\ chan[p] # <<>> /\ Head(chan[p]).type = "open"
    /\ chan' = [chan EXCEPT ![p] = Tail(@)]
    /\ UNCHANGED <<conn, stream, reading, slot, peers, subtrees, asked, stalled, sent, fwd, forwards>>

\* A close PDU, or the channel closed and drained: first the peer goes ...
LeaveLoop(p) ==
    /\ conn[p] = "open"
    /\ \/ chan[p] # <<>> /\ Head(chan[p]).type = "close"
       \/ chan[p] = <<>> /\ ~reading[p]
    /\ peers' = peers \ {p}
    /\ conn' = [conn EXCEPT ![p] = "leaving"]
    /\ UNCHANGED <<stream, chan, reading, slot, subtrees, asked, stalled, sent, fwd, forwards>>

\* Seeded fault: the subtrees stay.
TearDownForgets(p) ==
    /\ conn[p] = "leaving"
    /\ conn' = [conn EXCEPT ![p] = "closed"]
    /\ UNCHANGED <<stream, chan, reading, slot, peers, subtrees, asked, stalled, sent, fwd, forwards>>

\* ... then its subtrees.
TearDown(p) ==
    /\ conn[p] = "leaving"
    /\ subtrees' = Retain(subtrees, {i \in DOMAIN subtrees : subtrees[i][2] # p})
    /\ conn' = [conn EXCEPT ![p] = "closed"]
    /\ UNCHANGED <<stream, chan, reading, slot, peers, asked, stalled, sent, fwd, forwards>>

---------------------------------------------------------------------------
(* Forwarding.                                                             *)

\* owner_of: the longest registered prefix, the first one among equals, if its peer
\* is still there.
Candidates(name) == {i \in DOMAIN subtrees : IsPrefix(subtrees[i][1], name)}
Owner(name) ==
    LET longest == {i \in Candidates(name) :
                      \A j \in Candidates(name) : Len(subtrees[j][1]) <= Len(subtrees[i][1])}
    IN IF longest = {} THEN "none"
       ELSE LET i == CHOOSE k \in longest : \A j \in longest : k <= j
            IN IF subtrees[i][2] \in peers THEN subtrees[i][2] ELSE "none"

\* Someone else's request is with the peer, or its answer on the way.
Busy(t, p) ==
    \/ asked[p] # <<>>
    \/ \E i \in DOMAIN stream[p] : stream[p][i].type = "response"
    \/ \E u \in Threads \ {t} : fwd[u].pc # "idle" /\ fwd[u].peer = p

Forward(t, name) ==
    /\ fwd[t].pc = "idle" /\ forwards[t] < MaxForwards[t]
    /\ Owner(name) # "none"
    /\ forwards' = [forwards EXCEPT ![t] = @ + 1]
    /\ fwd' = [u \in Threads |->
                 IF u = t THEN [NoForward EXCEPT !.pc = "clear", !.peer = Owner(name), !.name = name,
                                                 !.id = <<t, forwards[t]>>, !.mixed = Busy(t, Owner(name))]
                 ELSE IF fwd[u].peer = Owner(name) THEN [fwd[u] EXCEPT !.mixed = TRUE] ELSE fwd[u]]
    /\ UNCHANGED <<conn, stream, chan, reading, slot, peers, subtrees, asked, stalled, sent>>

\* Seeded fault: the slot is left as it is.
ClearNothing(t) ==
    /\ fwd[t].pc = "clear"
    /\ fwd' = [fwd EXCEPT ![t].pc = "write"]
    /\ UNCHANGED <<conn, stream, chan, reading, slot, peers, subtrees, asked, stalled, sent, forwards>>

Clear(t) ==
    /\ fwd[t].pc = "clear"
    /\ slot' = [slot EXCEPT ![fwd[t].peer] = Nothing]
    /\ fwd' = [fwd EXCEPT ![t].pc = "write"]
    /\ UNCHANGED <<conn, stream, chan, reading, peers, subtrees, asked, stalled, sent, forwards>>

\* The write has no deadline: it waits for a peer that does not read.
Write(t) ==
    LET p == fwd[t].peer IN
    /\ fwd[t].pc = "write" /\ ~stalled[p]
    /\ asked' = [asked EXCEPT ![p] = Append(@, [id |-> fwd[t].id, name |-> fwd[t].name])]
    /\ fwd' = [fwd EXCEPT ![t].pc = "poll"]
    /\ UNCHANGED <<conn, stream, chan, reading, slot, peers, subtrees, stalled, sent, forwards>>

\* The write fails; for the requester the object does not exist.
WriteFails(t) ==
    /\ fwd[t].pc = "write" /\ ~reading[fwd[t].peer]
    /\ fwd' = [fwd EXCEPT ![t].pc = "idle", ![t].peer = "none"]
    /\ UNCHANGED <<conn, stream, chan, reading, slot, peers, subtrees, asked, stalled, sent, forwards>>

\* The slot is filled: whatever answer it is, it is taken.
Take(t) ==
    LET p == fwd[t].peer IN
    /\ fwd[t].pc = "poll" /\ slot[p] # Nothing
    /\ slot' = [slot EXCEPT ![p] = Nothing]
    /\ fwd' = [fwd EXCEPT ![t].pc = "idle", ![t].peer = "none", ![t].answer = slot[p]]
    /\ UNCHANGED <<conn, stream, chan, reading, peers, subtrees, asked, stalled, sent, forwards>>

\* Seeded fault: the deadline is only looked at while the peer is connected.
DeadlineWhileOpen(t) ==
    /\ fwd[t].pc = "poll" /\ slot[fwd[t].peer] = Nothing /\ fwd[t].peer \in peers
    /\ fwd' = [fwd EXCEPT ![t].pc = "idle", ![t].peer = "none"]
    /\ UNCHANGED <<conn, stream, chan, reading, slot, peers, subtrees, asked, stalled, sent, forwards>>

\* Five seconds have passed.
Deadline(t) ==
    /\ fwd[t].pc = "poll" /\ slot[fwd[t].peer] = Nothing
    /\ fwd' = [fwd EXCEPT ![t].pc = "idle", ![t].peer = "none"]
    /\ UNCHANGED <<conn, stream, chan, reading, slot, peers, subtrees, asked, stalled, sent, forwards>>

---------------------------------------------------------------------------
Init ==
    /\ conn = [p \in Peers |-> "away"]
    /\ stream = [p \in Peers |-> <<>>] /\ chan = stream /\ asked = stream
    /\ reading = [p \in Peers |-> FALSE] /\ stalled = reading
    /\ slot = [p \in Peers |-> Nothing]
    /\ peers = {} /\ subtrees = <<>>
    /\ sent = [p \in Peers |-> 0]
    /\ fwd = [t \in Threads |-> NoForward]
    /\ forwards = [t \in Threads |-> 0]

Peer(p) == (\E pdu \in PeerPdus(p) : PeerSends(p, pdu)) \/ PeerAnswers(p) \/ PeerStalls(p)

\* The tasks of one connection.
Serve(p) == Read(p) \/ Register(p) \/ Reply(p) \/ Ignore(p) \/ LeaveLoop(p) \/ TearDown(p)

Thread(t) == Clear(t) \/ Write(t) \/ WriteFails(t) \/ Take(t) \/ Deadline(t)

Next ==
    \/ \E p \in Peers : Peer(p) \/ Accept(p) \/ Reject(p) \/ Serve(p)
    \/ \E t \in Threads : Thread(t) \/ \E name \in Names : Forward(t, name)

\* The threads are scheduled; nothing is assumed of the peers, and what is claimed
\* below needs nothing of the tasks of their connections either.
Spec == Init /\ [][Next]_vars /\ \A t \in Threads : WF_vars(Thread(t))

---------------------------------------------------------------------------
(* A forward returns the answer to its own request unless it overlapped    *)
(* another forward to the same peer or started with an earlier request     *)
(* still unanswered, since the request id is not compared                  *)
(* (forward_roundtrip).                                                    *)
AnswerIsMine ==
    \A t \in Threads : fwd[t].pc = "idle" /\ fwd[t].answer # Nothing /\ ~fwd[t].mixed =>
        fwd[t].answer.id = fwd[t].id

(* A subtree in the table belongs to a peer that is connected, or about to *)
(* be torn down, or whose register response could not be written           *)
(* (handle_connection).                                                    *)
SubtreesHavePeers ==
    \A i \in DOMAIN subtrees :
      LET p == subtrees[i][2] IN
      /\ conn[p] \in {"open", "replying", "leaving", "abandoned"}
      /\ p \in peers \/ conn[p] = "leaving"
      /\ Authorized(p, subtrees[i][1])

(* Every forward comes back, with an answer, a failed write or at its      *)
(* deadline, except from a peer that has stopped reading                   *)
(* (forward_roundtrip).                                                    *)
ForwardsReturn ==
    \A t \in Threads : fwd[t].pc # "idle" ~>
        (fwd[t].pc = "idle" \/ (fwd[t].pc = "write" /\ stalled[fwd[t].peer]))
=============================================================================
