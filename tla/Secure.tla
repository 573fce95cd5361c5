------------------------------- MODULE Secure -------------------------------
(***************************************************************************)
(* An SNMPv3 session (netsnmp/src/session/secure.rs) talking to the agent  *)
(* of module Daemon (netsnmp-agent/src/agent.rs, handle_v3): engine        *)
(* discovery, authenticated and encrypted requests, the agent's time       *)
(* window, Reports, and the one resynchronisation of a call.  Datagrams    *)
(* are lost, duplicated, delayed and reordered, and the agent restarts     *)
(* with its engine time at zero and the same engine boots.                 *)
(***************************************************************************)
EXTENDS Daemon, Integers

CONSTANTS
    Window,       \* TIME_WINDOW_SECS
    Retries,      \* V3Session.retries
    Clients,      \* UsmUsers the session may be opened with
    Accounts,     \* AgentConfig.users
    SetText,      \* what the session's SET writes
    MaxCalls,     \* bound: calls of the session
    MaxDuplicates \* bound: datagrams duplicated

ASSUME SecureAssumption ==
    /\ Window \in Nat /\ Retries \in Nat /\ MaxCalls \in Nat /\ MaxDuplicates \in Nat
    /\ SetText \in Texts

VARIABLES
    client,    \* V3Session.user
    engine,    \* V3Session.engine and time_base, known after discovery
    call,      \* the call the session is in, or its last one
    calls,     \* calls made
    requests,  \* datagrams on their way to the agent
    answers,   \* datagrams on their way to the session's socket
    copies,    \* datagrams duplicated
    executed   \* history: the age of the request the agent executed last

sessionVars == <<client, engine, call, calls, requests, answers, copies, executed>>
vars == <<daemonVars, sessionVars>>

---------------------------------------------------------------------------
(* Users and keys: netsnmp/src/usm.                                        *)

None   == "none"
NoUser == [name |-> None, auth |-> <<None>>, priv |-> None]

\* UsmUser::security_level
Level(u) == CASE u.auth # <<None>> /\ u.priv # None -> "authPriv"
              [] u.auth # <<None>> /\ u.priv = None -> "authNoPriv"
              [] OTHER -> "noAuthNoPriv"

\* Keys are derived from the password and, through localize, the one engine id; the
\* privacy key also depends on the auth protocol.
AuthKey(u) == u.auth
PrivKey(u) == IF Level(u) = "authPriv" THEN <<u.auth[1], u.priv>> ELSE <<None>>
NoKey      == <<None>>

\* build_user_message and build_report: what a datagram carries.
Seal(name, auth, priv, e, pdu) ==
    [user |-> name, auth |-> auth, priv |-> priv, boots |-> e.boots, time |-> e.time,
     pdu |-> pdu, sentAt |-> clock, life |-> e.life]

\* Agent::engine; `life` is history, the start of the agent the parameters come from.
Engine == [boots |-> Boots, time |-> EngineTime, life |-> starts]

\* v3::parse with a user: the digest is checked, then the payload is decrypted; with
\* another privacy key it comes out as garbage that does not decode.
Parse(m, auth, priv) ==
    IF m.auth # NoKey /\ auth # m.auth THEN "authFailure"
    ELSE IF m.priv # NoKey /\ priv = NoKey THEN "privFailure"
    ELSE IF m.priv # NoKey /\ priv # m.priv THEN "garbage"
    ELSE "ok"

---------------------------------------------------------------------------
(* The agent.                                                              *)

\* build_report
Report(u, id) ==
    Seal(u.name, AuthKey(u), NoKey, Engine, [type |-> "report", id |-> id])

Account(m) == IF \E u \in Accounts : u.name = m.user THEN CHOOSE u \in Accounts : u.name = m.user
              ELSE NoUser

\* Seeded fault: only messages from the future are refused.
InWindowAhead(m) == m.boots = Boots /\ m.time - EngineTime <= Window

InWindow(m) ==
    /\ m.boots = Boots
    /\ EngineTime - m.time <= Window /\ m.time - EngineTime <= Window

\* process_with_access on the scalar, and build_response.
Execute(m, u) ==
    /\ IF m.pdu.type = "set" THEN Assign(Octets(SetText)) ELSE UNCHANGED <<scalar, assigned>>
    /\ executed' = [age |-> clock - m.sentAt,
                     checked |-> Level(u) # "noAuthNoPriv" /\ m.life = starts]
    /\ answers' = answers \cup {Seal(u.name, AuthKey(u), PrivKey(u), Engine,
                                     [type |-> "response", id |-> m.pdu.id])}

Answer(m) == answers' = answers \cup {m} /\ UNCHANGED <<scalar, assigned, executed>>

Drop == UNCHANGED <<scalar, assigned, executed, answers>>

\* handle_v3
HandleV3(m) ==
    LET u == Account(m) IN
    IF m.pdu.type = "discovery" THEN Answer(Report(NoUser, 0))
    ELSE IF u = NoUser THEN Answer(Report(NoUser, 0))
    ELSE LET read == Parse(m, AuthKey(u), PrivKey(u)) IN
         IF read = "privFailure" THEN Answer(Report(u, 0))
         ELSE IF read # "ok" THEN Drop
         ELSE IF Level(u) # "noAuthNoPriv" /\ ~InWindow(m) THEN Answer(Report(u, m.pdu.id))
         ELSE Execute(m, u)

\* One turn of the serve_on loop the session talks to; a duplicate stays behind.
Handle(m, again) ==
    /\ Up /\ listening # {} /\ m \in requests
    /\ again => copies < MaxDuplicates
    /\ copies' = IF again THEN copies + 1 ELSE copies
    /\ requests' = IF again THEN requests ELSE requests \ {m}
    /\ HandleV3(m)
    /\ UNCHANGED <<proc, disk, tmp, snapshot, listening, clock, bootAt, starts, committed,
                   client, engine, call, calls>>

---------------------------------------------------------------------------
(* The session.                                                            *)

NoCall == [pc |-> "closed", type |-> "none", id |-> 0, attempt |-> 0, resynced |-> FALSE,
           lastErr |-> "timeout", result |-> "none", disturbed |-> FALSE, began |-> 0]

\* discover(): one exchange without a retry.
Open ==
    /\ call.pc = "closed" /\ calls < MaxCalls
    /\ call' = [NoCall EXCEPT !.pc = "discovering"]
    /\ requests' = requests \cup {Seal(None, NoKey, NoKey, engine, [type |-> "discovery", id |-> calls])}
    /\ calls' = calls + 1
    /\ UNCHANGED <<daemonVars, client, engine, answers, copies, executed>>

\* self.engine and time_base
Learn(m) == engine' = [known |-> TRUE, boots |-> m.boots, time |-> m.time, base |-> clock, life |-> m.life]

CurrentTime == engine.time + (clock - engine.base)

Begin(type) ==
    /\ call.pc = "idle" /\ calls < MaxCalls
    /\ calls' = calls + 1
    /\ call' = [NoCall EXCEPT !.pc = "send", !.type = type, !.id = calls + 1, !.began = clock,
                              !.disturbed = requests \cup answers # {}]
    /\ UNCHANGED <<daemonVars, client, engine, requests, answers, copies, executed>>

Send ==
    /\ call.pc = "send"
    /\ call' = [call EXCEPT !.pc = "wait"]
    /\ requests' = requests \cup
         {Seal(client.name, AuthKey(client), PrivKey(client), [engine EXCEPT !.time = CurrentTime],
               [type |-> call.type, id |-> call.id])}
    /\ UNCHANGED <<daemonVars, client, engine, calls, answers, copies, executed>>

Return(result, disturbed) ==
    [NoCall EXCEPT !.pc = "idle", !.type = call.type, !.result = result, !.disturbed = disturbed]

\* `continue`, or the end of the loop and Err(last_err).
NextAttempt(c) ==
    IF c.attempt < Retries THEN [c EXCEPT !.pc = "send", !.attempt = @ + 1]
    ELSE Return(c.lastErr, c.disturbed)

\* Seeded fault: the new engine time is not taken over.
ResyncForgotten(m) == call' = NextAttempt([call EXCEPT !.resynced = TRUE]) /\ UNCHANGED engine

\* A Report, the first of this call: take the agent's time over and try again.
Resync(m) == call' = NextAttempt([call EXCEPT !.resynced = TRUE]) /\ Learn(m)

IsMine(m) == m.pdu.id = call.id

\* The body of the loop after exchange().  An authentication failure is final: the
\* second parse, without the user, fails on the same flag.
Digest(m) ==
    LET read == Parse(m, AuthKey(client), PrivKey(client)) IN
    IF read # "ok" THEN call' = Return(read, call.disturbed) /\ UNCHANGED engine
    ELSE IF m.pdu.type = "report"
      THEN IF call.resynced THEN call' = Return("report", call.disturbed) /\ UNCHANGED engine ELSE Resync(m)
    ELSE IF IsMine(m) THEN call' = Return("ok", call.disturbed) /\ UNCHANGED engine
    ELSE call' = NextAttempt([call EXCEPT !.lastErr = "mismatch"]) /\ UNCHANGED engine

\* discover() after its exchange, without a user.
Discovered(m) ==
    IF m.auth # NoKey THEN call' = [NoCall EXCEPT !.result = "authFailure"] /\ UNCHANGED engine
    ELSE call' = [NoCall EXCEPT !.pc = "idle", !.result = "opened"] /\ Learn(m)

Receive(m, again) ==
    /\ call.pc \in {"wait", "discovering"} /\ m \in answers
    /\ again => copies < MaxDuplicates
    /\ copies' = IF again THEN copies + 1 ELSE copies
    /\ answers' = IF again THEN answers ELSE answers \ {m}
    /\ IF call.pc = "discovering" THEN Discovered(m) ELSE Digest(m)
    /\ UNCHANGED <<daemonVars, client, calls, requests, executed>>

\* The answer does not come in time: discovery fails, a request is sent again.
Timeout ==
    /\ call.pc \in {"wait", "discovering"}
    /\ call' = IF call.pc = "discovering"
                 THEN [NoCall EXCEPT !.result = "timeout"]
                 ELSE NextAttempt([call EXCEPT !.lastErr = "timeout", !.disturbed = TRUE])
    /\ requests' = IF call.pc = "discovering" THEN {} ELSE requests
    /\ answers' = IF call.pc = "discovering" THEN {} ELSE answers
    /\ UNCHANGED <<daemonVars, client, engine, calls, copies, executed>>

---------------------------------------------------------------------------
\* A datagram that is lost is one that is never handled or received.

\* History: a call is disturbed by whatever happens to the agent meanwhile, by taking
\* longer than the window and by a datagram that arrives twice.
Disturb == call' = IF call.pc \in {"send", "wait"} THEN [call EXCEPT !.disturbed = TRUE] ELSE call

TimePasses == Tick /\ (IF clock' - call.began > Window THEN Disturb ELSE UNCHANGED call)
                   /\ UNCHANGED <<client, engine, calls, requests, answers, copies, executed>>

DaemonStep == DaemonNext /\ Disturb /\ UNCHANGED <<client, engine, calls, requests, answers, copies, executed>>

Init ==
    /\ DaemonInit
    /\ client \in Clients
    /\ engine = [known |-> FALSE, boots |-> 0, time |-> 0, base |-> 0, life |-> 0]
    /\ call = NoCall
    /\ calls = 0 /\ copies = 0
    /\ requests = {} /\ answers = {}
    /\ executed = [age |-> 0, checked |-> FALSE]

Session == Send \/ Timeout \/ \E m \in answers, again \in BOOLEAN : Receive(m, again)

Next ==
    \/ DaemonStep
    \/ TimePasses
    \/ Open \/ (\E type \in {"get", "set"} : Begin(type)) \/ Session
    \/ \E m \in requests, again \in BOOLEAN : Handle(m, again)

Spec == Init /\ [][Next]_vars

---------------------------------------------------------------------------
TypeOK ==
    /\ DaemonTypeOK
    /\ call.pc \in {"closed", "discovering", "idle", "send", "wait"}
    /\ call.attempt \in 0..Retries
    /\ call.pc \in {"send", "wait"} => engine.known
    /\ engine.base <= clock

(* An authenticated request is executed only within the time window of its *)
(* sending; a restart of the agent, which resets its engine time and keeps *)
(* its engine boots, is the only way to an older one (Agent::handle_v3).   *)
ExecutedInTime ==
    executed.checked => executed.age <= Window

\* Agent.users is a map from the name to the user; the empty name stands for no user.
NamesIdentify ==
    /\ \A u, v \in Accounts : u.name = v.name => u = v
    /\ \A u \in Accounts : u.name # None

(* A call to a working agent with the right user succeeds even when the    *)
(* agent restarted earlier or the clocks drifted, if nothing is left from  *)
(* earlier calls, nothing is lost, late or doubled, the exchange is        *)
(* quicker than the window and a retry is left for the resynchronisation   *)
(* (V3Session::request).                                                   *)
UndisturbedCallSucceeds ==
    /\ Retries > 0 /\ client \in Accounts
    /\ call.pc = "idle" /\ call.type # "none" /\ ~call.disturbed /\ copies = 0
    => call.result = "ok"
=============================================================================
