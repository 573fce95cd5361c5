---------------------------- MODULE SecureProofs ----------------------------
(***************************************************************************)
(* Proofs about the daemon's persistence (Daemon) and about an SNMPv3      *)
(* session talking to it (Secure): the invariants that the run "secure"    *)
(* checks on a small instance hold for every set of addresses, texts,      *)
(* users and accounts, every window, any number of retries, calls,         *)
(* duplicates and restarts, and clocks of any length.                      *)
(***************************************************************************)
EXTENDS Secure, TLAPS

---------------------------------------------------------------------------
(* Persistence.                                                            *)

\* A line that save() wrote for a text is read back by load() as that text: octets
\* that a quoted word would cut short go to disk in hex (encode_value, decode_value).
LEMMA SavedIsRestored ==
  ASSUME NEW text \in AllTexts, NEW default
  PROVE  Restored(Snapshot(Octets(text)), default) = Octets(text)
  BY DEF AllTexts, Restored, Snapshot, Octets, TagOf, KindOf

\* Without a file the configured value stays.
LEMMA AbsentIsDefault ==
  ASSUME NEW default PROVE Restored(Absent, default) = default
  BY DEF Restored, Absent, KindOf

\* What a start of the process will read: nothing was ever saved, or the line of the
\* text that the last completed save held.
DiskHolds(file, value) ==
    \/ file = Absent /\ value = Absent
    \/ \E t \in Texts : file = Snapshot(Octets(t)) /\ value = [tag |-> "saved", text |-> t]

Saving == {"create", "write", "rename"}

\* The inductive invariant: the scalar of a running process holds a text, save() has
\* put together the line of one, and only a complete line is ever renamed.
PersistInv ==
    /\ proc \in {"down", "up"} \cup Saving
    /\ proc # "down" => \E t \in Texts : scalar = Octets(t)
    /\ proc \in Saving => \E t \in Texts : snapshot = Snapshot(Octets(t))
    /\ proc = "rename" => tmp = snapshot
    /\ DiskHolds(disk, committed)
    /\ RestartServesSaved

\* What start reads from disk is the value of the last save, or a configured one.
LEMMA StartPersist == PersistInv /\ Start => PersistInv'
<1> SUFFICES ASSUME PersistInv, Start PROVE PersistInv'
  OBVIOUS
<1>1. PICK c \in Configured, bound \in SUBSET Addresses :
        /\ listening' = bound
        /\ IF bound = {} THEN UNCHANGED <<proc, scalar>>
           ELSE proc' = "up" /\ scalar' = Restored(disk, Octets(c))
  BY DEF Start
<1>2. /\ proc = "down" /\ assigned' = FALSE
      /\ UNCHANGED <<disk, tmp, snapshot, committed>>
  BY DEF Start
<1>3. c \in Texts
  BY DaemonAssumption
<1>4. CASE bound = {}
  BY <1>1, <1>2, <1>4 DEF PersistInv, DiskHolds, RestartServesSaved, Saving
<1>5. CASE bound # {} /\ disk = Absent /\ committed = Absent
  <2>1. proc' = "up" /\ scalar' = Octets(c)
    BY <1>1, <1>5, AbsentIsDefault
  <2>2. RestartServesSaved'
    BY <2>1, <1>2, <1>5 DEF RestartServesSaved
  <2>3. DiskHolds(disk, committed)'
    BY <1>2 DEF PersistInv, DiskHolds
  <2> QED
    BY <2>1, <2>2, <2>3, <1>2, <1>3 DEF PersistInv, Saving
<1>6. ASSUME bound # {},
             NEW t \in Texts, disk = Snapshot(Octets(t)), committed = [tag |-> "saved", text |-> t]
      PROVE  PersistInv'
  <2>1. proc' = "up" /\ scalar' = Octets(t)
    BY <1>1, <1>6, SavedIsRestored, DaemonAssumption
  <2>2. committed # Absent /\ committed.text = t
    BY <1>6 DEF Absent
  <2>3. RestartServesSaved'
    BY <2>1, <2>2, <1>2 DEF RestartServesSaved
  <2>4. DiskHolds(disk, committed)'
    BY <1>2 DEF PersistInv, DiskHolds
  <2> QED
    BY <2>1, <2>3, <2>4, <1>2 DEF PersistInv, Saving
<1> QED
  BY <1>4, <1>5, <1>6 DEF PersistInv, DiskHolds

\* Every other step of the process, killed anywhere or not, keeps the invariant: the
\* file is replaced by a complete line or not at all.
LEMMA ProcessPersist ==
  ASSUME PersistInv,
         Signal \/ Save \/ Die \/ Tick \/ \E a \in Addresses : ServeFails(a)
  PROVE  PersistInv'
<1>1. CASE Signal
  BY <1>1 DEF Signal, PersistInv, DiskHolds, RestartServesSaved, Saving
<1>2. CASE CreateTmp
  BY <1>2 DEF CreateTmp, PersistInv, DiskHolds, RestartServesSaved, Saving
<1>3. CASE WriteTmp
  BY <1>3 DEF WriteTmp, PersistInv, DiskHolds, RestartServesSaved, Saving
<1>4. CASE Rename
  <2>1. PICK t \in Texts : snapshot = Snapshot(Octets(t))
    BY <1>4 DEF Rename, PersistInv, Saving
  <2>2. disk' = Snapshot(Octets(t)) /\ committed' = [tag |-> "saved", text |-> t]
    BY <1>4, <2>1 DEF Rename, PersistInv, Snapshot, Octets
  <2> QED
    BY <1>4, <2>2 DEF Rename, Exit, PersistInv, DiskHolds, RestartServesSaved, Saving
<1>5. CASE Die
  BY <1>5 DEF Die, Exit, PersistInv, DiskHolds, RestartServesSaved, Saving
<1>6. CASE Tick
  BY <1>6 DEF Tick, PersistInv, DiskHolds, RestartServesSaved, Saving
<1>7. ASSUME NEW a \in Addresses, ServeFails(a) PROVE PersistInv'
  <2>1. proc' = "down" \/ UNCHANGED <<proc, scalar, snapshot, assigned>>
    BY <1>7 DEF ServeFails, Exit
  <2>2. UNCHANGED <<disk, tmp, committed>>
    BY <1>7 DEF ServeFails
  <2> QED
    BY <2>1, <2>2 DEF PersistInv, DiskHolds, RestartServesSaved, Saving
<1> QED
  BY <1>1, <1>2, <1>3, <1>4, <1>5, <1>6, <1>7 DEF Save

\* A request of the session leaves the scalar alone or assigns the text of its SET.
LEMMA HandlePersist ==
  ASSUME PersistInv, NEW m, NEW again, Handle(m, again) PROVE PersistInv'
<1>1. UNCHANGED <<proc, disk, tmp, snapshot, committed>>
  BY DEF Handle
<1>2. UNCHANGED <<scalar, assigned>> \/ (scalar' = Octets(SetText) /\ assigned' = TRUE)
  BY Zenon DEF Handle, HandleV3, Execute, Answer, Drop, Assign
<1> QED
  BY <1>1, <1>2, SecureAssumption DEF PersistInv, DiskHolds, RestartServesSaved, Saving

LEMMA NextPersist == PersistInv /\ [Next]_vars => PersistInv'
<1> SUFFICES ASSUME PersistInv, [Next]_vars PROVE PersistInv'
  OBVIOUS
<1>1. CASE DaemonStep
  BY <1>1, StartPersist, ProcessPersist DEF DaemonStep, DaemonNext
<1>2. CASE TimePasses
  BY <1>2, ProcessPersist DEF TimePasses
<1>3. CASE UNCHANGED daemonVars
  BY <1>3 DEF daemonVars, PersistInv, DiskHolds, RestartServesSaved, Saving
<1>4. ASSUME NEW m \in requests, NEW again \in BOOLEAN, Handle(m, again) PROVE PersistInv'
  BY <1>4, HandlePersist
<1>5. Open \/ (\E type \in {"get", "set"} : Begin(type)) \/ Session => UNCHANGED daemonVars
  BY DEF Open, Begin, Session, Send, Timeout, Receive
<1>6. UNCHANGED vars => UNCHANGED daemonVars
  BY DEF vars
<1> QED
  BY <1>1, <1>2, <1>3, <1>4, <1>5, <1>6 DEF Next

\* For all sets of texts and configured values, any number of restarts, and whatever
\* the session's SETs do meanwhile: a start serves the value of the last completed save
\* (Persistence::save, Persistence::load).
THEOREM PersistenceIsSafe == Spec => []RestartServesSaved
<1>1. Init => PersistInv
  BY DEF Init, DaemonInit, PersistInv, DiskHolds, RestartServesSaved, Saving
<1>2. PersistInv => RestartServesSaved
  BY DEF PersistInv
<1> QED
  BY <1>1, <1>2, NextPersist, PTL DEF Spec

---------------------------------------------------------------------------
(* The time window.                                                        *)

Engines == [known : BOOLEAN, boots : Int, time : Int, base : Int, life : Int]

\* What a datagram says of the time is not ahead of the agent: parameters that come
\* from the present start of the agent were at most its engine time when the datagram
\* was sent.
Timely(m) ==
    /\ m.time \in Int /\ m.sentAt \in Int /\ m.life \in Int /\ m.boots \in Int
    /\ m.sentAt <= clock /\ m.life <= starts
    /\ m.life = starts => m.time + bootAt <= m.sentAt

\* The inductive invariant: the session's notion of the engine time, which it
\* extrapolates from its last synchronisation, never runs ahead of the agent's unless
\* the agent has restarted since.
TimeInv ==
    /\ clock \in Int /\ bootAt \in Int /\ starts \in Int /\ bootAt <= clock
    /\ engine \in Engines
    /\ engine.base <= clock /\ engine.life <= starts
    /\ engine.life = starts => engine.time + bootAt <= engine.base
    /\ \A m \in requests : Timely(m)
    /\ \A m \in answers : Timely(m)
    /\ ExecutedInTime

\* A step of the process that is no start, and time passing, only let the clock go on.
LEMMA LaterTimeInv ==
  ASSUME TimeInv, clock' \in Int, clock <= clock', UNCHANGED <<bootAt, starts, engine, requests, answers, executed>>
  PROVE  TimeInv'
  BY DEF TimeInv, Timely, ExecutedInTime, Engines

\* A start makes everything that is on its way, and what the session knows, old.
LEMMA StartTimeInv ==
  ASSUME TimeInv, Start, UNCHANGED <<engine, requests, answers, executed>> PROVE TimeInv'
  BY DEF TimeInv, Timely, ExecutedInTime, Engines, Start

\* The agent's own parameters are timely in whatever it sends.
LEMMA AgentTimely ==
  ASSUME TimeInv, NEW name, NEW auth, NEW priv, NEW pdu
  PROVE  Timely(Seal(name, auth, priv, Engine, pdu))
  BY DEF TimeInv, Timely, Seal, Engine, EngineTime, Boots

\* The window compares the engine times; the age of the request follows.
LEMMA HandleTimeInv ==
  ASSUME TimeInv, NEW m, NEW again, Handle(m, again) PROVE TimeInv'
<1>1. /\ m \in requests
      /\ UNCHANGED <<clock, bootAt, starts, engine>>
      /\ requests' \subseteq requests
  BY DEF Handle
<1>2. Timely(m)
  BY <1>1 DEF TimeInv
<1>3. \/ UNCHANGED <<executed, answers>>
      \/ UNCHANGED executed /\ \E u, id : answers' = answers \cup {Report(u, id)}
      \/ /\ Level(Account(m)) # "noAuthNoPriv" => InWindow(m)
         /\ Execute(m, Account(m))
  BY Zenon DEF Handle, HandleV3, Answer, Drop
<1>4. (\A a \in answers : Timely(a)) => (\A a \in answers : Timely(a)')
  BY <1>1 DEF Timely
<1>5. \A a \in answers' : Timely(a)'
  <2>1. CASE UNCHANGED answers
    BY <2>1, <1>4 DEF TimeInv
  <2>2. ASSUME NEW u, NEW id, answers' = answers \cup {Report(u, id)}
        PROVE  \A a \in answers' : Timely(a)'
    <3>1. Timely(Report(u, id))
      BY AgentTimely DEF Report
    <3>2. Timely(Report(u, id))'
      BY <3>1, <1>1 DEF Timely, Report, Seal, Engine, EngineTime
    <3> QED
      BY <2>2, <3>1, <1>1, <1>4 DEF TimeInv, Timely
  <2>3. CASE Execute(m, Account(m))
    <3> DEFINE r == Seal(Account(m).name, AuthKey(Account(m)), PrivKey(Account(m)), Engine,
                         [type |-> "response", id |-> m.pdu.id])
    <3>1. answers' = answers \cup {r}
      BY <2>3 DEF Execute
    <3>2. Timely(r)
      BY AgentTimely
    <3> HIDE DEF r
    <3> QED
      BY <3>1, <3>2, <1>1 DEF TimeInv, Timely
  <2> QED
    BY <1>3, <2>1, <2>2, <2>3
<1>6. ExecutedInTime'
  <2>1. CASE UNCHANGED executed
    BY <2>1 DEF TimeInv, ExecutedInTime
  <2>2. CASE /\ Level(Account(m)) # "noAuthNoPriv" => InWindow(m)
             /\ Execute(m, Account(m))
    <3>1. executed' = [age |-> clock - m.sentAt,
                       checked |-> Level(Account(m)) # "noAuthNoPriv" /\ m.life = starts]
      BY <2>2 DEF Execute
    <3>2. ASSUME Level(Account(m)) # "noAuthNoPriv", m.life = starts
          PROVE  clock - m.sentAt <= Window
      BY <2>2, <3>2, <1>2, SecureAssumption DEF TimeInv, Timely, InWindow, EngineTime
    <3> QED
      BY <3>1, <3>2 DEF ExecutedInTime
  <2> QED
    BY <1>3, <2>1, <2>2
<1> QED
  BY <1>1, <1>5, <1>6 DEF TimeInv, Timely

\* What the session sends carries its engine time, extrapolated to now.
LEMMA SendTimeInv ==
  ASSUME TimeInv, Open \/ Send PROVE TimeInv'
<1>1. UNCHANGED <<clock, bootAt, starts, engine, answers, executed>>
  BY DEF Open, Send, daemonVars
<1>2. CASE Open
  <2> DEFINE d == Seal(None, NoKey, NoKey, engine, [type |-> "discovery", id |-> calls])
  <2>1. requests' = requests \cup {d}
    BY <1>2 DEF Open
  <2>2. Timely(d)
    BY DEF TimeInv, Timely, Seal, Engines
  <2> HIDE DEF d
  <2> QED
    BY <1>1, <2>1, <2>2 DEF TimeInv, Timely, ExecutedInTime
<1>3. CASE Send
  <2> DEFINE e == [engine EXCEPT !.time = CurrentTime]
             d == Seal(client.name, AuthKey(client), PrivKey(client), e, [type |-> call.type, id |-> call.id])
  <2>1. requests' = requests \cup {d}
    BY <1>3 DEF Send
  <2>2. Timely(d)
    BY DEF TimeInv, Timely, Seal, Engines, CurrentTime
  <2> HIDE DEF d
  <2> QED
    BY <1>1, <2>1, <2>2 DEF TimeInv, Timely, ExecutedInTime
<1> QED
  BY <1>2, <1>3

\* The session takes over the parameters of an answer, which were the agent's.
LEMMA ReceiveTimeInv ==
  ASSUME TimeInv, NEW m, NEW again, Receive(m, again) PROVE TimeInv'
<1>1. /\ m \in answers /\ answers' \subseteq answers
      /\ UNCHANGED <<clock, bootAt, starts, requests, executed>>
  BY DEF Receive, daemonVars
<1>2. UNCHANGED engine \/ Learn(m)
  BY Zenon DEF Receive, Discovered, Digest, Resync
<1>3. CASE UNCHANGED engine
  BY <1>1, <1>3 DEF TimeInv, Timely, ExecutedInTime
<1>4. CASE Learn(m)
  <2>1. engine' = [known |-> TRUE, boots |-> m.boots, time |-> m.time, base |-> clock, life |-> m.life]
    BY <1>4 DEF Learn
  <2>2. Timely(m)
    BY <1>1 DEF TimeInv
  <2>3. engine' \in Engines
    BY <2>1, <2>2 DEF Engines, TimeInv, Timely
  <2> QED
    BY <1>1, <2>1, <2>2, <2>3 DEF TimeInv, Timely, ExecutedInTime
<1> QED
  BY <1>2, <1>3, <1>4

LEMMA NextTimeInv == TimeInv /\ [Next]_vars => TimeInv'
<1> SUFFICES ASSUME TimeInv, [Next]_vars PROVE TimeInv'
  OBVIOUS
<1>1. CASE DaemonStep
  <2>1. CASE Start
    BY <1>1, <2>1, StartTimeInv DEF DaemonStep
  <2>2. CASE Signal \/ Save \/ Die \/ \E a \in Addresses : ServeFails(a)
    <3>1. UNCHANGED <<clock, bootAt, starts>>
      BY <2>2 DEF Signal, Save, CreateTmp, WriteTmp, Rename, Die, ServeFails
    <3> QED
      BY <1>1, <3>1, LaterTimeInv DEF DaemonStep, TimeInv
  <2> QED
    BY <1>1, <2>1, <2>2 DEF DaemonStep, DaemonNext
<1>2. CASE TimePasses
  BY <1>2, LaterTimeInv DEF TimePasses, Tick, TimeInv
<1>3. CASE Open \/ Send
  BY <1>3, SendTimeInv
<1>4. ASSUME NEW type, Begin(type) PROVE TimeInv'
  BY <1>4, LaterTimeInv DEF Begin, daemonVars, TimeInv
<1>5. ASSUME NEW m, NEW again, Receive(m, again) PROVE TimeInv'
  BY <1>5, ReceiveTimeInv
<1>6. CASE Timeout
  <2>1. /\ UNCHANGED <<clock, bootAt, starts, engine, executed>>
        /\ requests' \subseteq requests /\ answers' \subseteq answers
    BY <1>6 DEF Timeout, daemonVars
  <2> QED
    BY <2>1 DEF TimeInv, Timely, ExecutedInTime
<1>7. ASSUME NEW m, NEW again, Handle(m, again) PROVE TimeInv'
  BY <1>7, HandleTimeInv
<1>8. CASE UNCHANGED vars
  BY <1>8, LaterTimeInv DEF vars, daemonVars, sessionVars, TimeInv
<1> QED
  BY <1>1, <1>2, <1>3, <1>4, <1>5, <1>6, <1>7, <1>8 DEF Next, Session

\* For every window, any number of restarts and any delay, loss, duplication and
\* reordering: a request that passed the agent's time check and was made for its present
\* start is executed within the window of its sending (Agent::handle_v3).
THEOREM WindowIsEffective == Spec => []ExecutedInTime
<1>1. Init => TimeInv
  BY DEF Init, DaemonInit, TimeInv, Timely, ExecutedInTime, Engines
<1>2. TimeInv => ExecutedInTime
  BY DEF TimeInv
<1> QED
  BY <1>1, <1>2, NextTimeInv, PTL DEF Spec

---------------------------------------------------------------------------
(* A call that nothing disturbs.                                           *)

Results == {"none", "opened", "timeout", "mismatch", "authFailure", "privFailure", "garbage", "report", "ok"}

CallRecords ==
    [pc : {"closed", "discovering", "idle", "send", "wait"}, type : {"none", "get", "set"},
     id : Int, attempt : Int, resynced : BOOLEAN, lastErr : Results, result : Results,
     disturbed : BOOLEAN, began : Int]

\* The call has had no bad luck so far and is made with a user of the agent.
Undisturbed == Retries > 0 /\ client \in Accounts /\ ~call.disturbed /\ copies = 0

\* Engine parameters learnt from the agent during this call.
Fresh(boots, time) == boots = Boots /\ call.began <= time + bootAt /\ time + bootAt <= clock

Synced == Fresh(engine.boots, engine.time) /\ engine.time + bootAt <= engine.base

Asking(m) ==
    /\ m.user = client.name /\ m.auth = AuthKey(client) /\ m.priv = PrivKey(client)
    /\ m.pdu = [type |-> call.type, id |-> call.id]
    /\ call.resynced => Fresh(m.boots, m.time)

Answering(m) ==
    /\ m.auth = AuthKey(client)
    /\ \/ m.priv = PrivKey(client) /\ m.pdu = [type |-> "response", id |-> call.id]
       \/ m.priv = NoKey /\ m.pdu.type = "report" /\ ~call.resynced /\ Fresh(m.boots, m.time)

\* The call's own exchange is the only one under way.
OnlyMine ==
    \/ \E m : requests = {m} /\ answers = {} /\ Asking(m)
    \/ \E m : requests = {} /\ answers = {m} /\ Answering(m)

InCall == call.pc \in {"send", "wait"}

\* The inductive invariant, beside TimeInv: an undisturbed call is in its first attempt
\* or, resynchronised, in its second, and after the resynchronisation its parameters
\* are within the window.
CallInv ==
    /\ call \in CallRecords /\ calls \in Int /\ copies \in Nat
    /\ InCall => call.type # "none"
    /\ InCall /\ Undisturbed =>
         /\ clock - call.began <= Window /\ call.began <= clock
         /\ call.attempt = IF call.resynced THEN 1 ELSE 0
         /\ call.resynced => Synced
    /\ call.pc = "send" /\ Undisturbed => requests = {} /\ answers = {}
    /\ call.pc = "wait" /\ Undisturbed => OnlyMine
    /\ UndisturbedCallSucceeds

\* Steps that leave the exchange alone, or disturb it.
LEMMA CallFrame ==
  ASSUME TimeInv, CallInv, UNCHANGED <<client, engine, calls, requests, answers, copies>>,
         \/ UNCHANGED <<call, bootAt>> /\ clock' \in Int /\ clock <= clock'
              /\ (InCall /\ Undisturbed => clock' - call.began <= Window)
         \/ ~InCall /\ UNCHANGED call
         \/ InCall /\ call' = [call EXCEPT !.disturbed = TRUE]
  PROVE  CallInv'
<1>1. CASE ~InCall /\ UNCHANGED call
  BY <1>1 DEF CallInv, InCall, UndisturbedCallSucceeds, Undisturbed
<1>2. CASE InCall /\ call' = [call EXCEPT !.disturbed = TRUE]
  <2>1. call' \in CallRecords /\ call'.disturbed /\ call'.pc = call.pc /\ call'.type = call.type
    BY <1>2 DEF CallInv, CallRecords
  <2> QED
    BY <1>2, <2>1 DEF CallInv, InCall, UndisturbedCallSucceeds, Undisturbed
<1>3. CASE /\ UNCHANGED <<call, bootAt>> /\ clock' \in Int /\ clock <= clock'
           /\ (InCall /\ Undisturbed => clock' - call.began <= Window)
  <2>1. InCall' = InCall /\ Undisturbed' = Undisturbed /\ UndisturbedCallSucceeds' = UndisturbedCallSucceeds
    BY <1>3 DEF InCall, Undisturbed, UndisturbedCallSucceeds
  <2>2. ASSUME NEW boots, NEW time \in Int, Fresh(boots, time) PROVE Fresh(boots, time)'
    BY <1>3, <2>2 DEF Fresh, CallInv, CallRecords, Boots, TimeInv
  <2>3. OnlyMine /\ Undisturbed => OnlyMine'
    <3>1. ASSUME NEW m, requests = {m}, answers = {}, Asking(m) PROVE OnlyMine'
      BY <1>3, <3>1, <2>2 DEF OnlyMine, Asking, TimeInv, Timely
    <3>2. ASSUME NEW m, requests = {}, answers = {m}, Answering(m) PROVE OnlyMine'
      BY <1>3, <3>2, <2>2 DEF OnlyMine, Answering, TimeInv, Timely
    <3> QED
      BY <3>1, <3>2 DEF OnlyMine
  <2>4. InCall /\ Undisturbed =>
          (/\ clock - call.began <= Window /\ call.began <= clock
           /\ call.attempt = IF call.resynced THEN 1 ELSE 0
           /\ call.resynced => Synced)'
    BY <1>3, <2>2 DEF CallInv, CallRecords, TimeInv, Engines, Synced
  <2> QED
    BY <1>3, <2>1, <2>3, <2>4 DEF CallInv
<1> QED
  BY <1>1, <1>2, <1>3

\* What the process does during a call, or a call that takes longer than the window,
\* disturbs it.
LEMMA DisturbCallInv ==
  ASSUME TimeInv, CallInv, DaemonStep \/ TimePasses PROVE CallInv'
<1>1. UNCHANGED <<client, engine, calls, requests, answers, copies>>
  BY DEF DaemonStep, TimePasses
<1>2. CASE Disturb
  BY <1>1, <1>2, CallFrame DEF Disturb, InCall, TimeInv
<1>3. CASE TimePasses /\ ~Disturb
  <2>1. /\ clock' = clock + 1 /\ UNCHANGED <<bootAt, call>>
        /\ ~(clock' - call.began > Window)
    BY <1>3 DEF TimePasses, Tick
  <2> QED
    BY <1>1, <2>1, CallFrame, SecureAssumption DEF TimeInv, CallInv, CallRecords
<1> QED
  BY <1>2, <1>3 DEF DaemonStep

\* A call begins undisturbed only when nothing is under way.
LEMMA BeginCallInv ==
  ASSUME TimeInv, CallInv, NEW type \in {"get", "set"}, Begin(type) PROVE CallInv'
<1>1. PICK left \in BOOLEAN : left = (requests \cup answers # {})
  OBVIOUS
<1>2. /\ call' = [NoCall EXCEPT !.pc = "send", !.type = type, !.id = calls + 1, !.began = clock,
                                !.disturbed = left]
      /\ calls' = calls + 1
      /\ UNCHANGED <<clock, bootAt, client, requests, answers, copies>>
  BY <1>1, Zenon DEF Begin, daemonVars
<1>3. call' = [pc |-> "send", type |-> type, id |-> calls + 1, attempt |-> 0, resynced |-> FALSE,
               lastErr |-> "timeout", result |-> "none", disturbed |-> left, began |-> clock]
  BY <1>2 DEF NoCall
<1>4. clock \in Int /\ calls + 1 \in Int
  BY DEF TimeInv, CallInv
<1>5. call' \in CallRecords
  BY <1>3, <1>4 DEF CallRecords, Results
<1>6. ~call'.disturbed => requests' = {} /\ answers' = {}
  BY <1>1, <1>2, <1>3
<1>7. /\ call'.began = clock /\ call'.attempt = 0 /\ ~call'.resynced
      /\ call'.pc = "send" /\ call'.type # "none"
  BY <1>3
<1>8. clock' - call'.began <= Window /\ call'.began <= clock' /\ calls' \in Int /\ copies' \in Nat
  BY <1>2, <1>4, <1>7, SecureAssumption DEF CallInv
<1> QED
  BY <1>5, <1>6, <1>7, <1>8 DEF CallInv, InCall, Undisturbed, UndisturbedCallSucceeds

\* The keys are those of the client, which stays.
LEMMA KeysStay ==
  ASSUME UNCHANGED client PROVE UNCHANGED <<AuthKey(client), PrivKey(client), client.name>>
  BY Zenon DEF AuthKey, PrivKey, Level

\* An attempt goes out with the client's keys and, after the resynchronisation, with an
\* engine time between the beginning of the call and now.
LEMMA SendCallInv ==
  ASSUME TimeInv, CallInv, Send PROVE CallInv'
<1> DEFINE e == [engine EXCEPT !.time = CurrentTime]
<1>1. PICK d : d = Seal(client.name, AuthKey(client), PrivKey(client), e, [type |-> call.type, id |-> call.id])
  OBVIOUS
<1>2. /\ call.pc = "send" /\ call' = [call EXCEPT !.pc = "wait"]
      /\ requests' = requests \cup {d}
      /\ UNCHANGED <<clock, bootAt, client, engine, calls, answers, copies>>
  BY <1>1 DEF Send, daemonVars
<1>3. /\ call' \in CallRecords /\ call'.pc = "wait"
      /\ call'.type = call.type /\ call'.id = call.id /\ call'.resynced = call.resynced
      /\ call'.attempt = call.attempt /\ call'.began = call.began /\ call'.disturbed = call.disturbed
  BY <1>2 DEF CallInv, CallRecords
<1>4. ASSUME Undisturbed PROVE OnlyMine'
  <2>1. requests' = {d} /\ answers' = {}
    BY <1>2, <1>4 DEF CallInv
  <2>2. call.resynced => Synced
    BY <1>2, <1>4 DEF CallInv, InCall
  <2>3. d.boots = engine.boots /\ d.time = CurrentTime
    BY <1>1 DEF TimeInv, Engines, Seal
  <2>4. call.resynced => Fresh(d.boots, d.time)'
    <3>1. /\ clock \in Int /\ bootAt \in Int /\ call.began \in Int
          /\ engine.time \in Int /\ engine.base \in Int /\ engine.base <= clock
      BY DEF TimeInv, Engines, CallInv, CallRecords
    <3> QED
      BY <1>2, <1>3, <2>2, <2>3, <3>1 DEF Synced, Fresh, CurrentTime, Boots
  <2>5. /\ d.user = client.name /\ d.auth = AuthKey(client) /\ d.priv = PrivKey(client)
        /\ d.pdu = [type |-> call.type, id |-> call.id]
    BY <1>1 DEF Seal
  <2>6. Asking(d)'
    BY <1>2, <1>3, <2>4, <2>5, KeysStay DEF Asking
  <2> QED
    BY <2>1, <2>6 DEF OnlyMine
<1>5. Undisturbed' = Undisturbed
  BY <1>2, <1>3 DEF Undisturbed
<1>6. Undisturbed => (/\ clock - call.began <= Window /\ call.began <= clock
                      /\ call.attempt = IF call.resynced THEN 1 ELSE 0
                      /\ call.resynced => Synced)'
  BY <1>2, <1>3 DEF CallInv, InCall, Fresh, Boots, Synced
<1> QED
  BY <1>2, <1>3, <1>4, <1>5, <1>6 DEF CallInv, InCall, UndisturbedCallSucceeds

\* With the keys the datagram was sealed with, v3::parse succeeds.
LEMMA OwnKeysParse ==
  ASSUME NEW m, NEW auth, NEW priv, m.auth = auth, m.priv = priv \/ m.priv = NoKey
  PROVE  Parse(m, auth, priv) = "ok"
  BY DEF Parse

\* The agent finds the client's account.
LEMMA AccountIsClient ==
  ASSUME NamesIdentify, client \in Accounts, NEW m, m.user = client.name
  PROVE  Account(m) = client /\ client # NoUser
<1>1. \E u \in Accounts : u.name = m.user
  OBVIOUS
<1>2. Account(m) \in Accounts /\ Account(m).name = m.user
  BY <1>1 DEF Account
<1>3. Account(m) = client
  BY <1>2, Zenon DEF NamesIdentify
<1> QED
  BY <1>3 DEF NamesIdentify, NoUser

\* The agent executes the call's request, or reports its engine time; after the
\* resynchronisation the request is in the window.
LEMMA HandleCallInv ==
  ASSUME NamesIdentify, TimeInv, CallInv, NEW m, NEW again \in BOOLEAN, Handle(m, again)
  PROVE  CallInv'
<1>1. /\ m \in requests /\ HandleV3(m)
      /\ copies' = IF again THEN copies + 1 ELSE copies
      /\ requests' = IF again THEN requests ELSE requests \ {m}
      /\ UNCHANGED <<clock, bootAt, client, engine, call, calls>>
  BY DEF Handle
<1>2. /\ call' \in CallRecords /\ calls' \in Int /\ copies' \in Nat
      /\ InCall' = InCall /\ Synced' = Synced
  BY <1>1 DEF CallInv, InCall, Synced, Fresh, Boots
<1>3. Undisturbed' => Undisturbed /\ ~again
  BY <1>1 DEF Undisturbed, CallInv
<1>4. call.pc # "send" \/ ~Undisturbed
  BY <1>1 DEF CallInv
<1>5. ASSUME call.pc = "wait", Undisturbed, ~again PROVE OnlyMine'
  <2>1. requests = {m} /\ answers = {} /\ Asking(m)
    BY <1>1, <1>5 DEF CallInv, OnlyMine
  <2>2. requests' = {}
    BY <1>1, <1>5, <2>1
  <2>3. Account(m) = client /\ client # NoUser
    BY <1>5, <2>1, AccountIsClient DEF Asking, Undisturbed
  <2>4. Parse(m, AuthKey(client), PrivKey(client)) = "ok"
    BY <2>1, OwnKeysParse DEF Asking
  <2>5. m.pdu.type # "discovery" /\ m.pdu.id = call.id
    BY <1>5, <2>1 DEF Asking, CallInv, CallRecords
  <2>6. IF Level(client) # "noAuthNoPriv" /\ ~InWindow(m) THEN Answer(Report(client, m.pdu.id))
        ELSE Execute(m, client)
    BY <1>1, <2>3, <2>4, <2>5, Zenon DEF HandleV3
  <2>7. /\ clock \in Int /\ bootAt \in Int /\ call.began \in Int /\ m.time \in Int
        /\ clock - call.began <= Window /\ call.began <= clock
    BY <1>5, <2>1 DEF TimeInv, CallInv, CallRecords, Timely, InCall
  <2>8. call.resynced => InWindow(m)
    BY <2>1, <2>7, SecureAssumption DEF Asking, Fresh, InWindow, EngineTime, Boots
  <2>9. CASE Execute(m, client)
    <3>1. PICK r : r = Seal(client.name, AuthKey(client), PrivKey(client), Engine,
                            [type |-> "response", id |-> m.pdu.id])
      OBVIOUS
    <3>2. answers' = {r}
      BY <2>1, <2>9, <3>1 DEF Execute
    <3>3. r.auth = AuthKey(client) /\ r.priv = PrivKey(client) /\ r.pdu = [type |-> "response", id |-> call.id]
      BY <2>5, <3>1 DEF Seal
    <3>4. Answering(r)'
      BY <1>1, <3>3, KeysStay DEF Answering
    <3> QED
      BY <2>2, <3>2, <3>4 DEF OnlyMine
  <2>10. CASE Answer(Report(client, m.pdu.id)) /\ ~InWindow(m)
    <3>1. PICK r : r = Report(client, m.pdu.id)
      OBVIOUS
    <3>2. answers' = {r}
      BY <2>1, <2>10, <3>1 DEF Answer
    <3>3. /\ r.auth = AuthKey(client) /\ r.priv = NoKey /\ r.pdu.type = "report"
          /\ r.boots = Boots /\ r.time = clock - bootAt
      BY <3>1 DEF Report, Seal, Engine, EngineTime
    <3>4. ~call.resynced
      BY <2>8, <2>10
    <3>5. Fresh(r.boots, r.time)'
      BY <1>1, <2>7, <3>3 DEF Fresh, Boots
    <3>6. Answering(r)'
      BY <1>1, <3>3, <3>4, <3>5, KeysStay DEF Answering
    <3> QED
      BY <2>2, <3>2, <3>6 DEF OnlyMine
  <2> QED
    BY <2>6, <2>9, <2>10
<1> QED
  BY <1>1, <1>2, <1>3, <1>4, <1>5 DEF CallInv, InCall, UndisturbedCallSucceeds, Undisturbed

\* A call that returns is idle.
LEMMA ReturnFields ==
  ASSUME call \in CallRecords, NEW result \in Results, NEW disturbed \in BOOLEAN
  PROVE  /\ Return(result, disturbed) \in CallRecords
         /\ Return(result, disturbed).pc = "idle"
         /\ Return(result, disturbed).result = result
         /\ Return(result, disturbed).disturbed = disturbed
<1>1. PICK type \in {"none", "get", "set"} : type = call.type
  BY DEF CallRecords
<1>2. PICK r : r = Return(result, disturbed)
  OBVIOUS
<1>3. r = [NoCall EXCEPT !.pc = "idle", !.type = type, !.result = result, !.disturbed = disturbed]
  BY <1>1, <1>2 DEF Return
<1>4. r = [pc |-> "idle", type |-> type, id |-> 0, attempt |-> 0, resynced |-> FALSE,
           lastErr |-> "timeout", result |-> result, disturbed |-> disturbed, began |-> 0]
  BY <1>3 DEF NoCall
<1>5. r \in CallRecords /\ r.pc = "idle" /\ r.result = result /\ r.disturbed = disturbed
  BY <1>4 DEF CallRecords, Results
<1> QED
  BY <1>2, <1>5

\* After a failed attempt the call goes on with the next one or returns; the history of
\* its disturbance stays.
LEMMA AttemptFields ==
  ASSUME call \in CallRecords, NEW c \in CallRecords, c.type = call.type
  PROVE  /\ NextAttempt(c) \in CallRecords
         /\ NextAttempt(c).disturbed = c.disturbed
         /\ NextAttempt(c).pc \in {"send", "idle"}
         /\ NextAttempt(c).pc = "send" => NextAttempt(c).type = c.type
<1>1. CASE c.attempt < Retries
  <2>1. PICK d : d = NextAttempt(c)
    OBVIOUS
  <2>2. PICK n \in Int : n = c.attempt + 1
    BY DEF CallRecords
  <2>3. d = [c EXCEPT !.pc = "send", !.attempt = n]
    BY <1>1, <2>1, <2>2 DEF NextAttempt
  <2>4. d \in CallRecords /\ d.disturbed = c.disturbed /\ d.pc = "send" /\ d.type = c.type
    BY <2>3 DEF CallRecords
  <2> QED
    BY <2>1, <2>4
<1>2. CASE ~(c.attempt < Retries)
  <2>1. NextAttempt(c) = Return(c.lastErr, c.disturbed)
    BY <1>2 DEF NextAttempt
  <2>2. c.lastErr \in Results /\ c.disturbed \in BOOLEAN
    BY DEF CallRecords
  <2> QED
    BY <2>1, <2>2, ReturnFields
<1> QED
  BY <1>1, <1>2

\* The session digests an answer: whatever it is, a disturbed call stays disturbed.
LEMMA DigestTypes ==
  ASSUME call \in CallRecords, NEW m, Digest(m)
  PROVE  /\ call' \in CallRecords /\ call'.disturbed = call.disturbed
         /\ call'.pc \in {"send", "idle"}
         /\ call'.pc = "send" => call'.type = call.type
<1>1. Parse(m, AuthKey(client), PrivKey(client)) \in Results
  BY DEF Parse, Results
<1>2. call.disturbed \in BOOLEAN /\ "report" \in Results /\ "ok" \in Results
  BY DEF CallRecords, Results
<1>3. \A e \in Results :
        /\ [call EXCEPT !.resynced = TRUE] \in CallRecords
        /\ [call EXCEPT !.resynced = TRUE].type = call.type
        /\ [call EXCEPT !.resynced = TRUE].disturbed = call.disturbed
        /\ [call EXCEPT !.lastErr = e] \in CallRecords
        /\ [call EXCEPT !.lastErr = e].type = call.type
        /\ [call EXCEPT !.lastErr = e].disturbed = call.disturbed
  BY DEF CallRecords
<1>4. \/ \E r \in Results : call' = Return(r, call.disturbed)
      \/ call' = NextAttempt([call EXCEPT !.resynced = TRUE])
      \/ call' = NextAttempt([call EXCEPT !.lastErr = "mismatch"])
  BY <1>1, <1>2, Zenon DEF Digest, Resync
<1>5. ASSUME NEW r \in Results, call' = Return(r, call.disturbed)
      PROVE  call' \in CallRecords /\ call'.disturbed = call.disturbed /\ call'.pc = "idle"
  BY <1>2, <1>5, ReturnFields
<1>6. CASE call' = NextAttempt([call EXCEPT !.resynced = TRUE])
  <2>1. PICK c : c = [call EXCEPT !.resynced = TRUE]
    OBVIOUS
  <2>2. c \in CallRecords /\ c.type = call.type /\ c.disturbed = call.disturbed
    BY <1>3, <2>1, Zenon DEF Results
  <2> QED
    BY <1>6, <2>1, <2>2, AttemptFields
<1>7. CASE call' = NextAttempt([call EXCEPT !.lastErr = "mismatch"])
  <2>1. PICK c : c = [call EXCEPT !.lastErr = "mismatch"]
    OBVIOUS
  <2>2. "mismatch" \in Results
    BY DEF Results
  <2> QED
    BY <1>3, <1>7, <2>1, <2>2, AttemptFields
<1> QED
  BY <1>4, <1>5, <1>6, <1>7

\* The answer to an undisturbed call ends it well, or is the agent's report, whose
\* engine time the session takes over.
LEMMA DigestCallInv ==
  ASSUME TimeInv, CallInv, call.pc = "wait", NEW m \in answers, Digest(m),
         answers' = answers \ {m},
         UNCHANGED <<daemonVars, client, calls, requests, copies, executed>>
  PROVE  CallInv'
<1>1. /\ call' \in CallRecords /\ call'.disturbed = call.disturbed
      /\ call'.pc \in {"send", "idle"}
      /\ call'.pc = "send" => call'.type = call.type
  BY DigestTypes DEF CallInv
<1>2. Undisturbed' = Undisturbed
  BY <1>1 DEF Undisturbed
<1>3. CASE ~Undisturbed
  BY <1>1, <1>2, <1>3 DEF CallInv, InCall, UndisturbedCallSucceeds, Undisturbed
<1>4. CASE Undisturbed
  <2>1. requests = {} /\ answers = {m} /\ Answering(m)
    BY <1>4 DEF CallInv, OnlyMine
  <2>2. Parse(m, AuthKey(client), PrivKey(client)) = "ok"
    BY <2>1, OwnKeysParse DEF Answering
  <2>3. requests' = {} /\ answers' = {}
    BY <2>1
  <2>4. CASE m.pdu = [type |-> "response", id |-> call.id]
    <3>1. call' = Return("ok", call.disturbed)
      BY <2>2, <2>4 DEF Digest, IsMine
    <3>2. call'.pc = "idle" /\ call'.result = "ok"
      BY <3>1, ReturnFields DEF CallInv, CallRecords, Results
    <3> QED
      BY <1>1, <3>2 DEF CallInv, InCall, UndisturbedCallSucceeds
  <2>5. CASE m.pdu.type = "report" /\ ~call.resynced /\ Fresh(m.boots, m.time)
    <3>1. Resync(m)
      BY <2>2, <2>5 DEF Digest
    <3>2. call.attempt = 0 /\ clock - call.began <= Window /\ call.began <= clock
      BY <1>4, <2>5 DEF CallInv, InCall
    <3>3. PICK c : c = [call EXCEPT !.resynced = TRUE]
      OBVIOUS
    <3>4. c \in CallRecords /\ c.attempt = 0 /\ c.resynced /\ c.began = call.began /\ c.type = call.type
      BY <3>2, <3>3 DEF CallInv, CallRecords
    <3>5. call' = [c EXCEPT !.pc = "send", !.attempt = @ + 1]
      BY <1>4, <3>1, <3>3, <3>4 DEF Resync, NextAttempt, Undisturbed
    <3>6. /\ call'.pc = "send" /\ call'.attempt = 1 /\ call'.resynced /\ call'.began = call.began
          /\ call'.type = call.type
      BY <3>4, <3>5 DEF CallRecords
    <3>7. engine' = [known |-> TRUE, boots |-> m.boots, time |-> m.time, base |-> clock, life |-> m.life]
      BY <3>1 DEF Resync, Learn
    <3>8. Synced'
      BY <2>5, <3>6, <3>7 DEF Synced, Fresh, daemonVars, Boots
    <3> QED
      BY <1>1, <2>3, <3>2, <3>6, <3>8 DEF CallInv, InCall, UndisturbedCallSucceeds, daemonVars
  <2> QED
    BY <2>1, <2>4, <2>5 DEF Answering
<1> QED
  BY <1>3, <1>4

\* A call outside its exchange, or a disturbed one, promises nothing but its type.
LEMMA NoPromise ==
  ASSUME call' \in CallRecords, calls' \in Int, copies' \in Nat,
         \/ call'.pc \in {"closed", "discovering"}
         \/ call'.pc = "idle" /\ call'.type = "none"
         \/ (call'.disturbed \/ copies' # 0) /\ (InCall' => call'.type # "none")
  PROVE  CallInv'
  BY DEF CallInv, InCall, UndisturbedCallSucceeds, Undisturbed

\* The call of a session that is not in one.
NotInCall(pc, result) ==
    [pc |-> pc, type |-> "none", id |-> 0, attempt |-> 0, resynced |-> FALSE,
     lastErr |-> "timeout", result |-> result, disturbed |-> FALSE, began |-> 0]

LEMMA NotInCallFields ==
  ASSUME NEW pc \in {"closed", "discovering", "idle"}, NEW result \in Results
  PROVE  /\ NotInCall(pc, result) \in CallRecords
         /\ NotInCall(pc, result).pc = pc /\ NotInCall(pc, result).type = "none"
  BY DEF NotInCall, CallRecords, Results

LEMMA ReceiveCallInv ==
  ASSUME TimeInv, CallInv, NEW m, NEW again \in BOOLEAN, Receive(m, again) PROVE CallInv'
<1>1. /\ call.pc \in {"wait", "discovering"} /\ m \in answers
      /\ copies' = IF again THEN copies + 1 ELSE copies
      /\ answers' = IF again THEN answers ELSE answers \ {m}
      /\ IF call.pc = "discovering" THEN Discovered(m) ELSE Digest(m)
      /\ UNCHANGED <<daemonVars, client, calls, requests, executed>>
  BY DEF Receive
<1>2. calls' \in Int /\ copies' \in Nat
  BY <1>1 DEF CallInv
<1>3. CASE call.pc = "discovering"
  <2>1. \/ call' = [NoCall EXCEPT !.result = "authFailure"]
        \/ call' = [NoCall EXCEPT !.pc = "idle", !.result = "opened"]
    BY <1>1, <1>3, Zenon DEF Discovered
  <2>2. call' = NotInCall("closed", "authFailure") \/ call' = NotInCall("idle", "opened")
    BY <2>1 DEF NoCall, NotInCall
  <2>3. /\ call' \in CallRecords /\ call'.pc \in {"closed", "idle"} /\ call'.type = "none"
    BY <2>2, NotInCallFields DEF Results
  <2> QED
    BY <1>2, <2>3, NoPromise
<1>4. CASE call.pc = "wait" /\ ~again
  BY <1>1, <1>4, DigestCallInv
<1>5. CASE call.pc = "wait" /\ again
  <2>1. /\ call' \in CallRecords /\ call'.pc \in {"send", "idle"}
        /\ call'.pc = "send" => call'.type = call.type
    BY <1>1, <1>5, DigestTypes DEF CallInv
  <2>2. call.type # "none"
    BY <1>5 DEF CallInv, InCall
  <2>3. copies' # 0
    BY <1>1, <1>5 DEF CallInv
  <2> QED
    BY <1>2, <2>1, <2>2, <2>3, NoPromise DEF InCall
<1> QED
  BY <1>1, <1>3, <1>4, <1>5

LEMMA TimeoutCallInv ==
  ASSUME CallInv, Timeout PROVE CallInv'
<1>1. calls' \in Int /\ copies' \in Nat
  BY DEF Timeout, CallInv
<1>2. CASE call.pc = "discovering"
  <2>1. call' = [NoCall EXCEPT !.result = "timeout"]
    BY <1>2 DEF Timeout
  <2>2. call' = NotInCall("closed", "timeout")
    BY <2>1 DEF NoCall, NotInCall
  <2>3. call' \in CallRecords /\ call'.pc = "closed"
    BY <2>2, NotInCallFields DEF Results
  <2> QED
    BY <1>1, <2>3, NoPromise
<1>3. CASE call.pc = "wait"
  <2>1. PICK c : c = [call EXCEPT !.lastErr = "timeout", !.disturbed = TRUE]
    OBVIOUS
  <2>2. PICK err \in Results, late \in BOOLEAN : err = "timeout" /\ late = TRUE
    BY DEF Results
  <2>3. c = [call EXCEPT !.lastErr = err, !.disturbed = late]
    BY <2>1, <2>2
  <2>4. c \in CallRecords /\ c.type = call.type /\ c.disturbed
    BY <2>2, <2>3 DEF CallInv, CallRecords
  <2>5. call' = NextAttempt(c)
    BY <1>3, <2>1 DEF Timeout
  <2>6. /\ call' \in CallRecords /\ call'.disturbed /\ call'.pc \in {"send", "idle"}
        /\ call'.pc = "send" => call'.type = call.type
    BY <2>4, <2>5, AttemptFields DEF CallInv
  <2>7. call.type # "none"
    BY <1>3 DEF CallInv, InCall
  <2> QED
    BY <1>1, <2>6, <2>7, NoPromise DEF InCall
<1> QED
  BY <1>2, <1>3 DEF Timeout

LEMMA OpenCallInv ==
  ASSUME CallInv, Open PROVE CallInv'
<1>1. call' = [NoCall EXCEPT !.pc = "discovering"] /\ calls' = calls + 1 /\ copies' = copies
  BY DEF Open
<1>2. call' = NotInCall("discovering", "none")
  BY <1>1 DEF NoCall, NotInCall
<1>3. call' \in CallRecords /\ call'.pc = "discovering"
  BY <1>2, NotInCallFields DEF Results
<1> QED
  BY <1>1, <1>3, NoPromise DEF CallInv

LEMMA NextCallInv ==
  ASSUME NamesIdentify, TimeInv, CallInv, [Next]_vars PROVE CallInv'
<1>1. CASE DaemonStep \/ TimePasses
  BY <1>1, DisturbCallInv
<1>2. CASE Open
  BY <1>2, OpenCallInv
<1>3. ASSUME NEW type \in {"get", "set"}, Begin(type) PROVE CallInv'
  BY <1>3, BeginCallInv
<1>4. CASE Session
  <2>1. ASSUME NEW m \in answers, NEW again \in BOOLEAN, Receive(m, again) PROVE CallInv'
    BY <2>1, ReceiveCallInv
  <2> QED
    BY <1>4, <2>1, SendCallInv, TimeoutCallInv DEF Session
<1>5. ASSUME NEW m \in requests, NEW again \in BOOLEAN, Handle(m, again) PROVE CallInv'
  BY <1>5, HandleCallInv
<1>6. CASE UNCHANGED vars
  BY <1>6, CallFrame DEF vars, daemonVars, sessionVars, TimeInv, CallInv
<1> QED
  BY <1>1, <1>2, <1>3, <1>4, <1>5, <1>6 DEF Next

\* For every set of accounts in which a name identifies a user, every window and any
\* number of retries but none: a call made with an account of the agent, which nothing
\* disturbs, succeeds, although the agent may have restarted before it and the session's
\* notion of the engine time may be arbitrarily wrong (V3Session::request).
THEOREM ResyncSucceeds == NamesIdentify => (Spec => []UndisturbedCallSucceeds)
<1> SUFFICES ASSUME NamesIdentify PROVE Spec => []UndisturbedCallSucceeds
  OBVIOUS
<1>1. Init => TimeInv
  BY DEF Init, DaemonInit, TimeInv, Timely, ExecutedInTime, Engines
<1>2. Init => CallInv
  <2> SUFFICES ASSUME Init PROVE CallInv
    OBVIOUS
  <2>1. call = NoCall /\ calls = 0 /\ copies = 0
    BY DEF Init
  <2>2. call \in CallRecords /\ call.pc = "closed"
    BY <2>1 DEF NoCall, CallRecords, Results
  <2> QED
    BY <2>1, <2>2 DEF CallInv, InCall, UndisturbedCallSucceeds
<1>3. TimeInv /\ CallInv /\ [Next]_vars => CallInv'
  BY NextCallInv
<1>4. CallInv => UndisturbedCallSucceeds
  BY DEF CallInv
<1> QED
  BY <1>1, <1>2, <1>3, <1>4, NextTimeInv, PTL DEF Spec
=============================================================================
