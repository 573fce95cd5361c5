---------------------------- MODULE DismanProofs ----------------------------
(***************************************************************************)
(* Proofs about the DISMAN engines, for any number of management threads,  *)
(* poll tasks, rows and alarms: an entry of the scheduler has one alarm,   *)
(* and a threshold trigger fires once for each rise.                       *)
(***************************************************************************)
EXTENDS Disman, TLAPS

---------------------------------------------------------------------------
(* Types of the scheduler.                                                 *)

Alarms  == [pc : {"sleep", "count", "act", "gone"}, cancelled : BOOLEAN, row : Nat]
Entries == [row : Nat, enabled : BOOLEAN, gated : BOOLEAN, fires : Nat]
Ops     == {"none", "add", "start", "remove"}
Calls   == [op : Ops, pc : {"idle", "read", "cancel", "alarm", "remove"}]
           \cup [op : Ops, pc : {"store"}, id : Nat]

SchedTypes ==
    /\ alarms \in Seq(Alarms) /\ registry \subseteq Nat /\ alarmId \subseteq Nat
    /\ entry \in Seq(Entries) /\ call \in [Threads -> Calls]
    /\ rows \in Nat /\ overlap \in BOOLEAN

\* An alarm that is still to fire.
Live == {i \in Ids : ~alarms[i].cancelled}

\* What alarm.rs and schedule.rs know of the live alarms: the registry has them all,
\* and a thread that is alone on the scheduler knows where they are.
Registered == Live \subseteq registry

OneCaller == \A t, u \in Threads : ~Idle(t) /\ ~Idle(u) => t = u

Cleared(t) == call[t].pc \in {"alarm", "remove"} => Live = {}

Started(t) == call[t].pc = "store" => Live \subseteq {call[t].id}

Quiet(t) == call[t].pc \in {"idle", "read", "cancel"}

Stored == (\A t \in Threads : Quiet(t)) => Live \subseteq alarmId

Alone == OneCaller /\ (\A t \in Threads : Cleared(t) /\ Started(t)) /\ Stored

SchedInv == SchedTypes /\ Registered /\ (~overlap => Alone)

---------------------------------------------------------------------------
(* The alarms.                                                             *)

\* Cancelling takes the registered ones of the given ids out of the live alarms.
LEMMA CancelAllProperties ==
  ASSUME SchedTypes, NEW ids, CancelAll(ids)
  PROVE  /\ alarms' \in Seq(Alarms) /\ registry' \subseteq Nat
         /\ Live' = Live \ (ids \cap registry) /\ registry' = registry \ ids
<1>1. alarms \in Seq(Alarms) /\ registry \subseteq Nat /\ Len(alarms) \in Nat /\ Ids = 1..Len(alarms)
  BY DEF SchedTypes, Ids
<1>2. ASSUME NEW a \in Alarms PROVE Cancelled(a) \in Alarms /\ Cancelled(a).cancelled
  <2>1. PICK pc \in {"sleep", "count", "act", "gone"} : pc = IF a.pc = "sleep" THEN "gone" ELSE a.pc
    BY DEF Alarms
  <2>2. Cancelled(a) = [a EXCEPT !.cancelled = TRUE, !.pc = pc]
    BY <2>1 DEF Cancelled, Alarms
  <2>3. Cancelled(a) = [pc |-> pc, cancelled |-> TRUE, row |-> a.row]
    BY <2>2 DEF Alarms
  <2> QED
    BY <2>3 DEF Alarms
<1>3. /\ alarms' = [i \in Ids |-> IF i \in ids \cap registry THEN Cancelled(alarms[i]) ELSE alarms[i]]
      /\ registry' = registry \ ids
  BY DEF CancelAll
<1>4. \A i \in 1..Len(alarms) : alarms[i] \in Alarms /\ Cancelled(alarms[i]) \in Alarms /\ Cancelled(alarms[i]).cancelled
  BY <1>1, <1>2
<1>5. alarms' \in Seq(Alarms) /\ Ids' = Ids
  <2>1. alarms' \in [1..Len(alarms) -> Alarms]
    BY <1>1, <1>3, <1>4
  <2> QED
    BY <1>1, <2>1 DEF Ids
<1>6. \A i \in Ids : alarms'[i].cancelled = (alarms[i].cancelled \/ i \in ids \cap registry)
  <2> SUFFICES ASSUME NEW i \in Ids PROVE alarms'[i].cancelled = (alarms[i].cancelled \/ i \in ids \cap registry)
    OBVIOUS
  <2>1. PICK a \in Alarms : a = alarms[i] /\ a.cancelled \in BOOLEAN
    BY <1>1, <1>4 DEF Alarms
  <2>2. CASE i \in ids \cap registry
    BY <1>1, <1>2, <1>3, <2>1, <2>2
  <2>3. CASE i \notin ids \cap registry
    BY <1>1, <1>3, <2>1, <2>3
  <2> QED
    BY <2>2, <2>3
<1> QED
  BY <1>1, <1>3, <1>5, <1>6 DEF Live

\* A new alarm is live and registered.
LEMMA AddAlarmProperties ==
  ASSUME SchedTypes, AddAlarm
  PROVE  /\ alarms' \in Seq(Alarms) /\ registry' \subseteq Nat /\ Len(alarms) + 1 \in Nat
         /\ Live' = Live \cup {Len(alarms) + 1} /\ registry' = registry \cup {Len(alarms) + 1}
<1>1. alarms \in Seq(Alarms) /\ registry \subseteq Nat /\ Len(alarms) \in Nat
  BY DEF SchedTypes
<1>2. NewAlarm \in Alarms /\ NewAlarm.cancelled = FALSE
  BY DEF NewAlarm, Alarms
<1>3. alarms' = Append(alarms, NewAlarm) /\ registry' = registry \cup {Len(alarms) + 1}
  BY DEF AddAlarm
<1>4. /\ alarms' \in Seq(Alarms) /\ Ids' = Ids \cup {Len(alarms) + 1}
      /\ \A i \in Ids : alarms'[i] = alarms[i]
      /\ alarms'[Len(alarms) + 1] = NewAlarm
  BY <1>1, <1>2, <1>3 DEF Ids
<1>5. Live' = Live \cup {Len(alarms) + 1}
  <2>1. PICK n : n = Len(alarms) + 1
    OBVIOUS
  <2>2. \A i \in Ids : alarms'[i].cancelled = alarms[i].cancelled
    BY <1>4
  <2>3. ~alarms'[n].cancelled /\ Ids' = Ids \cup {n}
    BY <1>2, <1>4, <2>1
  <2>4. Live' = Live \cup {n}
    <3>1. Live' = {i \in Ids \cup {n} : ~alarms'[i].cancelled}
      BY <2>3 DEF Live
    <3>2. Live = {i \in Ids : ~alarms'[i].cancelled}
      BY <2>2 DEF Live
    <3> QED
      BY <2>3, <3>1, <3>2
  <2> QED
    BY <2>1, <2>4
<1>6. Len(alarms) + 1 \in Nat
  BY <1>1
<1>7. registry' \subseteq Nat
  BY <1>1, <1>3, <1>6
<1> QED
  BY <1>3, <1>4, <1>5, <1>6, <1>7

\* The task of an alarm that wakes up, counts and acts cancels nothing.
LEMMA AlarmStepProperties ==
  ASSUME SchedTypes, NEW i \in Ids, AlarmStep(i) \/ WakeAtMatch(i)
  PROVE  SchedTypes' /\ Live' = Live /\ UNCHANGED <<registry, alarmId, call, overlap>>
<1>1. /\ alarms \in Seq(Alarms) /\ entry \in Seq(Entries) /\ Len(alarms) \in Nat
      /\ i \in 1..Len(alarms) /\ alarms[i] \in Alarms /\ Ids = 1..Len(alarms)
  BY DEF SchedTypes, Ids
<1>2. UNCHANGED <<registry, alarmId, call, rows, overlap>>
  BY DEF AlarmStep, Wake, WakeAtMatch, Count, Act
<1>3. PICK a : a = alarms[i]
  OBVIOUS
<1>4. ASSUME NEW pc \in {"sleep", "count", "act", "gone"}, NEW row \in Nat, NEW b,
             b = [a EXCEPT !.pc = pc, !.row = row]
      PROVE  b \in Alarms /\ b.cancelled = a.cancelled
  BY <1>1, <1>3, <1>4 DEF Alarms
<1>5. ASSUME NEW pc \in {"sleep", "count", "act", "gone"}, NEW b, b = [a EXCEPT !.pc = pc]
      PROVE  b \in Alarms /\ b.cancelled = a.cancelled
  BY <1>1, <1>3, <1>5 DEF Alarms
<1>6. entry' \in Seq(Entries) /\ \E b \in Alarms : alarms' = [alarms EXCEPT ![i] = b] /\ b.cancelled = a.cancelled
  <2>0. ASSUME entry # <<>>, entry' = entry, alarms' = [alarms EXCEPT ![i] = Firing(a)]
        PROVE  entry' \in Seq(Entries) /\ \E b \in Alarms : alarms' = [alarms EXCEPT ![i] = b] /\ b.cancelled = a.cancelled
    <3>1. PICK row \in Nat : row = entry[1].row
      <4>1. entry[1] \in Entries
        BY <1>1, <2>0
      <4> QED
        BY <4>1 DEF Entries
    <3>2. PICK b : b = [a EXCEPT !.pc = "count", !.row = row]
      OBVIOUS
    <3>3. b \in Alarms /\ b.cancelled = a.cancelled
      BY <1>4, <3>2
    <3>4. Firing(a) = b
      BY <3>1, <3>2 DEF Firing
    <3> QED
      BY <1>1, <2>0, <3>3, <3>4
  <2>1. CASE Wake(i)
    <3>0. entry' = entry
      BY <2>1 DEF Wake
    <3>1. CASE a.cancelled
      <4>1. alarms' = [alarms EXCEPT ![i] = [a EXCEPT !.pc = "gone"]]
        BY <1>1, <1>3, <2>1, <3>1 DEF Wake
      <4> QED
        BY <1>1, <1>5, <3>0, <4>1
    <3>2. CASE ~a.cancelled /\ entry = <<>>
      <4>1. alarms' = [alarms EXCEPT ![i] = a]
        BY <1>1, <1>3, <2>1, <3>2 DEF Wake
      <4> QED
        BY <1>1, <1>3, <3>0, <4>1
    <3>3. CASE ~a.cancelled /\ entry # <<>>
      <4>1. alarms' = [alarms EXCEPT ![i] = Firing(a)]
        BY <1>1, <1>3, <2>1, <3>3 DEF Wake
      <4> QED
        BY <2>0, <3>0, <3>3, <4>1
    <3> QED
      BY <3>1, <3>2, <3>3
  <2>4. CASE WakeAtMatch(i)
    <3>1. entry # <<>> /\ entry' = entry /\ alarms' = [alarms EXCEPT ![i] = Firing(a)]
      BY <1>1, <1>3, <2>4 DEF WakeAtMatch
    <3> QED
      BY <2>0, <3>1
  <2>2. CASE Count(i)
    <3>1. alarms' = [alarms EXCEPT ![i] = [a EXCEPT !.pc = "act"]]
      BY <1>1, <1>3, <2>2 DEF Count
    <3>2. entry' \in Seq(Entries)
      <4>1. CASE entry = <<>>
        BY <1>1, <2>2, <4>1 DEF Count
      <4>2. CASE entry # <<>>
        <5>1. PICK e \in Entries : e = entry[1]
          BY <1>1, <4>2
        <5>2. PICK n \in Nat : n = IF e.fires < MaxCount THEN e.fires + 1 ELSE e.fires
          BY <5>1 DEF Entries
        <5>3. entry' = <<[e EXCEPT !.fires = n]>>
          BY <2>2, <4>2, <5>1, <5>2 DEF Count, Entries
        <5> QED
          BY <5>1, <5>2, <5>3 DEF Entries
      <4> QED
        BY <4>1, <4>2
    <3> QED
      BY <1>1, <1>5, <3>1, <3>2
  <2>3. CASE Act(i)
    <3>1. PICK pc \in {"sleep", "gone"} : pc = IF alarms[i].cancelled THEN "gone" ELSE "sleep"
      OBVIOUS
    <3>2. alarms' = [alarms EXCEPT ![i] = [a EXCEPT !.pc = pc, !.row = 0]] /\ entry' = entry
      BY <1>1, <1>3, <2>3, <3>1 DEF Act
    <3> QED
      <4>1. PICK b : b = [a EXCEPT !.pc = pc, !.row = 0]
        OBVIOUS
      <4>2. b \in Alarms /\ b.cancelled = a.cancelled
        BY <1>4, <3>1, <4>1
      <4> QED
        BY <1>1, <3>2, <4>1, <4>2
  <2> QED
    BY <2>1, <2>2, <2>3, <2>4 DEF AlarmStep
<1>7. PICK b \in Alarms : alarms' = [alarms EXCEPT ![i] = b] /\ b.cancelled = a.cancelled
  BY <1>6
<1>8. /\ alarms' \in Seq(Alarms) /\ Ids' = Ids
      /\ \A j \in Ids : alarms'[j].cancelled = alarms[j].cancelled
  BY <1>1, <1>3, <1>7 DEF Ids
<1> QED
  BY <1>2, <1>6, <1>8 DEF Live, SchedTypes

---------------------------------------------------------------------------
(* The calls.                                                              *)

\* The call of a thread is where it is said to be, and the others stay.
CallTo(t, pc) ==
    /\ call' \in [Threads -> Calls]
    /\ call'[t].pc = pc
    /\ \A u \in Threads \ {t} : call'[u] = call[u]

\* A call that goes on.
LEMMA GoProperties ==
  ASSUME SchedTypes, NEW t \in Threads, NEW pc \in {"idle", "cancel", "alarm"},
         call[t].pc # "store", Go(t, pc)
  PROVE  CallTo(t, pc)
<1>1. call[t] \in [op : Ops, pc : {"idle", "read", "cancel", "alarm", "remove"}]
  BY DEF SchedTypes, Calls
<1>2. PICK c : c = [call[t] EXCEPT !.pc = pc]
  OBVIOUS
<1>3. c \in Calls /\ c.pc = pc
  BY <1>1, <1>2 DEF Calls
<1>4. call' = [call EXCEPT ![t] = c]
  BY <1>2 DEF Go, SchedTypes
<1> QED
  BY <1>3, <1>4 DEF CallTo, SchedTypes

\* A call that begins, and whether it meets another.
LEMMA EnterProperties ==
  ASSUME SchedTypes, NEW t \in Threads, NEW op \in Ops, NEW pc \in {"read", "remove"}, Enter(t, op, pc)
  PROVE  /\ CallTo(t, pc) /\ overlap' \in BOOLEAN
         /\ ~overlap' => ~overlap /\ \A u \in Threads \ {t} : Idle(u)
<1>1. PICK c : c = [op |-> op, pc |-> pc]
  OBVIOUS
<1>2. c \in Calls /\ c.pc = pc
  BY <1>1 DEF Calls
<1>3. call' = [call EXCEPT ![t] = c] /\ overlap' = (overlap \/ \E u \in Threads \ {t} : ~Idle(u))
  BY <1>1 DEF Enter
<1>4. CallTo(t, pc)
  BY <1>2, <1>3 DEF CallTo, SchedTypes
<1> QED
  BY <1>3, <1>4 DEF SchedTypes

\* A thread that is alone before and after its step only has to account for itself.
LEMMA AloneStep ==
  ASSUME NEW t \in Threads, NEW pc, CallTo(t, pc), \A u \in Threads \ {t} : Idle(u),
         pc \in {"alarm", "remove"} => Live' = {},
         pc = "store" => Live' \subseteq {call'[t].id},
         pc \in {"idle", "read", "cancel"} => Live' \subseteq alarmId'
  PROVE  Alone'
<1>1. \A u \in Threads \ {t} : call'[u].pc = "idle"
  BY DEF CallTo, Idle
<1>2. OneCaller'
  BY <1>1 DEF OneCaller, Idle
<1>3. \A u \in Threads : Cleared(u)' /\ Started(u)'
  BY <1>1 DEF Cleared, Started, CallTo
<1>4. Stored'
  BY DEF Stored, Quiet, CallTo
<1> QED
  BY <1>2, <1>3, <1>4 DEF Alone

\* What a thread that is alone knows of the live alarms.
LEMMA AloneKnows ==
  ASSUME SchedInv, ~overlap, NEW t \in Threads
  PROVE  /\ ~Idle(t) => \A u \in Threads \ {t} : Idle(u)
         /\ (\A u \in Threads \ {t} : Idle(u)) /\ Quiet(t) => Live \subseteq alarmId
         /\ Cleared(t) /\ Started(t)
<1>1. Alone
  BY DEF SchedInv
<1>2. ~Idle(t) => \A u \in Threads \ {t} : Idle(u)
  BY <1>1 DEF Alone, OneCaller
<1>3. (\A u \in Threads \ {t} : Idle(u)) /\ Quiet(t) => Live \subseteq alarmId
  BY <1>1 DEF Alone, Stored, Quiet, Idle
<1> QED
  BY <1>1, <1>2, <1>3 DEF Alone

\* Every step of the scheduler keeps the alarms accounted for.
LEMMA ScheduleStep ==
  ASSUME SchedInv, Schedule
  PROVE  SchedInv'
<1>0. SchedTypes /\ Registered
  BY DEF SchedInv
<1>1. ASSUME NEW t \in Threads, NEW enabled \in BOOLEAN, NEW gated \in BOOLEAN, AddEntry(t, enabled, gated) PROVE SchedInv'
  <2>1. /\ Idle(t) /\ rows' = rows + 1 /\ Enter(t, "add", "read")
        /\ entry' = <<[row |-> rows + 1, enabled |-> enabled, gated |-> gated, fires |-> 0]>>
        /\ UNCHANGED <<alarms, registry, alarmId>>
    BY <1>1 DEF AddEntry
  <2>2. CallTo(t, "read") /\ overlap' \in BOOLEAN /\ (~overlap' => ~overlap /\ \A u \in Threads \ {t} : Idle(u))
    BY <1>0, <2>1, EnterProperties DEF Ops
  <2>3. SchedTypes'
    <3>1. rows' \in Nat /\ [row |-> rows + 1, enabled |-> enabled, gated |-> gated, fires |-> 0] \in Entries
      BY <1>0, <2>1 DEF SchedTypes, Entries
    <3> QED
      BY <1>0, <2>1, <2>2, <3>1 DEF SchedTypes, CallTo
  <2>4. Live' = Live /\ registry' = registry /\ alarmId' = alarmId
    BY <2>1 DEF Live, Ids
  <2>5. ~overlap' => Alone'
    <3> SUFFICES ASSUME ~overlap' PROVE Alone'
      OBVIOUS
    <3>1. Live' \subseteq alarmId'
      BY <2>1, <2>2, <2>4, AloneKnows DEF Quiet, Idle
    <3> QED
      BY <2>2, <3>1, AloneStep
  <2> QED
    BY <1>0, <2>3, <2>4, <2>5 DEF SchedInv, Registered
<1>2. ASSUME NEW t \in Threads, Start(t) PROVE SchedInv'
  <2>1. Idle(t) /\ Enter(t, "start", "read") /\ UNCHANGED <<alarms, registry, entry, alarmId, rows>>
    BY <1>2 DEF Start
  <2>2. CallTo(t, "read") /\ overlap' \in BOOLEAN /\ (~overlap' => ~overlap /\ \A u \in Threads \ {t} : Idle(u))
    BY <1>0, <2>1, EnterProperties DEF Ops
  <2>3. SchedTypes'
    BY <1>0, <2>1, <2>2 DEF SchedTypes, CallTo
  <2>4. Live' = Live /\ registry' = registry /\ alarmId' = alarmId
    BY <2>1 DEF Live, Ids
  <2>5. ~overlap' => Alone'
    <3> SUFFICES ASSUME ~overlap' PROVE Alone'
      OBVIOUS
    <3>1. Live' \subseteq alarmId'
      BY <2>1, <2>2, <2>4, AloneKnows DEF Quiet, Idle
    <3> QED
      BY <2>2, <3>1, AloneStep
  <2> QED
    BY <1>0, <2>3, <2>4, <2>5 DEF SchedInv, Registered
<1>3. ASSUME NEW t \in Threads, RemoveAlarm(t) PROVE SchedInv'
  <2>1. /\ Idle(t) /\ CancelAll(alarmId) /\ alarmId' = {} /\ Enter(t, "remove", "remove")
        /\ UNCHANGED <<entry, rows>>
    BY <1>3 DEF RemoveAlarm
  <2>2. CallTo(t, "remove") /\ overlap' \in BOOLEAN /\ (~overlap' => ~overlap /\ \A u \in Threads \ {t} : Idle(u))
    BY <1>0, <2>1, EnterProperties DEF Ops
  <2>3. /\ alarms' \in Seq(Alarms) /\ registry' \subseteq Nat
        /\ Live' = Live \ (alarmId \cap registry) /\ registry' = registry \ alarmId
    BY <1>0, <2>1, CancelAllProperties
  <2>4. SchedTypes'
    BY <1>0, <2>1, <2>2, <2>3 DEF SchedTypes, CallTo
  <2>5. ~overlap' => Alone'
    <3> SUFFICES ASSUME ~overlap' PROVE Alone'
      OBVIOUS
    <3>1. Live \subseteq alarmId
      BY <2>1, <2>2, AloneKnows DEF Quiet, Idle
    <3>2. Live' = {}
      BY <1>0, <2>3, <3>1 DEF Registered
    <3> QED
      BY <2>2, <3>2, AloneStep
  <2> QED
    BY <1>0, <2>3, <2>4, <2>5 DEF SchedInv, Registered
<1>4. ASSUME NEW t \in Threads, ReadEntry(t) PROVE SchedInv'
  <2>1. PICK pc \in {"cancel", "idle"} : pc = IF entry # <<>> /\ entry[1].enabled THEN "cancel" ELSE "idle"
    OBVIOUS
  <2>2. call[t].pc = "read" /\ Go(t, pc) /\ UNCHANGED <<alarms, registry, entry, alarmId, rows, overlap>>
    BY <1>4, <2>1 DEF ReadEntry
  <2>3. CallTo(t, pc)
    BY <1>0, <2>2, GoProperties
  <2>4. SchedTypes' /\ Live' = Live
    BY <1>0, <2>2, <2>3 DEF SchedTypes, CallTo, Live, Ids
  <2>5. ~overlap' => Alone'
    <3> SUFFICES ASSUME ~overlap PROVE Alone'
      BY <2>2
    <3>1. (\A u \in Threads \ {t} : Idle(u)) /\ Live \subseteq alarmId
      BY <2>2, AloneKnows DEF Quiet, Idle
    <3>2. Live' \subseteq alarmId'
      BY <2>2, <2>4, <3>1
    <3> QED
      BY <2>3, <3>1, <3>2, AloneStep
  <2> QED
    BY <1>0, <2>2, <2>4, <2>5 DEF SchedInv, Registered
<1>5. ASSUME NEW t \in Threads, CancelOld(t) PROVE SchedInv'
  <2>1. /\ call[t].pc = "cancel" /\ CancelAll(alarmId) /\ alarmId' = {} /\ Go(t, "alarm")
        /\ UNCHANGED <<entry, rows, overlap>>
    BY <1>5 DEF CancelOld
  <2>2. CallTo(t, "alarm")
    BY <1>0, <2>1, GoProperties
  <2>3. /\ alarms' \in Seq(Alarms) /\ registry' \subseteq Nat
        /\ Live' = Live \ (alarmId \cap registry) /\ registry' = registry \ alarmId
    BY <1>0, <2>1, CancelAllProperties
  <2>4. SchedTypes'
    BY <1>0, <2>1, <2>2, <2>3 DEF SchedTypes, CallTo
  <2>5. ~overlap' => Alone'
    <3> SUFFICES ASSUME ~overlap PROVE Alone'
      BY <2>1
    <3>1. (\A u \in Threads \ {t} : Idle(u)) /\ Live \subseteq alarmId
      BY <2>1, AloneKnows DEF Quiet, Idle
    <3>2. Live' = {}
      BY <1>0, <2>3, <3>1 DEF Registered
    <3> QED
      BY <2>2, <3>1, <3>2, AloneStep
  <2> QED
    BY <1>0, <2>3, <2>4, <2>5 DEF SchedInv, Registered
<1>6. ASSUME NEW t \in Threads, RegisterAlarm(t) PROVE SchedInv'
  <2>1. /\ call[t].pc = "alarm" /\ AddAlarm /\ UNCHANGED <<entry, alarmId, rows, overlap>>
        /\ call' = [call EXCEPT ![t] = [op |-> @.op, pc |-> "store", id |-> Len(alarms) + 1]]
    BY <1>6 DEF RegisterAlarm
  <2>2. /\ alarms' \in Seq(Alarms) /\ registry' \subseteq Nat /\ Len(alarms) + 1 \in Nat
        /\ Live' = Live \cup {Len(alarms) + 1} /\ registry' = registry \cup {Len(alarms) + 1}
    BY <1>0, <2>1, AddAlarmProperties
  <2>3. PICK c \in Calls : c.pc = "store" /\ c.id = Len(alarms) + 1 /\ call' = [call EXCEPT ![t] = c]
    <3>1. call[t].op \in Ops
      BY <1>0 DEF SchedTypes, Calls
    <3>2. [op |-> call[t].op, pc |-> "store", id |-> Len(alarms) + 1] \in Calls
      BY <2>2, <3>1 DEF Calls
    <3> QED
      BY <1>0, <2>1, <3>2 DEF SchedTypes
  <2>4. CallTo(t, "store") /\ call'[t].id = Len(alarms) + 1
    BY <1>0, <2>3 DEF CallTo, SchedTypes
  <2>5. SchedTypes'
    BY <1>0, <2>1, <2>2, <2>4 DEF SchedTypes, CallTo
  <2>6. ~overlap' => Alone'
    <3> SUFFICES ASSUME ~overlap PROVE Alone'
      BY <2>1
    <3>1. (\A u \in Threads \ {t} : Idle(u)) /\ Live = {}
      BY <2>1, AloneKnows DEF Cleared, Idle
    <3>2. Live' \subseteq {call'[t].id}
      BY <2>2, <2>4, <3>1
    <3> QED
      BY <2>4, <3>1, <3>2, AloneStep
  <2> QED
    BY <1>0, <2>2, <2>5, <2>6 DEF SchedInv, Registered
<1>7. ASSUME NEW t \in Threads, StoreId(t) PROVE SchedInv'
  <2>1. /\ call[t].pc = "store" /\ alarmId' = {call[t].id} /\ call' = [call EXCEPT ![t] = NoCall]
        /\ UNCHANGED <<alarms, registry, entry, rows, overlap>>
    BY <1>7 DEF StoreId
  <2>2. NoCall \in Calls /\ NoCall.pc = "idle" /\ call[t].id \in Nat
    BY <1>0, <2>1 DEF NoCall, Calls, Ops, SchedTypes
  <2>3. CallTo(t, "idle")
    BY <1>0, <2>1, <2>2 DEF CallTo, SchedTypes
  <2>4. SchedTypes' /\ Live' = Live
    BY <1>0, <2>1, <2>2, <2>3 DEF SchedTypes, CallTo, Live, Ids
  <2>5. ~overlap' => Alone'
    <3> SUFFICES ASSUME ~overlap PROVE Alone'
      BY <2>1
    <3>1. (\A u \in Threads \ {t} : Idle(u)) /\ Live \subseteq {call[t].id}
      BY <2>1, AloneKnows DEF Started, Idle
    <3>2. Live' \subseteq alarmId'
      BY <2>1, <2>4, <3>1
    <3> QED
      BY <2>3, <3>1, <3>2, AloneStep
  <2> QED
    BY <1>0, <2>1, <2>4, <2>5 DEF SchedInv, Registered
<1>8. ASSUME NEW t \in Threads, RemoveEntry(t) PROVE SchedInv'
  <2>1. /\ call[t].pc = "remove" /\ entry' = <<>> /\ Go(t, "idle")
        /\ UNCHANGED <<alarms, registry, alarmId, rows, overlap>>
    BY <1>8 DEF RemoveEntry
  <2>2. CallTo(t, "idle")
    BY <1>0, <2>1, GoProperties
  <2>3. SchedTypes' /\ Live' = Live
    BY <1>0, <2>1, <2>2 DEF SchedTypes, CallTo, Live, Ids
  <2>4. ~overlap' => Alone'
    <3> SUFFICES ASSUME ~overlap PROVE Alone'
      BY <2>1
    <3>1. (\A u \in Threads \ {t} : Idle(u)) /\ Live = {}
      BY <2>1, AloneKnows DEF Cleared, Idle
    <3>2. Live' \subseteq alarmId'
      BY <2>3, <3>1
    <3> QED
      BY <2>2, <3>1, <3>2, AloneStep
  <2> QED
    BY <1>0, <2>1, <2>3, <2>4 DEF SchedInv, Registered
<1>9. ASSUME NEW i \in Ids, AlarmStep(i) \/ WakeAtMatch(i) PROVE SchedInv'
  <2>1. SchedTypes' /\ Live' = Live /\ UNCHANGED <<registry, alarmId, call, overlap>>
    BY <1>0, <1>9, AlarmStepProperties
  <2>2. ~overlap => Alone'
    BY <2>1 DEF SchedInv, Alone, OneCaller, Cleared, Started, Stored, Quiet, Idle
  <2> QED
    BY <1>0, <2>1, <2>2 DEF SchedInv, Registered
<1> QED
  BY <1>1, <1>2, <1>3, <1>4, <1>5, <1>6, <1>7, <1>8, <1>9 DEF Schedule, CallStep

(* While no two calls on the scheduler overlap, the only alarm that can    *)
(* still fire is the one remove_entry will cancel (spawn_alarm), whatever  *)
(* the number of rows, alarms and calls, and wherever the callbacks of the *)
(* cancelled alarms are.                                                   *)
THEOREM AlarmIsKnown == Spec => []OneAlarmPerEntry
<1>1. Init => SchedInv
  <2> SUFFICES ASSUME Init PROVE SchedInv
    OBVIOUS
  <2>1. alarms = <<>> /\ Ids = {} /\ Live = {}
    BY DEF Init, Live, Ids
  <2>2. NoCall \in Calls /\ NoCall.pc = "idle"
    BY DEF NoCall, Calls, Ops
  <2>3. SchedTypes
    <3>1. /\ alarms = <<>> /\ registry = {} /\ entry = <<>> /\ alarmId = {}
          /\ call = [t \in Threads |-> NoCall] /\ rows = 0 /\ overlap = FALSE
      BY DEF Init
    <3>2. call \in [Threads -> Calls]
      BY <2>2, <3>1
    <3>3. <<>> \in Seq(Alarms) /\ <<>> \in Seq(Entries)
      OBVIOUS
    <3> QED
      BY <3>1, <3>2, <3>3 DEF SchedTypes
  <2>4. Alone
    BY <2>1, <2>2 DEF Init, Alone, OneCaller, Cleared, Started, Stored, Idle
  <2> QED
    BY <2>1, <2>3, <2>4 DEF SchedInv, Registered
<1>2. SchedInv /\ [Next]_vars => SchedInv'
  <2> SUFFICES ASSUME SchedInv, [Next]_vars PROVE SchedInv'
    OBVIOUS
  <2>1. ASSUME UNCHANGED <<alarms, registry, entry, alarmId, call>>, rows' \in Nat,
               overlap' \in BOOLEAN, ~overlap' => ~overlap
        PROVE  SchedInv'
    BY <2>1 DEF SchedInv, SchedTypes, Registered, Live, Ids, Alone, OneCaller, Cleared, Started,
                Stored, Quiet, Idle
  <2>2. CASE Event
    <3>1. UNCHANGED schedVars
      BY <2>2 DEF Event, AddTrigger, RemoveTrigger, BeginPoll, PollStep, Sample, WriteBack, Fire, Change
    <3>2. rows' \in Nat /\ overlap' \in BOOLEAN /\ (~overlap' => ~overlap)
      <4>1. rows \in Nat /\ overlap \in BOOLEAN
        BY DEF SchedInv, SchedTypes
      <4>2. rows' = rows \/ rows' = rows + 1
        BY <2>2 DEF Event, AddTrigger, RemoveTrigger, BeginPoll, PollStep, Sample, WriteBack, Fire, Change
      <4>3. overlap' = overlap \/ (overlap' \in BOOLEAN /\ (overlap => overlap'))
        BY <2>2 DEF Event, AddTrigger, RemoveTrigger, BeginPoll, PollStep, Sample, WriteBack, Fire, Change
      <4> QED
        BY <4>1, <4>2, <4>3
    <3> QED
      BY <2>1, <3>1, <3>2 DEF schedVars
  <2>3. CASE UNCHANGED vars
    <3>1. UNCHANGED <<alarms, registry, entry, alarmId, call, rows, overlap>>
      BY <2>3 DEF vars, schedVars
    <3> QED
      BY <2>1, <3>1 DEF SchedInv, SchedTypes
  <2> QED
    BY <2>2, <2>3, ScheduleStep DEF Next
<1>3. SchedInv => OneAlarmPerEntry
  <2> SUFFICES ASSUME SchedInv, ~overlap, \A t \in Threads : Idle(t) PROVE Live \subseteq alarmId
    BY DEF OneAlarmPerEntry, Live
  <2> QED
    BY DEF SchedInv, Alone, Stored, Quiet, Idle
<1> QED
  BY <1>1, <1>2, <1>3, PTL DEF Spec

---------------------------------------------------------------------------
(* The event engine.                                                       *)

Triggers == [test : {"existence", "boolean", "threshold", "delta"}, enabled : BOOLEAN, row : Nat, last : Int, existed : BOOLEAN]
Polls    == [pc : {"idle", "sample", "write", "fire"}, trigger : Seq(Triggers), fires : BOOLEAN]

Working(p) == poll[p].pc \in {"sample", "write"}

EventTypes ==
    /\ trigger \in Seq(Triggers) /\ object \in Int /\ poll \in [Pollers -> Polls] /\ rows \in Nat
    /\ above \in BOOLEAN /\ twice \in BOOLEAN /\ overlap \in BOOLEAN
    /\ \A p \in Pollers : Working(p) => poll[p].trigger # <<>>

\* A threshold trigger that fired and has seen nothing lower remembers a sample above:
\* in the copy of the poll that works on it, and else in the table.
Keeps(tr) == tr # <<>> /\ tr[1].test = "threshold" /\ above => tr[1].last >= Rising

OnePoll == \A p, q \in Pollers : poll[p].pc # "idle" /\ poll[q].pc # "idle" => p = q

CopyKeeps == \A p \in Pollers : Working(p) => Keeps(poll[p].trigger)

TableKeeps == (\A p \in Pollers : ~Working(p)) => Keeps(trigger)

EventInv == EventTypes /\ (~overlap => ~twice /\ OnePoll /\ CopyKeeps /\ TableKeeps)

\* What evaluate leaves in last_sample.
LEMMA RememberedProperties ==
  ASSUME NEW t \in Triggers, NEW s \in Int
  PROVE  /\ Remembered(t, s) \in Triggers /\ Remembered(t, s).test = t.test
         /\ t.test = "threshold" => Remembered(t, s).last = IF s = -1 THEN t.last ELSE s
<1>1. CASE s = -1
  <2>1. Remembered(t, s) = t
    BY <1>1 DEF Remembered
  <2> QED
    BY <1>1, <2>1
<1>2. CASE s # -1 /\ t.test = "existence"
  <2>1. Remembered(t, s) = IF t.existed THEN t ELSE [t EXCEPT !.existed = TRUE, !.last = s]
    BY <1>2 DEF Remembered
  <2>2. PICK e, r : e \in BOOLEAN /\ e = TRUE /\ r = [t EXCEPT !.existed = e, !.last = s]
    OBVIOUS
  <2>3. r \in Triggers /\ r.test = t.test
    BY <2>2 DEF Triggers
  <2>4. Remembered(t, s) = t \/ Remembered(t, s) = r
    BY <2>1, <2>2
  <2> QED
    BY <1>2, <2>3, <2>4
<1>3. CASE s # -1 /\ t.test # "existence"
  <2>1. Remembered(t, s) = [t EXCEPT !.last = s]
    BY <1>3 DEF Remembered
  <2> QED
    BY <1>3, <2>1 DEF Triggers
<1> QED
  BY <1>1, <1>2, <1>3

\* The poll of a task is where it is said to be, and the others stay.
PollTo(p, pc) ==
    /\ poll' \in [Pollers -> Polls]
    /\ poll'[p].pc = pc
    /\ \A q \in Pollers \ {p} : poll'[q] = poll[q]

\* A poll that is alone.
LEMMA PollAlone ==
  ASSUME EventInv, ~overlap, NEW p \in Pollers, poll[p].pc # "idle"
  PROVE  \A q \in Pollers \ {p} : poll[q].pc = "idle"
  BY DEF EventInv, OnePoll

\* A poll that is alone before and after its step only has to account for itself.
LEMMA PollAloneStep ==
  ASSUME NEW p \in Pollers, NEW pc, PollTo(p, pc), \A q \in Pollers \ {p} : poll[q].pc = "idle", ~twice',
         pc \in {"sample", "write"} => Keeps(poll[p].trigger)',
         pc \notin {"sample", "write"} => Keeps(trigger)'
  PROVE  ~twice' /\ OnePoll' /\ CopyKeeps' /\ TableKeeps'
<1>1. \A q \in Pollers \ {p} : poll'[q].pc = "idle"
  BY DEF PollTo
<1>2. OnePoll'
  BY <1>1 DEF OnePoll
<1>3. CopyKeeps'
  BY <1>1 DEF CopyKeeps, Working, PollTo
<1>4. TableKeeps'
  BY DEF TableKeeps, Working, PollTo
<1> QED
  BY <1>2, <1>3, <1>4

\* A poll copies the trigger.
LEMMA BeginPollStep ==
  ASSUME EventInv, NEW p \in Pollers, BeginPoll(p)
  PROVE  EventInv'
<1>0. EventTypes
  BY DEF EventInv
<1>1. PICK pc \in {"idle", "sample"} : pc = IF Polled THEN "sample" ELSE "idle"
  OBVIOUS
<1>2. PICK r : r = [NoPoll EXCEPT !.pc = pc, !.trigger = trigger]
  OBVIOUS
<1>3. r = [pc |-> pc, trigger |-> trigger, fires |-> FALSE]
  BY <1>2 DEF NoPoll
<1>4. r \in Polls /\ r.pc = pc /\ r.trigger = trigger
  BY <1>0, <1>1, <1>3 DEF Polls, EventTypes
<1>5. /\ poll[p].pc = "idle" /\ poll' = [poll EXCEPT ![p] = r]
      /\ overlap' = (overlap \/ \E q \in Pollers \ {p} : poll[q].pc # "idle")
      /\ UNCHANGED <<rows, trigger, object, above, twice>>
  BY <1>1, <1>2 DEF BeginPoll
<1>6. PollTo(p, pc) /\ poll'[p] = r
  BY <1>0, <1>4, <1>5 DEF PollTo, EventTypes
<1>7. EventTypes'
  BY <1>0, <1>1, <1>4, <1>5, <1>6 DEF EventTypes, PollTo, Working, Polled
<1>8. ASSUME ~overlap' PROVE ~twice' /\ OnePoll' /\ CopyKeeps' /\ TableKeeps'
  <2>1. ~overlap /\ \A q \in Pollers \ {p} : poll[q].pc = "idle"
    BY <1>5, <1>8
  <2>2. ~twice /\ Keeps(trigger)
    BY <1>5, <2>1 DEF EventInv, TableKeeps, Working
  <2>3. Keeps(trigger)' /\ Keeps(poll[p].trigger)' /\ ~twice'
    BY <1>4, <1>5, <1>6, <2>2 DEF Keeps
  <2> QED
    BY <1>6, <2>1, <2>3, PollAloneStep
<1> QED
  BY <1>7, <1>8 DEF EventInv

\* The sample is evaluated on the copy.
LEMMA SampleStep ==
  ASSUME EventInv, NEW p \in Pollers, Sample(p)
  PROVE  EventInv'
<1>0. EventTypes /\ poll[p].pc = "sample"
  BY DEF EventInv, Sample
<1>1. PICK t \in Triggers : t = poll[p].trigger[1]
  <2>1. poll[p].trigger \in Seq(Triggers) /\ poll[p].trigger # <<>>
    BY <1>0 DEF EventTypes, Polls, Working
  <2> QED
    BY <2>1
<1>2. PICK m \in Triggers : /\ m = Remembered(t, object) /\ m.test = t.test
                            /\ t.test = "threshold" => m.last = IF object = -1 THEN t.last ELSE object
  BY <1>0, RememberedProperties DEF EventTypes
<1>3. PICK f \in BOOLEAN, up \in BOOLEAN : f = Fires(t, object) /\ up = (Crossing(t) /\ f /\ Rises(t, object))
  <2>1. Fires(t, object) \in BOOLEAN
    BY <1>1, Zenon DEF Fires, Triggers
  <2> QED
    BY <2>1
<1>4. /\ poll' = [poll EXCEPT ![p] = [pc |-> "write", trigger |-> <<m>>, fires |-> f]]
      /\ twice' = (twice \/ (up /\ above))
      /\ above' = IF up THEN TRUE ELSE IF object # -1 /\ object < Rising THEN FALSE ELSE above
      /\ UNCHANGED <<rows, trigger, object, overlap>>
  BY <1>1, <1>2, <1>3 DEF Sample
<1>5. [pc |-> "write", trigger |-> <<m>>, fires |-> f] \in Polls
  BY <1>2, <1>3 DEF Polls
<1>6. PollTo(p, "write") /\ poll'[p].trigger = <<m>>
  BY <1>0, <1>4, <1>5 DEF PollTo, EventTypes
<1>7. EventTypes'
  BY <1>0, <1>3, <1>4, <1>6 DEF EventTypes, PollTo, Working
<1>8. ASSUME ~overlap PROVE ~twice' /\ OnePoll' /\ CopyKeeps' /\ TableKeeps'
  <2>1. Keeps(poll[p].trigger) /\ ~twice /\ \A q \in Pollers \ {p} : poll[q].pc = "idle"
    BY <1>0, <1>8, PollAlone DEF EventInv, CopyKeeps, Working
  <2>2. t.test = "threshold" /\ above => t.last >= Rising
    BY <1>0, <1>1, <2>1 DEF Keeps, EventTypes, Working
  <2>3. object \in Int /\ t.last \in Int /\ Rising \in Int /\ above \in BOOLEAN
    BY <1>0, <1>1, DismanAssumption DEF EventTypes, Triggers
  <2>4. up => t.test = "threshold" /\ object >= Rising /\ t.last < Rising
    BY <1>3 DEF Crossing, Rises
  <2>5. ~twice'
    BY <1>4, <2>1, <2>2, <2>3, <2>4
  <2>6. ASSUME t.test = "threshold", above' PROVE m.last >= Rising
    <3>1. CASE up
      <4>1. Fires(t, object) /\ t.test = "threshold"
        BY <1>3, <2>4, <3>1
      <4>2. object # -1
        BY <4>1 DEF Fires
      <4> QED
        BY <1>2, <2>3, <2>4, <2>6, <3>1, <4>2
    <3>2. CASE ~up
      <4>1. above /\ ~(object # -1 /\ object < Rising)
        BY <1>4, <2>6, <3>2
      <4> QED
        BY <1>2, <2>2, <2>3, <2>6, <4>1
    <3> QED
      BY <3>1, <3>2
  <2>7. Keeps(poll[p].trigger)'
    BY <1>2, <1>6, <2>6 DEF Keeps
  <2> QED
    BY <1>6, <2>1, <2>5, <2>7, PollAloneStep
<1> QED
  BY <1>4, <1>7, <1>8 DEF EventInv

\* The copy goes back.
LEMMA WriteBackStep ==
  ASSUME EventInv, NEW p \in Pollers, WriteBack(p)
  PROVE  EventInv'
<1>0. EventTypes /\ poll[p].pc = "write" /\ poll[p] \in Polls
  BY DEF EventInv, WriteBack, EventTypes
<1>1. PICK pc \in {"fire", "idle"} : pc = IF poll[p].fires THEN "fire" ELSE "idle"
  OBVIOUS
<1>2. PICK r : r = [poll[p] EXCEPT !.pc = pc]
  OBVIOUS
<1>3. r \in Polls /\ r.pc = pc
  BY <1>0, <1>1, <1>2 DEF Polls
<1>4. /\ poll' = [poll EXCEPT ![p] = r] /\ trigger' = poll[p].trigger
      /\ UNCHANGED <<rows, object, above, overlap, twice>>
  BY <1>0, <1>1, <1>2 DEF WriteBack, EventTypes
<1>5. PollTo(p, pc)
  BY <1>0, <1>3, <1>4 DEF PollTo, EventTypes
<1>6. EventTypes'
  <2>1. trigger' \in Seq(Triggers)
    BY <1>0, <1>4 DEF Polls
  <2> QED
    BY <1>0, <1>1, <1>4, <1>5, <2>1 DEF EventTypes, PollTo, Working
<1>7. ASSUME ~overlap PROVE ~twice' /\ OnePoll' /\ CopyKeeps' /\ TableKeeps'
  <2>1. Keeps(poll[p].trigger) /\ ~twice /\ \A q \in Pollers \ {p} : poll[q].pc = "idle"
    BY <1>0, <1>7, PollAlone DEF EventInv, CopyKeeps, Working
  <2>2. Keeps(trigger)' /\ ~twice'
    BY <1>4, <2>1 DEF Keeps
  <2> QED
    BY <1>1, <1>5, <2>1, <2>2, PollAloneStep
<1> QED
  BY <1>4, <1>6, <1>7 DEF EventInv

\* The event's action.
LEMMA FireStep ==
  ASSUME EventInv, NEW p \in Pollers, Fire(p)
  PROVE  EventInv'
<1>0. EventTypes /\ poll[p].pc = "fire"
  BY DEF EventInv, Fire
<1>1. /\ poll' = [poll EXCEPT ![p] = NoPoll] /\ object' = IF SetTo = -1 THEN object ELSE SetTo
      /\ UNCHANGED <<rows, trigger, above, overlap, twice>>
  BY DEF Fire
<1>2. NoPoll \in Polls /\ NoPoll.pc = "idle"
  BY DEF NoPoll, Polls
<1>3. PollTo(p, "idle")
  BY <1>0, <1>1, <1>2 DEF PollTo, EventTypes
<1>4. EventTypes'
  <2>1. object' \in Int
    BY <1>0, <1>1, DismanAssumption DEF EventTypes
  <2> QED
    BY <1>0, <1>1, <1>3, <2>1 DEF EventTypes, PollTo, Working
<1>5. ASSUME ~overlap PROVE ~twice' /\ OnePoll' /\ CopyKeeps' /\ TableKeeps'
  <2>1. ~twice /\ \A q \in Pollers \ {p} : poll[q].pc = "idle"
    BY <1>0, <1>5, PollAlone DEF EventInv
  <2>2. Keeps(trigger)
    BY <1>0, <1>5, <2>1 DEF EventInv, TableKeeps, Working
  <2>3. Keeps(trigger)' /\ ~twice'
    BY <1>1, <2>1, <2>2 DEF Keeps
  <2> QED
    BY <1>3, <2>1, <2>3, PollAloneStep
<1> QED
  BY <1>1, <1>4, <1>5 DEF EventInv

(* While polls and changes of the trigger table do not overlap, a          *)
(* threshold trigger that fired on a rise fires on a rise again only after *)
(* a lower sample (evaluate and the write-back of last_sample), for any    *)
(* thresholds, levels, tests and number of poll tasks.                     *)
THEOREM RiseFiresOnce == Spec => []OneFirePerRise
<1>1. Init => EventInv
  <2> SUFFICES ASSUME Init PROVE EventInv
    OBVIOUS
  <2>1. /\ trigger = <<>> /\ object = -1 /\ poll = [p \in Pollers |-> NoPoll] /\ rows = 0
        /\ above = FALSE /\ twice = FALSE /\ overlap = FALSE
    BY DEF Init
  <2>2. NoPoll \in Polls /\ NoPoll.pc = "idle"
    BY DEF NoPoll, Polls
  <2>3. EventTypes
    <3>1. trigger \in Seq(Triggers) /\ poll \in [Pollers -> Polls]
      BY <2>1, <2>2
    <3>2. \A p \in Pollers : ~Working(p)
      BY <2>1, <2>2 DEF Working
    <3>3. object \in Int
      BY <2>1
    <3> QED
      BY <2>1, <3>1, <3>2, <3>3 DEF EventTypes
  <2>4. OnePoll /\ CopyKeeps /\ TableKeeps
    BY <2>1, <2>2 DEF OnePoll, CopyKeeps, TableKeeps, Keeps, Working
  <2> QED
    BY <2>1, <2>3, <2>4 DEF EventInv
<1>2. EventInv /\ [Next]_vars => EventInv'
  <2> SUFFICES ASSUME EventInv, [Next]_vars PROVE EventInv'
    OBVIOUS
  <2>0. EventTypes
    BY DEF EventInv
  <2>1. ASSUME UNCHANGED <<trigger, poll, above, twice>>, object' \in Int, rows' \in Nat,
               overlap' \in BOOLEAN, ~overlap' => ~overlap
        PROVE  EventInv'
    BY <2>1 DEF EventInv, EventTypes, OnePoll, CopyKeeps, TableKeeps, Keeps, Working
  <2>2. CASE AddTrigger
    <3>1. PICK test \in Tests, enabled \in BOOLEAN : trigger' = <<NewTrigger(test, enabled, rows + 1)>>
      BY <2>2 DEF AddTrigger
    <3>2. /\ rows' = rows + 1 /\ above' = FALSE /\ UNCHANGED <<object, poll, twice>>
          /\ overlap' = (overlap \/ \E p \in Pollers : poll[p].pc # "idle")
      BY <2>2 DEF AddTrigger
    <3>3. NewTrigger(test, enabled, rows + 1) \in Triggers
      BY <2>0, <3>1, DismanAssumption DEF NewTrigger, Triggers, EventTypes
    <3>4. EventTypes'
      <4>1. trigger' \in Seq(Triggers)
        BY <3>1, <3>3
      <4>2. rows' \in Nat
        <5>1. rows \in Nat /\ rows' = rows + 1
          BY <2>0, <2>2 DEF EventTypes, AddTrigger
        <5> QED
          BY <5>1
      <4>3. overlap' \in BOOLEAN /\ above' \in BOOLEAN
        BY <3>2, Zenon
      <4>4. UNCHANGED <<object, poll, twice>> /\ \A p \in Pollers : Working(p)' = Working(p)
        BY <3>2 DEF Working
      <4> QED
        BY <2>0, <4>1, <4>2, <4>3, <4>4, Zenon DEF EventTypes
    <3> QED
      BY <3>2, <3>4 DEF EventInv, OnePoll, CopyKeeps, TableKeeps, Keeps, Working
  <2>3. CASE RemoveTrigger
    <3>1. /\ trigger' = <<>> /\ UNCHANGED <<rows, object, poll, above, twice>>
          /\ overlap' = (overlap \/ \E p \in Pollers : poll[p].pc # "idle")
      BY <2>3 DEF RemoveTrigger
    <3>2. EventTypes'
      BY <2>0, <3>1 DEF EventTypes, Working
    <3> QED
      BY <3>1, <3>2 DEF EventInv, OnePoll, CopyKeeps, TableKeeps, Keeps, Working
  <2>4. ASSUME NEW v \in Levels \cup {-1}, Change(v) PROVE EventInv'
    BY <2>0, <2>1, <2>4, DismanAssumption DEF Change, EventTypes
  <2>5. CASE Schedule
    <3>1. UNCHANGED eventVars
      BY <2>5 DEF Schedule, CallStep, AlarmStep, AddEntry, Start, ReadEntry, CancelOld, RegisterAlarm, StoreId,
                  RemoveAlarm, RemoveEntry, Wake, WakeAtMatch, Count, Act
    <3>2. rows' \in Nat
      <4>1. rows' = rows \/ rows' = rows + 1
        BY <2>5 DEF Schedule, CallStep, AlarmStep, AddEntry, Start, ReadEntry, CancelOld, RegisterAlarm, StoreId,
                    RemoveAlarm, RemoveEntry, Wake, WakeAtMatch, Count, Act
      <4> QED
        BY <2>0, <4>1 DEF EventTypes
    <3>3. overlap' = overlap \/ (overlap' \in BOOLEAN /\ (overlap => overlap'))
      BY <2>5 DEF Schedule, CallStep, AlarmStep, AddEntry, Start, ReadEntry, CancelOld, RegisterAlarm, StoreId,
                  RemoveAlarm, RemoveEntry, Wake, WakeAtMatch, Count, Act, Enter
    <3> QED
      BY <2>0, <2>1, <3>1, <3>2, <3>3 DEF eventVars, EventTypes
  <2>6. CASE UNCHANGED vars
    <3>1. UNCHANGED <<trigger, poll, above, twice, object, rows, overlap>>
      BY <2>6 DEF vars, eventVars
    <3> QED
      BY <2>0, <2>1, <3>1 DEF EventTypes
  <2> QED
    BY <2>2, <2>3, <2>4, <2>5, <2>6, BeginPollStep, SampleStep, WriteBackStep, FireStep DEF Next, Event, PollStep
<1>3. EventInv => OneFirePerRise
  BY DEF EventInv, OneFirePerRise
<1> QED
  BY <1>1, <1>2, <1>3, PTL DEF Spec
=============================================================================
