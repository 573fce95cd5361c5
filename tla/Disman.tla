-------------------------------- MODULE Disman --------------------------------
(***************************************************************************)
(* The DISMAN engines that act on their own: DismanSchedule                *)
(* (disman/schedule.rs) and DismanEvent (disman/event.rs), driven by the   *)
(* timer tasks of AlarmRegistry (netsnmp/src/alarm.rs).  Management        *)
(* threads add and remove rows while the timers fire.  The two engines     *)
(* share nothing but the registry, so each behaviour runs one of them.     *)
(***************************************************************************)
EXTENDS Naturals, Integers, Sequences, FiniteSets

CONSTANTS
    Engines,     \* the engines to run: "schedule", "event"
    Threads,     \* management threads
    Pollers,     \* poll tasks that can be alive at the same time
    Tests,       \* the tests of the trigger: "existence", "boolean", "threshold", "delta"
    Levels,      \* values of the sampled object, integers
    Rising,      \* rising_threshold
    Falling,     \* falling_threshold
    SetTo,       \* the value the event's SET action writes, or -1 for a notification
    MaxRows,     \* bound: rows added
    MaxAlarms,   \* bound: alarms registered
    MaxRemoves,  \* bound: rows removed
    MaxPolls,    \* bound: polls of the trigger
    MaxCount     \* 2^64 - 1 in the code: fire_count saturates there

ASSUME DismanAssumption ==
    /\ Engines \subseteq {"schedule", "event"}
    /\ Tests \subseteq {"existence", "boolean", "threshold", "delta"}
    /\ Levels \subseteq Int \ {-1} /\ Rising \in Int /\ Falling \in Int /\ SetTo \in Levels \cup {-1}
    /\ MaxRows \in Nat /\ MaxAlarms \in Nat /\ MaxRemoves \in Nat /\ MaxPolls \in Nat /\ MaxCount \in Nat

VARIABLES
    engine,   \* the engine of this behaviour
    alarms,   \* every alarm's worker task, by id
    registry, \* AlarmRegistry.entries: ids
    entry,    \* the schedule entry, <<>> when there is none
    alarmId,  \* alarm_ids of the entry: {} or {id}
    started,  \* DismanSchedule.started
    call,     \* the management call of each thread
    rows,     \* rows added so far
    removes,  \* rows removed so far
    acted,    \* history: the rows whose action was executed
    trigger,  \* the trigger row, <<>> when there is none
    object,   \* the MIB object the trigger samples, -1 when absent
    poll,     \* poll_once of each poll task
    polls,    \* polls so far
    above,    \* history: the threshold fired and no sample was lower since
    overlap,  \* history: two calls, or two polls, ran at the same time
    twice     \* history: a trigger fired twice for one crossing

schedVars == <<alarms, registry, entry, alarmId, started, call, acted>>
eventVars == <<trigger, object, poll, polls, above, twice>>
vars == <<engine, schedVars, rows, removes, eventVars, overlap>>

---------------------------------------------------------------------------
(* AlarmRegistry.                                                          *)

Ids == DOMAIN alarms

NewAlarm == [pc |-> "sleep", cancelled |-> FALSE, row |-> 0]

\* add: a fresh id, a task that sleeps first, and a registry entry.
AddAlarm == /\ alarms' = Append(alarms, NewAlarm)
            /\ registry' = registry \cup {Len(alarms) + 1}

\* cancel: abort takes effect where the task awaits, in its sleep; a callback in
\* progress runs to its end and then sees the flag.
Cancelled(a) == [a EXCEPT !.cancelled = TRUE, !.pc = IF @ = "sleep" THEN "gone" ELSE @]

CancelAll(ids) == /\ alarms' = [i \in Ids |-> IF i \in ids \cap registry THEN Cancelled(alarms[i]) ELSE alarms[i]]
                  /\ registry' = registry \ ids

---------------------------------------------------------------------------
(* DismanSchedule.                                                         *)

NoCall == [op |-> "none", pc |-> "idle"]

Idle(t) == call[t].pc = "idle"

\* Every call notes whether it met another one.
Enter(t, op, pc) ==
    /\ call' = [call EXCEPT ![t] = [op |-> op, pc |-> pc]]
    /\ overlap' = (overlap \/ \E u \in Threads \ {t} : ~Idle(u))

\* add_entry replaces the row of that name, with its counters at zero.  A gated
\* row has interval 0 and a calendar that not every minute matches.
AddEntry(t, enabled, gated) ==
    /\ Idle(t) /\ rows < MaxRows
    /\ rows' = rows + 1
    /\ entry' = <<[row |-> rows + 1, enabled |-> enabled, gated |-> gated, fires |-> 0]>>
    /\ Enter(t, "add", "read")
    /\ UNCHANGED <<engine, alarms, registry, alarmId, started, removes, acted, eventVars>>

Start(t) ==
    /\ Idle(t) /\ ~started
    /\ started' = TRUE
    /\ Enter(t, "start", "read")
    /\ UNCHANGED <<engine, alarms, registry, entry, alarmId, rows, removes, acted, eventVars>>

Go(t, pc) == call' = [call EXCEPT ![t].pc = pc]

\* spawn_alarm, first part: a row that is gone or disabled gets no alarm.
ReadEntry(t) ==
    /\ call[t].pc = "read"
    /\ Go(t, IF entry # <<>> /\ entry[1].enabled THEN "cancel" ELSE "idle")
    /\ UNCHANGED <<engine, alarms, registry, entry, alarmId, started, rows, removes, acted, eventVars, overlap>>

\* Mutant: the alarm of the row that is replaced goes on.
CancelOldForgotten(t) ==
    /\ call[t].pc = "cancel"
    /\ alarmId' = {}
    /\ Go(t, "alarm")
    /\ UNCHANGED <<engine, alarms, registry, entry, started, rows, removes, acted, eventVars, overlap>>

CancelOld(t) ==
    /\ call[t].pc = "cancel"
    /\ CancelAll(alarmId)
    /\ alarmId' = {}
    /\ Go(t, "alarm")
    /\ UNCHANGED <<engine, entry, started, rows, removes, acted, eventVars, overlap>>

\* The registry's id lock is awaited, so another thread may run before.
RegisterAlarm(t) ==
    /\ call[t].pc = "alarm" /\ Len(alarms) < MaxAlarms
    /\ AddAlarm
    /\ call' = [call EXCEPT ![t] = [op |-> @.op, pc |-> "store", id |-> Len(alarms) + 1]]
    /\ UNCHANGED <<engine, entry, alarmId, started, rows, removes, acted, eventVars, overlap>>

StoreId(t) ==
    /\ call[t].pc = "store"
    /\ alarmId' = {call[t].id}
    /\ call' = [call EXCEPT ![t] = NoCall]
    /\ UNCHANGED <<engine, alarms, registry, entry, started, rows, removes, acted, eventVars, overlap>>

\* remove_entry: first the alarm, then the row.
RemoveAlarm(t) ==
    /\ Idle(t) /\ removes < MaxRemoves
    /\ removes' = removes + 1
    /\ CancelAll(alarmId)
    /\ alarmId' = {}
    /\ Enter(t, "remove", "remove")
    /\ UNCHANGED <<engine, entry, started, rows, acted, eventVars>>

\* Mutant: the alarm goes, the row stays.
RemoveEntryKept(t) ==
    /\ call[t].pc = "remove"
    /\ Go(t, "idle")
    /\ UNCHANGED <<engine, alarms, registry, entry, alarmId, started, rows, removes, acted, eventVars, overlap>>

RemoveEntry(t) ==
    /\ call[t].pc = "remove"
    /\ entry' = <<>>
    /\ Go(t, "idle")
    /\ UNCHANGED <<engine, alarms, registry, alarmId, started, rows, removes, acted, eventVars, overlap>>

\* fire runs on a copy of the row.
Firing(a) == [a EXCEPT !.pc = "count", !.row = entry[1].row]

\* The alarm's task wakes up and calls fire, which looks the row up by its name.
\* For a gated row it returns at once unless the calendar matches now.
Wake(i) ==
    /\ alarms[i].pc = "sleep"
    /\ ~alarms[i].cancelled /\ entry # <<>> => ~entry[1].gated
    /\ alarms' = [alarms EXCEPT ![i] = IF @.cancelled THEN [@ EXCEPT !.pc = "gone"]
                                       ELSE IF entry = <<>> THEN @ ELSE Firing(@)]
    /\ UNCHANGED <<engine, registry, entry, alarmId, started, call, rows, removes, acted, eventVars, overlap>>

\* The wall clock is in a minute the calendar of a gated row names.
WakeAtMatch(i) ==
    /\ alarms[i].pc = "sleep" /\ ~alarms[i].cancelled
    /\ entry # <<>> /\ entry[1].gated
    /\ alarms' = [alarms EXCEPT ![i] = Firing(@)]
    /\ UNCHANGED <<engine, registry, entry, alarmId, started, call, rows, removes, acted, eventVars, overlap>>

\* The counter belongs to whatever row has the name by now.
Count(i) ==
    /\ alarms[i].pc = "count"
    /\ entry' = IF entry = <<>> THEN entry
                ELSE <<[entry[1] EXCEPT !.fires = IF @ < MaxCount THEN @ + 1 ELSE @]>>
    /\ alarms' = [alarms EXCEPT ![i].pc = "act"]
    /\ UNCHANGED <<engine, registry, alarmId, started, call, rows, removes, acted, eventVars, overlap>>

Act(i) ==
    /\ alarms[i].pc = "act"
    /\ acted' = acted \cup {alarms[i].row}
    /\ alarms' = [alarms EXCEPT ![i].pc = IF alarms[i].cancelled THEN "gone" ELSE "sleep", ![i].row = 0]
    /\ UNCHANGED <<engine, registry, entry, alarmId, started, call, rows, removes, eventVars, overlap>>

---------------------------------------------------------------------------
(* DismanEvent.                                                            *)

NewTrigger(test, enabled, n) == [test |-> test, enabled |-> enabled, row |-> n, last |-> -1, existed |-> FALSE]

NoPoll == [pc |-> "idle", trigger |-> <<>>, fires |-> FALSE]

\* A rising crossing: the sample before was below, this one is not.
Rises(t, s) == s >= Rising /\ t.last < Rising

\* evaluate: whether the trigger fires, and the trigger with its new state; -1
\* stands for an absent sample.
Fires(t, s) ==
    CASE t.test = "existence" -> s # -1 /\ ~t.existed
      [] t.test = "boolean"   -> s # -1 /\ s > Rising
      [] t.test = "threshold" -> /\ s # -1 /\ t.last # -1
                                 /\ \/ Rises(t, s)
                                    \/ s <= Falling /\ t.last > Falling
      [] t.test = "delta"     -> /\ s # -1 /\ t.last # -1
                                 /\ s - t.last >= Rising \/ s - t.last <= Falling

\* Mutant: the first sample is kept, later ones are not.
RememberedFirst(t, s) == IF s = -1 \/ t.last # -1 THEN t ELSE [t EXCEPT !.last = s]

Remembered(t, s) ==
    CASE s = -1 -> t
      [] s # -1 /\ t.test = "existence" -> IF t.existed THEN t ELSE [t EXCEPT !.existed = TRUE, !.last = s]
      [] OTHER -> [t EXCEPT !.last = s]

AddTrigger ==
    /\ rows < MaxRows
    /\ rows' = rows + 1
    /\ \E test \in Tests, enabled \in BOOLEAN : trigger' = <<NewTrigger(test, enabled, rows + 1)>>
    /\ above' = FALSE
    /\ overlap' = (overlap \/ \E p \in Pollers : poll[p].pc # "idle")
    /\ UNCHANGED <<engine, schedVars, removes, object, poll, polls, twice>>

RemoveTrigger ==
    /\ removes < MaxRemoves
    /\ removes' = removes + 1
    /\ trigger' = <<>>
    /\ overlap' = (overlap \/ \E p \in Pollers : poll[p].pc # "idle")
    /\ UNCHANGED <<engine, schedVars, rows, object, poll, polls, above, twice>>

Polled == trigger # <<>> /\ trigger[1].enabled

\* The alarm's callback spawns a task for each poll, so that two may run at once.
\* A poll copies the triggers first, and passes over a disabled one.
BeginPoll(p) ==
    /\ poll[p].pc = "idle" /\ polls < MaxPolls
    /\ polls' = polls + 1
    /\ poll' = [poll EXCEPT ![p] = [NoPoll EXCEPT !.pc = IF Polled THEN "sample" ELSE "idle", !.trigger = trigger]]
    /\ overlap' = (overlap \/ \E q \in Pollers \ {p} : poll[q].pc # "idle")
    /\ UNCHANGED <<engine, schedVars, rows, removes, trigger, object, above, twice>>

Crossing(t) == t.test = "threshold"

Sample(p) ==
    LET t == poll[p].trigger[1]
    IN  /\ poll[p].pc = "sample"
        /\ poll' = [poll EXCEPT ![p] = [pc |-> "write", trigger |-> <<Remembered(t, object)>>, fires |-> Fires(t, object)]]
        /\ LET up == Crossing(t) /\ Fires(t, object) /\ Rises(t, object)
           IN  /\ twice' = (twice \/ (up /\ above))
               /\ above' = IF up THEN TRUE ELSE IF object # -1 /\ object < Rising THEN FALSE ELSE above
        /\ UNCHANGED <<engine, schedVars, rows, removes, trigger, object, polls, overlap>>

\* The copy goes back into the table, whatever is there by now.
WriteBack(p) ==
    /\ poll[p].pc = "write"
    /\ trigger' = poll[p].trigger
    /\ poll' = [poll EXCEPT ![p].pc = IF poll[p].fires THEN "fire" ELSE "idle"]
    /\ UNCHANGED <<engine, schedVars, rows, removes, object, polls, above, overlap, twice>>

\* fire_events and execute_action: a SET through self_query, or a notification
\* handed to a task of its own.
Fire(p) ==
    /\ poll[p].pc = "fire"
    /\ object' = IF SetTo = -1 THEN object ELSE SetTo
    /\ poll' = [poll EXCEPT ![p] = NoPoll]
    /\ UNCHANGED <<engine, schedVars, rows, removes, trigger, polls, above, overlap, twice>>

\* The device.
Change(v) ==
    /\ object' = v /\ v # object
    /\ UNCHANGED <<engine, schedVars, rows, removes, trigger, poll, polls, above, overlap, twice>>

---------------------------------------------------------------------------

Init ==
    /\ engine \in Engines
    /\ alarms = <<>> /\ registry = {} /\ entry = <<>> /\ alarmId = {} /\ started = FALSE
    /\ call = [t \in Threads |-> NoCall]
    /\ rows = 0 /\ removes = 0 /\ acted = {}
    /\ trigger = <<>> /\ object = -1 /\ poll = [p \in Pollers |-> NoPoll] /\ polls = 0
    /\ above = FALSE /\ overlap = FALSE /\ twice = FALSE

CallStep(t) == ReadEntry(t) \/ CancelOld(t) \/ RegisterAlarm(t) \/ StoreId(t) \/ RemoveEntry(t)

AlarmStep(i) == Wake(i) \/ Count(i) \/ Act(i)

Schedule ==
    \/ \E t \in Threads : \/ \E enabled, gated \in BOOLEAN : AddEntry(t, enabled, gated)
                          \/ Start(t) \/ RemoveAlarm(t) \/ CallStep(t)
    \/ \E i \in Ids : AlarmStep(i) \/ WakeAtMatch(i)

PollStep(p) == Sample(p) \/ WriteBack(p) \/ Fire(p)

Event ==
    \/ AddTrigger \/ RemoveTrigger
    \/ \E p \in Pollers : BeginPoll(p) \/ PollStep(p)
    \/ \E v \in Levels \cup {-1} : Change(v)

Next == \/ engine = "schedule" /\ Schedule
        \/ engine = "event" /\ Event

\* tokio runs every ready task: a call goes on, an alarm wakes up and its
\* callback ends.  No fairness makes a poll of a gated row meet a minute that its
\* calendar names.
Fairness ==
    /\ \A t \in Threads : WF_vars(CallStep(t))
    /\ \A i \in 1 .. MaxAlarms : WF_vars(i \in Ids /\ AlarmStep(i))

Spec == Init /\ [][Next]_vars /\ Fairness

---------------------------------------------------------------------------
(* Properties.                                                             *)

\* As long as no two calls on the scheduler overlap, the entry has at most one
\* live alarm, the one remove_entry will cancel, so that nothing fires an entry
\* twice per interval and nothing fires once it is removed (spawn_alarm).
OneAlarmPerEntry ==
    ~overlap /\ (\A t \in Threads : Idle(t)) =>
      {i \in Ids : alarms[i].pc # "gone" /\ ~alarms[i].cancelled} \subseteq alarmId

\* Whatever calls race with each other, an enabled entry that stays in the table
\* and that no calendar gates has its action executed (add_entry, remove_entry and
\* start leave no enabled entry without an alarm).
EnabledEntryFires ==
    \A r \in 1 .. MaxRows :
      (entry # <<>> /\ entry[1].row = r /\ entry[1].enabled /\ ~entry[1].gated)
        ~> (r \in acted \/ entry = <<>> \/ entry[1].row # r)

\* Not so of every enabled entry, which no run checks: the calendar is looked at
\* once in sixty seconds and a late wake-up, so that a poll may pass over the
\* minutes that match.
EveryEnabledEntryFires ==
    \A r \in 1 .. MaxRows :
      (entry # <<>> /\ entry[1].row = r /\ entry[1].enabled)
        ~> (r \in acted \/ entry = <<>> \/ entry[1].row # r)

\* As long as polls and changes of the table do not overlap, a threshold trigger
\* that fired on a rise fires on a rise again only after a lower sample (evaluate
\* and the write-back of last_sample).
OneFirePerRise == ~overlap => ~twice
=============================================================================
