------------------------------- MODULE Pass -------------------------------
(***************************************************************************)
(* Subtrees delegated to an external script (agent/mibgroup/pass.rs). A     *)
(* `pass` script is started for each request and its whole output read; a   *)
(* `pass_persist` script is kept, under a lock, and spoken to over pipes.   *)
(*                                                                         *)
(* A line is a record: the call it was written for, its place in the reply  *)
(* (1 the OID, 2 the type, 3 the value, 0 the blank), and its text.         *)
(***************************************************************************)
EXTENDS Integers, Sequences, SequencesExt

CONSTANTS
    PassCallers,   \* serve loops that call the handler
    PassScripts,   \* [persist, blank, whole, slow]: see Reply and the script's actions
    PassCommands,  \* command texts, as sequences of character classes
    MaxPassCalls,  \* bound on the calls
    MaxDeaths      \* bound on the deaths of the script

VARIABLES
    script,        \* how the script behaves
    command,       \* the command of the directive
    child,         \* [state |-> "none" | "alive" | "dead", asked: requests not yet answered,
                   \*  unsent: lines the script has yet to write, pipe: lines written, unread]
    lock,          \* holder of the mutex around the child, or NoCaller
    call,          \* caller -> what it is doing
    passCalls,     \* calls made so far
    deaths         \* deaths so far

passVars == <<script, command, child, lock, call, passCalls, deaths>>

NoCaller == <<>>

ASSUME PassAssumption ==
    /\ NoCaller \notin PassCallers
    /\ PassScripts \subseteq [persist : BOOLEAN, blank : BOOLEAN, whole : BOOLEAN, slow : BOOLEAN]

NoChild == [state |-> "none", asked |-> <<>>, unsent |-> <<>>, pipe |-> <<>>]
FreshChild == [NoChild EXCEPT !.state = "alive"]

Idle == [at |-> "idle", id |-> 0, op |-> "get", value |-> "Null", buffer |-> <<>>, lines |-> <<>>,
         answer |-> <<>>]

----------------------------------------------------------------------------
(* Words of a command. A character is "c" (any other), "space", "dq", "sq"  *)
(* or "bs"; a word is the number of its characters.                         *)

SplitStart == [words |-> <<>>, current |-> 0, quote |-> "none", escaped |-> FALSE, any |-> FALSE]

SplitStep(s, c) ==
    IF s.escaped THEN [s EXCEPT !.escaped = FALSE, !.current = @ + 1, !.any = @ \/ s.quote = "none"]
    ELSE IF s.quote = "sq" THEN
      (IF c = "sq" THEN [s EXCEPT !.quote = "none"] ELSE [s EXCEPT !.current = @ + 1])
    ELSE IF c = "bs" THEN [s EXCEPT !.escaped = TRUE]
    ELSE IF s.quote = "dq" THEN
      (IF c = "dq" THEN [s EXCEPT !.quote = "none"] ELSE [s EXCEPT !.current = @ + 1])
    ELSE IF c \in {"sq", "dq"} THEN [s EXCEPT !.quote = c, !.any = TRUE]
    ELSE IF c = "space" THEN
      (IF s.current = 0 THEN s ELSE [s EXCEPT !.words = Append(@, s.current), !.current = 0])
    ELSE [s EXCEPT !.current = @ + 1, !.any = TRUE]

(* The words; none for an open quote or a command without a word.           *)
split_command(text) ==
    LET s == FoldLeft(SplitStep, SplitStart, text)
    IN  IF s.quote # "none" \/ ~ s.any THEN <<>>
        ELSE IF s.current = 0 THEN s.words ELSE Append(s.words, s.current)

spawn_persist_child == IF split_command(command) = <<>> THEN NoChild ELSE FreshChild

----------------------------------------------------------------------------
(* Types of values and their names in the protocol. *)

value_to_pass(type) ==
    CASE type = "Integer" -> "integer"
      [] type = "Gauge32" -> "gauge"
      [] type = "Counter32" -> "counter"
      [] type = "Counter64" -> "counter64"
      [] type = "TimeTicks" -> "timeticks"
      [] type = "IpAddress" -> "ipaddress"
      [] type = "Oid" -> "objectid"
      [] type = "Opaque" -> "opaque"
      [] OTHER -> "string"

value_from_pass(token) ==
    CASE token \in {"integer", "int", "integer32"} -> "Integer"
      [] token \in {"gauge", "gauge32", "unsigned", "uinteger", "uint32"} -> "Gauge32"
      [] token \in {"counter", "counter32"} -> "Counter32"
      [] token = "counter64" -> "Counter64"
      [] token \in {"timeticks", "timetick"} -> "TimeTicks"
      [] token \in {"ipaddress", "ip"} -> "IpAddress"
      [] token \in {"objectid", "oid"} -> "Oid"
      [] token = "opaque" -> "Opaque"
      [] OTHER -> "OctetString"

----------------------------------------------------------------------------
(* Replies. To `set` a script answers with a word, to the others with an    *)
(* object, inside the subtree or not, or with NONE.                         *)

Line(id, place, text) == [id |-> id, place |-> place, text |-> text]

Object(id, oid, token) == <<Line(id, 1, oid), Line(id, 2, token), Line(id, 3, "value")>>
NoneReply(id) == <<Line(id, 1, "NONE")>>
BlankLine(id) == <<Line(id, 0, "")>>

Replies(request) ==
    IF request.op = "set" THEN {<<Line(request.id, 1, "DONE")>>}
    ELSE {NoneReply(request.id)}
           \cup {Object(request.id, oid, request.token) : oid \in {"inside", "outside"}}

IsOid(text) == text \in {"inside", "outside"}
TextAt(lines, i) == IF i <= Len(lines) THEN lines[i].text ELSE ""

(* A reply is an object iff its first line is an OID; missing lines read as *)
(* empty. (parse_pass_reply and the end of read_persist_reply.)             *)
parse_pass_reply(lines) ==
    IF lines = <<>> THEN <<>>
    ELSE IF ~ IsOid(lines[1].text) THEN <<>>
    ELSE <<[oid |-> lines[1].text, type |-> value_from_pass(TextAt(lines, 2)), lines |-> lines]>>

(* `get` takes any object for its own; `getnext` only one below the root;   *)
(* `set` looks at none and is always Ok.                                    *)
Answer(op, reply) ==
    IF op = "set" \/ reply = <<>> THEN <<>>
    ELSE IF op = "getnext" /\ reply[1].oid # "inside" THEN <<>>
    ELSE reply

Finish(c, lines) ==
    call' = [call EXCEPT ![c].at = "done", ![c].buffer = <<>>, ![c].lines = <<>>,
                         ![c].answer = Answer(call[c].op, parse_pass_reply(lines))]

----------------------------------------------------------------------------
(* The handler. *)

LockIgnored == TRUE
LockFree == lock = NoCaller

Request(c) == [id |-> call[c].id, op |-> call[c].op, token |-> value_to_pass(call[c].value)]

Call(c, op, value) ==
    /\ call[c].at \in {"idle", "done"} /\ passCalls < MaxPassCalls
    /\ passCalls' = passCalls + 1
    /\ call' = [call EXCEPT ![c] = [Idle EXCEPT !.at = "start", !.id = passCalls + 1,
                                                !.op = op, !.value = value]]
    /\ UNCHANGED <<script, command, child, lock, deaths>>

(* run_oneshot: a process of its own, read to the end of its output.        *)
RunOneshot(c) ==
    /\ call[c].at = "start" /\ ~ script.persist
    /\ \/ split_command(command) = <<>> /\ Finish(c, <<>>)
       \/ /\ split_command(command) # <<>>
          /\ \E reply \in Replies(Request(c)) : Finish(c, reply)
    /\ UNCHANGED <<script, command, child, lock, passCalls, deaths>>

(* run_persist up to the read: the lock, the first child, the request and,  *)
(* if it cannot be written, one new child and the request again.            *)
SendPersistRequest(ch, c) ==
    IF ch.state = "alive" THEN [ch EXCEPT !.asked = Append(@, Request(c))] ELSE ch

RunPersist(c) ==
    /\ call[c].at = "start" /\ script.persist /\ LockFree
    /\ LET first == IF child.state = "none" THEN spawn_persist_child ELSE child
           ready == IF first.state = "alive" THEN first ELSE spawn_persist_child
       IN  /\ child' = SendPersistRequest(ready, c)
           /\ IF ready.state = "none"
              THEN Finish(c, <<>>) /\ UNCHANGED lock
              ELSE call' = [call EXCEPT ![c].at = "reading"] /\ lock' = c
    /\ UNCHANGED <<script, command, passCalls, deaths>>

(* fill_buf of a BufReader made for this call: all that is in the pipe.     *)
FillBuf(c) ==
    /\ call[c].at = "reading" /\ call[c].buffer = <<>> /\ child.pipe # <<>>
    /\ call' = [call EXCEPT ![c].buffer = child.pipe]
    /\ child' = [child EXCEPT !.pipe = <<>>]
    /\ UNCHANGED <<script, command, lock, passCalls, deaths>>

(* The reply is complete with its third line, a blank one or the end of the *)
(* pipe. What the buffer still holds goes with it.                          *)
Release(c, lines) == Finish(c, lines) /\ lock' = NoCaller

ReadLine(c) ==
    /\ call[c].at = "reading" /\ call[c].buffer # <<>>
    /\ LET line == Head(call[c].buffer)
           lines == Append(call[c].lines, line)
       IN  IF line.place = 0 THEN Release(c, call[c].lines)
           ELSE IF Len(lines) >= 3 THEN Release(c, lines)
           ELSE /\ call' = [call EXCEPT ![c].buffer = Tail(@), ![c].lines = lines]
                /\ UNCHANGED lock
    /\ UNCHANGED <<script, command, child, passCalls, deaths>>

EndOfFile(c) ==
    /\ call[c].at = "reading" /\ call[c].buffer = <<>>
    /\ child.pipe = <<>> /\ child.state = "dead"
    /\ Release(c, call[c].lines)
    /\ UNCHANGED <<script, command, child, passCalls, deaths>>

(* The deadline is looked at between two lines only, never while fill_buf   *)
(* waits: it passes when a slow script has written a line.                  *)
ReplyDeadline(c) ==
    /\ call[c].at = "reading" /\ script.slow /\ call[c].lines # <<>>
    /\ Release(c, <<>>)
    /\ UNCHANGED <<script, command, child, passCalls, deaths>>

----------------------------------------------------------------------------
(* The script: it answers the requests in turn, with a blank line at the    *)
(* end or not, in one write or line by line, and may die at any time.       *)

ScriptAnswers ==
    /\ child.state = "alive" /\ child.asked # <<>> /\ child.unsent = <<>>
    /\ \E reply \in Replies(Head(child.asked)) :
         LET all == reply \o (IF script.blank THEN BlankLine(reply[1].id) ELSE <<>>)
         IN  child' = [child EXCEPT !.asked = Tail(@),
                                    !.pipe = IF script.whole THEN @ \o all ELSE @,
                                    !.unsent = IF script.whole THEN <<>> ELSE all]
    /\ UNCHANGED <<script, command, lock, call, passCalls, deaths>>

ScriptWrites ==
    /\ child.state = "alive" /\ child.unsent # <<>>
    /\ child' = [child EXCEPT !.pipe = Append(@, Head(child.unsent)), !.unsent = Tail(@)]
    /\ UNCHANGED <<script, command, lock, call, passCalls, deaths>>

ScriptDies ==
    /\ child.state = "alive" /\ deaths < MaxDeaths
    /\ child' = [child EXCEPT !.state = "dead", !.unsent = <<>>, !.asked = <<>>]
    /\ deaths' = deaths + 1
    /\ UNCHANGED <<script, command, lock, call, passCalls>>

PassInit ==
    /\ script \in PassScripts /\ command \in PassCommands
    /\ child = NoChild /\ lock = NoCaller /\ passCalls = 0 /\ deaths = 0
    /\ call = [c \in PassCallers |-> Idle]

PassNext ==
    \/ \E c \in PassCallers :
         \/ Call(c, "get", "Integer") \/ Call(c, "getnext", "Integer") \/ Call(c, "set", "Opaque")
         \/ RunOneshot(c) \/ RunPersist(c) \/ FillBuf(c) \/ ReadLine(c) \/ EndOfFile(c)
         \/ ReplyDeadline(c)
    \/ ScriptAnswers \/ ScriptWrites \/ ScriptDies
PassSpec == PassInit /\ [][PassNext]_passVars

----------------------------------------------------------------------------
(* Scripts whose replies are found whole by the reader or end with their    *)
(* third line; the others may leave lines for the next call.                *)
InStep == script.whole \/ (~ script.blank /\ ~ script.slow)

(* run_persist, "reading the reply up to the blank line": what a call       *)
(* answers was written by the script for this very call, and a reply cut    *)
(* short was cut by the script's death.                                     *)
PassAnswersMine ==
    \A c \in PassCallers :
      call[c].answer # <<>> /\ InStep =>
        LET lines == call[c].answer[1].lines
        IN  /\ \A i \in DOMAIN lines : lines[i].id = call[c].id /\ lines[i].place = i
            /\ Len(lines) < 3 => deaths > 0
============================================================================
